---------------------------- MODULE MCWeatherReport ----------------------------
(***************************************************************************)
(* An instance of WeatherReport for TLC: the two subscriber programs.      *)
(***************************************************************************)
EXTENDS WeatherReport, TLC

CONSTANTS suber_0, suber_1

Topics == (suber_0 :> "BeiJing") @@ (suber_1 :> "ShangHai")

================================================================================
