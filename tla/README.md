# SimTools: specifications, model checking and proofs

SimTools is a collection of message-passing programs in C++ on ZeroMQ, with a few
trials of other frameworks around them. Its main program is a small *data center*:
clusters of clients and workers, each with a broker of its own, and a super broker
that moves requests between clusters. This directory holds TLA+ modules that model
these programs, the TLC runs that check them on small instances, and proofs for
instances of every size.

To check a run, `tlc -config <cfg> <module>.tla`, with the names in `PROJECT.json`; for the proofs,
`tlapm <module>.tla` with `QueueLemmas`, `DataCenterProofs`,
`LoadBalanceProofs`, `ProxyProofs`, `AsyncServerProofs`, `SyncRpcProofs`, `PushPullProofs` and `WeatherReportProofs`.
Paths below are relative to `src/cppzmq_playground/`.

## 1. The system and its parts

| part | state | operations | modelled in |
| --- | --- | --- | --- |
| data center: clients, workers, local broker (`data_center/cluster_broker.cpp`) | the queue of ready workers and its size; per client the request in hand | `Client::sendRequest`, `Worker::process`, `LocalBalanceBroker::routeCloud`, `routeLocalRequest`, `routeLocalReply` | `ClusterCore`, `ClusterBroker` |
| data center: state reporting (`data_center/cluster_state.cpp`, `OneCluster::runTask`) | two pipes of reports | `setClusterState`, `ClusterStateReporter::runTask` | `ClusterState` |
| data center: super broker (`data_center/super_broker.cpp`) | the last count of ready workers of each cluster | `statePuller`, `taskRouter` | `SuperBroker` |
| the data center as a whole | | | `DataCenter`, which implements `TaskService` |
| load balancer (`load_balance/load_balance.cpp`) | the queue of ready workers, the result of the last poll | `Client::sendRequestImp`, `Worker::processImp`, `BalanceBroker::serve` | `LoadBalance`, which implements `TaskService` too |
| synchronous RPC (`dummy_rpc_dealer_router/`) | a map from topics to payloads | `getMessageByTopic`, `setMessageByTopic`, `Server::serve`, `dispatch` | `SyncRpc` |
| proxy (`dummy_proxy/dummy_proxy.cpp`) | the turns of the dealer socket, the tasks queued at each worker | `Client::sendRequestImp`, `Worker::processImp`, `zmq::proxy` | `ProxyBroker`, `Proxy`, which implements `TaskService` |
| asynchronous server (`dummy_async_server/dummy_async_server.cpp`) | the same, and the loop of answers | `Client::sendRequest`, `Client::poll`, `Worker::processImp`, `zmq::proxy` | `ProxyBroker`, `AsyncServer` |
| the data center when processes end | | a super broker that restarts, a cluster that is stopped | `DataCenterFaults` |
| push and pull (`simple_push_pull/tasks_core.cpp`) | two loop counters, a sum; the tasks assigned to each worker | `distributeTasks`, `work`, `collectResults` | `PushPull` |
| weather reports (`simple_pubsub_weather_report/`) | the buffer of the publisher, the subscriptions | the loop of `weather_pub.cpp`, `publish`, `setSubTopic`, `subscribe` | `WeatherReport` |
| thread lifecycle `AsyncRun`, main programs | a stop flag | `startTask`, `stopTask`, `wait` | only as the fairness of the threads |
| `router_request`, `inproc`, `simple_request_reponse` | none | one request, one reply | no: `SyncRpc` subsumes them |
| SimRunner, gRPC, Thrift and Django trials | none | empty bodies or generated code | no |

How they interact. All parts talk through ZeroMQ sockets only, except that the broker
thread of a cluster publishes its count of ready workers in an atomic that the main
thread of the cluster reads. A client sends to the frontend router of its broker; the
broker passes the request to the first ready worker, or, when there is none, to the
super broker, which passes it to the cluster with the highest count it knows, or sends
it back rejected when all counts are zero; the cluster it arrives at gives it to a
worker or sends it back rejected. Replies go the way back. The client sleeps one second
after a rejection and makes a new request.

What makes it hard. The processes share no clock and no state; the counts the super
broker decides on are old and not corrected when it routes a task; each of five
handlers rewrites some of the four address fields of a message in place and the next
one relies on the result; a worker's turn is spread over three handlers; nothing has a
timeout, so that a single lost message stops a client for ever; and a router socket
silently drops what it cannot route. `PROJECT.json` lists these hazards with their
lines and the properties that watch them.

What makes each part correct:

* data center: a request is served once or rejected, its outcome comes back to its
  client and to nobody else, no worker has two tasks, none is forgotten, and the count
  the super broker sees follows the truth;
* load balancer: the same, with no rejections, and the front of the ready queue is
  only taken when there is one;
* proxy: the same service without a ready queue; asynchronous server: every request gets
  its ten answers, in order, and they are results;
* RPC: each topic is an atomic register, a call gets the reply to that call;
* push and pull: every task is counted once, the sink ends exactly when nothing is to come;
* weather reports: a subscription has no gaps, and a name that is printed ends.

## 2. The models

### Data center

`ClusterCore` has the vocabulary. A message is a record: the four addresses, the task
ID, type and direction of `TaskMeta`, and the kind of its second frame (`request`,
`sum`, `zero`, `byte`), in place of the array of doubles and its sum. A connection
between two sockets is two FIFO channels (`net[ch]`); ZeroMQ guarantees the order
within a connection and the unity of a multi-part message, and nothing between
connections. A send of a router socket to an identity it does not know is dropped.

`ClusterBroker` has one action per handler, which takes a message from one channel and
puts at most one on another: `SendRequest`, `ReceiveReply`, `Wake` for the client
(split where the thread blocks), `Process` for the worker, `RouteLocalReply`,
`RouteLocalRequest` and `RouteCloud` for the broker. `LocalBalanceBroker::runTask`
serves its three sockets in turn after each poll. Its handlers are independent given
that a message may take any time to arrive, so the model lets them interleave freely;
the `LoadBalance` model keeps the rounds, because there they carry the correctness.

`routeCloud` fills addresses into a copy of the meta and forwards the original bytes;
the model does too (`RouteCloud`, and the finding below).

`ClusterState` has the two pipes through which a cluster reports. The report loop does
not pause, so both pipes fill to their high-water marks, the constants `PairHWM` and
`PushHWM`; their values bound the states of a run, and the proofs hold for all.

`SuperBroker` has `StatePuller` and `TaskRouter`. `routable` is the set of clusters whose
identity the router socket knows (`RouteMessage` is what `taskRouter` does with a message once it has it, for
a cluster that is known or not): `Connect` may come at any time, and after the first
reports. `dropped` is a history variable, the users whose request was dropped there.

`DataCenter` composes them: the threads interleave, each step leaves the variables of
the other parts alone.

`TaskService` is the abstract specification: per user a status, the task, the workers
that have it. Requests are open, running (at one worker that has no other), served,
rejected or lost, and collected.

`DataCenterFaults` adds what no code handles, but every deployment meets. A super broker
that is restarted (`RestartSuperBroker`) has an empty map and no connection; those of the
clusters come back one by one (`ReconnectTasks`, `ReconnectReports`), each without the oldest
messages that went up and the youngest that went down, any number of them: they were in the
process, or on the wire. A dealer or push socket sends the rest of its queue once it is
connected again, and the router socket drops what is for a peer that is not. A cluster that
is stopped (`StopCluster`) is gone with its clients and workers; the super broker still reads
what it had received from it, and keeps its last count. The steps of what lives are those of
`DataCenter`. `dropped` now holds the requests lost in any of these ways.

### Load balancer

`LoadBalance` keeps the structure of the loop in `serve`: `Poll` sets `revents`, to the
backend only if the queue is empty; `ServeBackEnd` and `ServeFrontEnd` follow in that order
if reported, and `ServeBackEnd` ends the round early after an alive signal. A poll may
report fewer sockets than have messages under way. It too implements `TaskService`,
and never takes its step to a rejected or lost request.

### RPC

`SyncRpc` has programs that get one topic and set another in rounds, like `dummy_car` and
`dummy_planning`; payloads are the round numbers, so that older and newer can be told
apart. Left out are the status of a call, which `dispatch` always returns as the default,
and the branch for an unknown function name, which no client sends. `known` and
`floor` are history variables: what had been returned to anybody, now and when a get
was called.

### Proxy and asynchronous server

`ProxyBroker` is `zmq::proxy` between a router and a dealer socket: `Forward` passes a task
to the worker at the head of `rotation` and rotates, `Backward` passes an answer back by the
identity in front of it, `Connect` completes the connection of a worker, whose turn may fall
anywhere between those of the others. `Forward` and `Backward` are external code, modelled
by what the programs rely on. Without a worker the proxy leaves tasks where they are.

`Proxy` adds clients that wait for each result and workers with a recv and a send
(`ReceiveTask`, `SendResult`): several tasks may wait at one worker, so a request is running
only once its worker has received it. It implements `TaskService` too.

`AsyncServer` adds clients whose two threads send (`SendRequest`) and receive (`Poll`)
independently, and workers that answer in a loop (`SendAnswer`, one round each). A frame
has a type, since the worker returns the frame of the request; copied into a `TaskResult` that is
smaller, it leaves the behaviour of the process undefined, and `Poll` lets the process end
(`running`) or go on as if nothing had happened. Other outcomes, a corrupted stack that goes on,
are not modelled. Sends and receives are single steps, as if the calls of the two threads on their
one socket never overlapped. A task ID is the number of the request in place of a random
number, so that answers can be told apart.

### Push and pull

`PushPull` has the ventilator, the workers and the sink. A push socket assigns a task to a
connected worker when it sends it (`Distribute`), so `tasks[w]` is a queue per worker; it
blocks while it has no worker. `work` is split at its pause (`ReceiveTask`, `SendResult`).
The workers loop until somebody kills them: `Kill` takes the task in the worker's hand and
the last of its results, `Disconnect` what the ventilator had assigned to it - until the
ventilator notices, it may go on assigning. A result is only a number in the code; the field
`task`, and `collected` and `lost`, are history.

### Weather reports

`WeatherReport` has the publisher's loop, one action a round (`Publish`), with the buffer
`mCityName` it writes every name into. A byte is a letter of a city, the terminator, or what
the memory held before; `Fill` writes the letters and sets the terminator where the code does,
one place behind the end. The subscription compares the first bytes of the message with the
topic (`Matches`), and takes effect at any time (`Join`); a subscriber may be killed and started
again (`Leave`, `Join`). The marks of the sockets (1000) are far above the 100 reports, so that
nothing is dropped for a slow subscriber.

The terminator is not behind the name, so what is printed for BeiJing is `BeiJingi`, with the last
letter of the ShangHai before it, and the first ShangHai may be followed by a byte that
was never written; `NameEnds` says that this is all that can happen, and that the name
still ends within `mCityNameLength`.

## 3. The runs

| run | instance | question |
| --- | --- | --- |
| `requests` | two clients of two clusters, two workers in one of them, two tasks | types; is every message addressed as its next handler assumes (`WellAddressed`); is each request exactly one message, each worker in exactly one place (`OneMessagePerRequest`, `OnePlacePerWorker`)? |
| `service` | two clients of two clusters, one worker | does the data center implement `TaskService`, is every request settled, does every worker come back? |
| `faults` | one client with two tasks, away from one worker, one restart of the super broker, both clusters may be stopped | do failures stay where they happen (`LivingRequestsIntact`, `LivingWorkersIntact`), does what lives go on (`LivingRequestsSettled`, `LivingWorkersRejoin`), does the super broker come to see the workers that stay ready (`ViewConverges`)? |
| `routed_tasks_arrive` | two clusters, each a client and a worker | violated: see the findings |
| `task_names_its_worker` | the same | violated: see the findings |
| `load_balance` | three clients, two workers, three requests each | is the front of an empty queue ever taken, a worker given two tasks, a request lost or mixed up? Does it implement `TaskService`, is everything served in the end? |
| `rpc` | four programs, three topics, two rounds | are topics atomic registers, do replies match calls, do the programs end? |
| `proxy` | three clients, two workers, two requests each | is each request in one place while workers connect and tasks queue up? Does the proxy implement `TaskService`, is every request answered? |
| `async` | two clients, two workers, two requests, two answers to each | do the answers add up (`CopiesAccounted`), keep their order, and all arrive? |
| `async_results` | one client, one worker | violated: see the findings |
| `push_pull` | four tasks, three workers, two of which may be killed | is each task in one place (`EveryTaskOnce`), the sum right (`SumAddsUp`), the end complete (`EndIsComplete`)? Does the sink end? |
| `weather` | seven reports, both subscriber programs | are subscriptions without gaps (`NoGaps`), do names end (`NameEnds`), does every report since a subscription arrive? |

The bounds, and why they are enough. Two clusters give every path of a message: served
at home, up and back with a rejection by the super broker, to the other cluster and
back with a reply or a rejection, and a request routed back to the cluster it came from. Two
clients for one worker make local and remote requests compete; two workers make the
order of the queue matter. A client has one request at a time, so the channels are
short by themselves: nothing in `net` is bounded by the instance. The task IDs matter only
as equal or different: two where a property compares them, else one (`service` has one:
that tasks are not mixed up is what `OneMessagePerRequest` says in `requests`). The
high-water marks are 1, which leaves up to two reports under way and so
already stale ones; `ViewConverges` compares what is at their ends. It is checked in `faults`, where
the client may make no more requests, or its cluster be stopped, so that the worker stays ready
for ever, before or after the super broker has forgotten all counts. The client
has two tasks, so that an outcome could tell of the wrong one. That it could go to the wrong
client takes a second client, which makes more than ten times the states, too many for the liveness
properties: without faults `requests` checks it, and with faults `LivingRequests` and `LivingWorkers`
of section 5 prove it for any number of clients. One restart
may come at any hop of any message, and before, after or between the ends of both clusters.
Three clients and two
workers let the queue of the load balancer be empty, and non-empty, with clients
waiting. Two answers to a request
instead of ten are a first, which is not the last, and the last. Two rounds of the RPC programs are a first value and one that replaces it.
Four tasks give one
worker two of them while two others are killed with one each. Seven reports show a subscriber three of its city,
one before it joins, one it gets and one it leaves before.
Symmetry is used in `requests` only, which checks invariants, over the names of the workers.

Every property of a passing run has a mutant in `PROJECT.json`: a definition that the
code could have had with a small mistake (`RejectionHalfSwapped`, `MarkServerReady`,
`PeekWorker`, `SetClusterStateBusy`, `DiscardUnaddressed`, `SendRetried`, `SendAgain`, `PolledAlways`, `StoreOnce`,
`CollectAllButOne`, `MatchesEnded`...). They stand in the modules before the definition they would
replace, and no specification uses them.

Fairness. `FairSpec` of each module assumes weak fairness of the handlers. The threads
loop for ever; the poll loops serve each readable socket in each round, and a ZeroMQ
socket takes its peers in turn, so no connection is passed over for ever. Nothing is assumed of
clients of the data center that may make a request, and no strong fairness anywhere.
In `DataCenterFaults` the same
holds for what lives, a connection comes back, and nothing has to fail; in `PushPull` somebody
starts the workers, and a broken connection is noticed; in `WeatherReport` nobody has to join.
The runs of the load balancer, the proxy, the asynchronous server, the RPC, the pipeline
and the faults allow the final states, where servers, brokers and workers wait for messages that nobody will send, with `CHECK_DEADLOCK FALSE`; `AllServed`,
`AllAnswered`, `ProgramsEnd`, `SinkEnds` and `LivingRequestsSettled` show that the systems stop nowhere else.

`EveryRequestSettled` says that each request is answered *or was dropped at start-up*: without
that exception it fails, see the first finding.

## 4. Findings

1. *A count arrives before its cluster can be reached.* `cluster_broker.h:81` says that the
   counter is reported "so that super broker can router tasks to this cluster". Reports
   and tasks use two connections. Until the second one is established, `taskRouter`
   (`super_broker.cpp:143`) sends to an identity the router socket does not know, and
   the request is gone; its client waits for ever.
2. *The worker's address is not sent.* `cluster_broker.cpp:274` says "update address,
   request from cloud to local worker"; the update is made in a copy (275-276), and line
   280 sends the bytes as they came. The worker does not read the field, and replies are
   routed by others, so no reply is lost by it (`WellAddressed` holds), but the task does not name its
   worker, as it does in `routeLocalRequest`.
3. *The answers of the asynchronous server are not results.* `dummy_async_server.cpp:198` says
   "send result multiple times"; the result is copied into a message that is not sent (201),
   and line 206 sends a copy of the request. The client takes it for a `TaskResult` (113): the task ID
   is right, since both begin with the meta, the sum is the first number of the array, and
   the copy is longer than its destination.

## 5. The proofs

TLC checks the instances above; the theorems hold for every set of clusters, clients,
workers and tasks, every high-water mark and every number of requests. They assume
what the modules state with ASSUME: identities are not the empty name, marks and
numbers are naturals (of answers to a request there is at least one, and of rounds of an RPC program), a topic
of the RPC has one writer, a client is not called like the
alive signal, the clusters and workers that may end are among those there are, and `NoJob`, the
value of an empty hand in `Proxy` and `AsyncServer`, is not a job. That actors are finitely many is
not assumed anywhere.

`QueueLemmas` has what the handlers do to queues. One part is about a single sequence without
repetitions (`EachOnce`): taking its head removes just that element, adding a newcomer
keeps it so. The other is about many queues at once, given as one function, and the messages
in them that belong to some set, those of one user: exactly one of them is anywhere (`HasOne`), or none
(`HasNone`). A step that takes the head of one queue and puts something at the end of another
moves the one message (`PassMine`), or leaves it where it was (`PassOther`). A third is about the turns
of a dealer socket (`RotationTurns`, `RotationJoins`).

`DataCenterProofs` has three parts. The first is about messages and workers:

* `NetCorrect`: `Spec => [](TypeOK /\ WellAddressed)`. The two are inductive only together:
  the channel a handler sends on, and the worker that becomes ready, come out of the
  address fields of a message, so types need addresses; and what is in the fields
  depends on what could be sent. One lemma for each handler shows that what it sends fits
  the channel it sends it on; `ReceiveOK`, `SendOK` and `MoveOK` do the rest once for all.
* `WorkersCorrect`: `Spec => []OnePlacePerWorker`, from the first: that a worker signs
  its messages (part of `WellAddressed`) is why the right one joins the queue. The
  cases are a dispatch (`PlacesDispatch`), a worker at work (`PlacesProcess`), its return
  (`PlacesReturn`), and the steps that touch neither connections of workers nor queues
  (`PlacesUntouched`).

The second is about requests, on top of both:

* `RequestsCorrect`: `Spec => []OneMessagePerRequest`. For one user, every step is of one of six
  kinds: its request is where it was (`Unmoved`), made (`Asked`), moved on to the next
  place of its route (`Forwarded`), dropped by the super broker's socket (`Lost`), or its outcome is read
  (`Answered`), or it wakes up (`Woken`). One lemma for each handler says which kind it is,
  for the owner of the message and for all others; `RequestSteps` puts them together. Where
  the request goes to a worker, that worker is idle by `OnePlacePerWorker` (`FirstIsIdle`).
* `DataCenterImplementsTaskService`: `Spec => ImplementsTaskService`. Its invariant adds `AllHomeward`:
  a request that is away from its cluster went up on a connection the super broker's socket
  has known since, so an answer is never dropped on its way back, only a request is on its way out.
  `StatusFollows` turns the one message of a user into its abstract status, and each of the
  six kinds is then a step of the service or none (`AskedRefines`, `ForwardedRefines`, ...).

The third is about `DataCenterFaults`. A step is one of the data center, a message of a stopped
cluster that the super broker reads, or a failure (`FaultSteps`). What a failure leaves of a queue is
a contiguous part of it, all or none (`PartOf`), so a network after a failure has no message the network
before did not have, on the same channel and in the same order (`Shrinks`).

* `FaultTypes`: `FaultSpec => [](FaultTypeOK /\ WellAddressed)`. The lemmas of the first part serve
  the handlers of what lives; addresses survive what shrinks (`ShrinksAddressed`).
* `LivingWorkers`: `FaultSpec => []LivingWorkersIntact`. The first part follows the workers cluster by cluster
  (`OnePlaceIn`, `PlacesStep`), so it can be cited for one that lives; the failures touch neither the connections between
  the broker and the workers of such a cluster nor its queue (`PlacesUntouched`).
* `LivingRequests`: `FaultSpec => []LivingRequestsIntact`. A failure leaves a request the one message it was or
  takes it (`ShrinksTask`), and what it takes is recorded in `dropped` (`LossOneMessage`); that a task for a stopped
  cluster is dropped, as is one for a cluster that is not connected, is one of the six kinds (`Lost`).

`LoadBalanceProofs`:

* `ServeCorrect`: `Spec => [](TypeOK /\ FrontHasWorker)`. Again together: the type of the
  queue is kept because its front exists when it is taken.
* `LoadBalanceWorkers`: `Spec => []WorkersOnce`.
* `LoadBalanceRequests`: `Spec => []RequestsOnce`. The four connections of each client and
  worker are laid out as one function of lines (`Net`), so that the lemmas on one
  message among many queues apply; `Requested` says that the client of a request
  has one entry in the lines if it waits, and none otherwise.
* `LoadBalanceImplementsTaskService`: `Spec => ImplementsTaskService`, with the places of the
  workers (`Places`) to show that a request is only assigned to a worker that has no other. No step
  of the load balancer is the rejection or the loss of a request.

`ProxyProofs`:

* `ProxyTypes`: `Spec => []TypeOK`, where the point is that the turns of the dealer socket
  have each worker once, also when one joins between the others (`RotationJoins` in `QueueLemmas`).
* `ProxyRequests`: `Spec => []RequestsOnce`, in the manner of the load balancer. A worker may have
  a task in its hand and others waiting, so its hand is one more line, of at most one entry.
* `ProxyImplementsTaskService`: `Spec => ImplementsTaskService`. A request is running while it is in
  the hand of a worker; that one hand holds one task is what keeps a worker to one request.

`AsyncServerProofs`, for every number of requests and of answers to each:

* `AsyncTypes`: `Spec => []TypeOK`, with one lemma for each action on what it takes and puts
  (`SendRequestDoes`, `PollDoes`, ...), on which the others rest.
* `AsyncOrder`: `Spec => []AnswersInOrder`. `AnswersInOrder` looks at the last place only. What is under way
  between a client and a worker is in six lines one behind the other: the answers the client has, those at its socket,
  those at the worker's, the request in the worker's hand, those queued for it, those at the broker (`Lines`).
  A message stands there with its number, or with 0 if it is somebody else's. Inductive is that along all six the
  numbers never decrease and none is above the last one sent (`Fine`). Every action copies or moves the head of a
  line to the end of the one before (`LineCopied`, `LinePassed`), or puts what is of nobody's concern there (`LineOther`).
* `AsyncCopies`: `Spec => []CopiesAccounted`. Counts are the cardinalities of sets of places in queues
  (`FramesOf`, `JobsOf`), not sums over sequences, so no induction is needed: a queue that lost its head has its places
  moved up by one, which is a bijection (`ShiftCount`), and one that was extended has one place more. With that, each action moves
  a request from one count to another or leaves the counts alone (`ForwardCounts`, `SendAnswerCounts`, ...), and
  the cases of `Accounted` follow (`SendAnswerBooked`, ...). The invariant `CopiesInv` adds that the sets are finite, since
  there may be any number of workers.

`SyncRpcProofs`:

* `RegistersCorrect`: `Spec => [](TypeOK /\ RepliesMatchCalls /\ ReadsAreFresh)`, for every set of
  programs, of topics with one writer each, and every number of rounds. The invariant
  `RpcInv` says where a call is (`Getting`, `Setting`: on its way, or answered, and then with
  what) and what the server holds (`TopicInv`: what the writer has sent, up to a set under
  way). A step of one program leaves the calls of the others as they are, as long as topics
  only move on (`CallKept`); the step that answers a set is the one that moves a topic.

`PushPullProofs`, for every number of tasks and every set of workers, whichever are killed:

* `PushPullTypes`: `Spec => []TypeOK`. A number that comes back is half of its task's (`Halved`), which
  keeps it in its range.
* `PushPullTasks`: `Spec => []EveryTaskOnce`. The invariant `PipeInv` has, for each worker, that its
  results, its hand and its tasks, in this order, are in the order in which they were sent (`InLine`), so
  none is there twice; and for each task one holder if it was sent, and none if not (`Held`). A kill
  cuts a line anywhere: the parts of an ordered sequence are ordered and share nothing (`OrderedCut`).
* `PushPullSum`: `Spec => []SumAddsUp`. The sum of the halves of a set of tasks is the number of
  pairs of a task and a unit of its half (`Units`), and a task that is collected adds its units, which no other has.
* `PushPullEnd`: `Spec => []EndIsComplete`. The counter of the sink is the number of different
  tasks it collected (`CountInv`), and a subset of the tasks with as many elements is all of them.

`WeatherReportProofs`, for every set of subscribers, coming and going, and every number of reports:

* `NamesCorrect`: `Spec => []NameEnds`. The
  invariant `NameInv` has the buffer and what is on its way (`FitsCity`: the topic in front,
  the terminator where the length says). The step is that the first byte of a buffer decides
  which topic it matches (`FirstByteDecides`), so that a message which passes the filter of a
  subscriber was filled in for its city (`FillFits`).
* `SubscriptionsCorrect`: `Spec => []NoGaps`. Inductive is that what was printed, and behind it what is
  on the wire, is exactly the reports on the city since the subscription (`Exactly`), and that one who
  has no subscription has nothing on the wire either. That the filter passes a report if and only if it is
  on the city (`MatchesOwnCity`) comes out of `NamesCorrect`, that is, out of the bytes in the reused buffer.
* `WeatherTypes`: `Spec => []TypeOK`.

`DataCenterTypes`, `LoadBalanceTypes`, `RpcTypes` and `RpcReplies` state the parts of these theorems
that runs check on their own.

Every safety property that a passing run checks is thus a theorem, and so are the three refinements of
`TaskService`. Only model-checked are the liveness properties (`EveryRequestSettled`, `WorkersRejoin`, `LivingRequestsSettled`,
`LivingWorkersRejoin`, `ViewConverges`, `ProgramsEnd`, `AllServed`, `AllAnswered`, `SinkEnds`, `JoinedGetReports`): liveness
under fairness and ENABLED are out of the prover's reach and stay with TLC. The modules declare no RECURSIVE operator.

## 6. Not modelled

A cluster that is started again under the name of one that was stopped (how soon its router
socket takes the new connection for the old identity is up to ZeroMQ), a local broker or a worker
that ends alone (they are threads of one process), and a restart of the server of the RPC, after
which a client blocks for ever and its topics are gone; full socket queues
between clients, brokers and workers (a client has one request at a time, and the marks
of ZeroMQ are far above the number of clients); the data race on the static random
generator of `MiscHelper`, which only affects how long a worker sleeps; the end of the
threads (`stopTask`), which no program asks for: the threads block in recv or poll without a timeout, and
a program ends when it is killed. The numbers a task adds up; logging. The demos `router_request`,
`inproc` and `simple_request_reponse` alternate one request and one reply and keep no state; a model
of them would have a handful of states and nothing that `SyncRpc` does not have.

## 7. Plan

Done: the modules above, and the theorems of section 5. What is left is outside of what can be proved or of what
the code decides: liveness stays with TLC, and the points of section 6 wait for code that handles them.
