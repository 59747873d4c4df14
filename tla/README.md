# TLA+ models of eth-fast-fabric

The repository holds Intel's Ethernet Fabric Suite (FastFabric) host tools and, under
`src/IbAccess`, the InfiniBand access layer they grew from.  Most of its lines are command line
tools, scripts, formatting and installation.  The logic that is hard to get right is in the access
layer (protocols by which hosts set up and tear down connections, transfer management datagrams,
query the fabric and share subscriptions), in the containers and thread services under it, and in
the discovery that fills the tools' database.  This project models those.

| module | models | checked by; proofs in |
|---|---|---|
| `Cm` | Communication Manager (CM): connections | `MCCm`; `CmProofs`, `CmObjectProofs` |
| `Sidr` | CM: service ID resolution | `MCGsa`, `MCEvents`; `SidrProofs` |
| `Gsa` | General Services Agent: receive pool, ports, classes, dispatch | `MCGsa`; `GsaProofs` |
| `GsaSend` | General Services Agent: lists of datagrams being sent | `MCServices`; `GsaSendProofs` |
| `Rmpp` | General Services Agent: reassembly of segmented MADs | `MCServices`; `RmppProofs` |
| `SdQuery` | Subnet Driver: queries | `MCSd`, `MCServices` |
| `Subscribe` | Subnet Driver: trap subscriptions | `MCSd`, `MCEvents`, itself; `SubscribeProofs` |
| `Callbacks` | Public: system callbacks and the reaper | `MCEvents`; `CallbacksProofs` |
| `QuickMap`, `AbsMap` | Public: the quick map, and what it promises | `MCTopology` |
| `QList`, `Lists`, `AbsLists` | Public: quick lists, locked quick lists, and what they promise | `MCTopology` |
| `TreeMap` | Public: the depth-balanced map | `MCTopology` |
| `Fabric`, `SnmpSweep` | Topology: the fabric database and the SNMP sweep that fills it | `MCTopology` |

## Inventory

| component | state | operations | interacts with | hard behaviour | what makes it correct |
|---|---|---|---|---|---|
| CM connections (`Ibt/Cm`) | CEP objects in four maps, pending lists, a timer, event flags, a callback item and a datagram per CEP | `iba_cm_*` calls, nine MAD handlers, timer callback, system callback | GSA (datagrams), timers, `SysCallbackQueue`, verbs events, the user | two hosts over an unreliable service; lock released around callbacks; late timers and sends; TIMEWAIT | ends agree; no CEP leaks or is freed under a callback; waits end; retransmissions are valid |
| CM SIDR | query CEPs, registered CEPs with pending requests | register, query, respond | GSA, timers, callbacks | retry against late answer; several requests behind one callback | an answer is of the query; no request is forgotten |
| CM alternate paths | LAP states, two paths per CEP | alt path request and reply, migrated | CM connections | races of LAP with DREQ and migration | both ends use the same path |
| CM peer connect | REQs that cross | `iba_cm_connect_peer`, `ProcessReqPeer` | CM connections | symmetry breaking | exactly one active side |
| CM devices | device list, turnaround time | add, remove a CA | all CEPs of the CA | removal in any state | every CEP is told and freed |
| GSA (`Ibt/Gsa`) | datagram pool, posted buffers, classes, client IDs, send lists | register, dispatch, post, grow | SMA, CM, Subnet Driver | pools at their limit; callbacks without the list lock | each datagram has one owner; a port is refilled; every manager is asked |
| GSA RMPP (`gsasar2.c`) | contexts, windows, segments, timers | receive, acknowledge, abort, reap | GSA | loss, repeats, windows; timer against receive thread | the message is handed up whole; references balance; contexts end |
| SMA (`Ibt/Sma`) | SMP queues, CA and port objects | send, receive, notify | verbs | queues at their limit | no SMP is lost or answered twice |
| BMA, Vca (`Ibt/Bma`, `Ibt/Vca`) | handles, address vectors | wrappers | verbs | reference counts | vectors are shared and freed once |
| Subnet Driver queries | query lists, count of outstanding queries, parents and children | send, retry, complete, cancel, unload | GSA, timers, callback threads | a query with receive thread, timer and client at once | freed once, answered first, counted |
| Subnet Driver subscriptions | references with counts, an operation, a timer | subscribe, unsubscribe, retry, re-subscribe | SA through queries, port and SM events | answers behind changes of mind | the driver and the SA agree; a wanted trap is subscribed in the end |
| Public (`Common/Public`) | maps, lists, pools, callback queues, reaper | containers, threads | everyone | rotations, locks dropped between two lists, wake-ups | container semantics; no work is left behind |
| Topology | fabric database, sweep sessions | sweep, build, link, search, routes | tools, XML, SNMP library | answers in any order, failures in the middle | what was collected is whole, links are mutual |
| Xml, IbPrint, IbaTools, MpiApps, TestTools, install and build | little or none | I/O, formatting | hosts, switches | none a model reaches | – |

`PROJECT.json` lists the components with their sources, the hazards at their lines with the
properties that cover them, and for every definition the lines it models.

Conventions.  What the code does under one lock is one action; where it gives the lock up, the action
ends and a thread's place (`pc`, `thr`, `recv`, `sender`, ...) is part of the state.  A call the code
refuses and a MAD it discards change nothing and have no action.  Definitions keep the names of the
functions they translate.  Operators of pure algorithms (tree rotations, pointer surgery, the parsing of
SNMP answers) work on a record and are used by the actions.  Modules that share no state are put
into one MC module whose variable `part` (`service`, `sdPart`) picks the one a behaviour is about.

## The Communication Manager (`Cm.tla`)

**State.** `cep[c]` is the `CM_CEP_OBJECT` c, a record whose fields keep the names or the sense of
the code's: state, mode, communication IDs, local and remote endpoint, timer, retry count, parent
and pending list, event flags, callback reference count and item, and what its datagram holds.
`FREE` is an object not allocated.  The maps of `gCM` (`LocalCommIDMap`, `LocalEndPointMap`,
`RemoteEndPointMap`, `ListenMap`, `TimerMap`) are not variables: membership is the key being set,
as in the code, and the lookups (`FindLocalCommID`, `FindRemoteEndPoint`, `LocalEndPointInUse`,
`Listening`) search the records of one host.  `DestroyCEP` keeps the keys and the callback item of
the object it frees, so that a dangling entry would be seen.  `commID[h]` is the counter
`gCM->CommID`; `owned` is a ghost, the handles users hold; `net` is the set of all MADs ever sent.

**Steps.** All entry points take `gCM->ListLock` and do their work under it, so each is one action:

| action | code |
|---|---|
| `iba_cm_create_cep`, `Connect`, `ConnectNoDgrm`, `Listen`, `AcceptA`, `AcceptP`, `RejectA`, `RejectP`, `iba_cm_cancel`, `iba_cm_disconnect`, `iba_cm_destroy_cep`, `iba_cm_wait` | the user calls; `A` and `P` are the code's active and passive halves (`cm_active.c`, `cm_passive.c`) |
| `ProcessReq` (`Dup`, `Stale`, `Passive`), `ProcessRep`, `ProcessRtu`, `ProcessRejReq`, `ProcessRejRep`, `ProcessMraReq`, `ProcessMraRep`, `ProcessDreq`, `ProcessDrep` | `GsaRecvCallback` on one MAD (`cm_gsa.c`) |
| `TimerFires`, `CmTimerCallback` | the expiry of a timer, and its callback once it has the lock |
| `CmSystemCallback`, `CmDoneCallback` | before and after the user's callback function, which runs unlocked |
| `GsaSendCompleteCallback` | a posted send completes |
| `VpdAsyncEventCallback` | the CA reports data on a queue pair before the RTU |

Retransmission sends the MAD that the CEP's record would format again; that the datagram really
holds it is part of the invariant `DatagramReady`, and where a REQ may not be, `ReqStillValid` tells.

**Network.** A MAD once sent may be received any number of times, at any later time or never:
`net` only grows.  That covers loss, delay, reordering and duplication.

**Abstracted.** Paths are the host at the other end; a queue pair is its number together with its
CA; service times, timeout lengths and transaction IDs are left out (whether an MRA is sent is a
choice); private data, GID and P_Key checks are left out.  A host's user connects from the CEPs in
`Client` and listens on those in `Server`; a REQ takes a CEP from the others.

**External.** The timer service, the send service and `EventSet` have no source in the repository
and are modelled from their use.  The late timer follows `itimer.h`: `TimerStop` neither preempts
nor waits for a callback, and `TimerCallbackStopped` reports a stop only if `TimerStop` was called,
which `CmTimerStop` does not do for a timer that has expired.

**Options.** Late timers, late sends, an exhausted datagram pool, callbacks, `ReuseQP` and
`bTimewaitCallback` are constants, so that each run adds its difficulties to the handshake.

### Service ID resolution (`Sidr.tla`)

`qry[q]` is the CEP of a query (state, request ID, timer, retries, event flags, references, callback
item, datagram), `reg` the CEP a service is registered on with its pending requests, `sidrNet` all
SIDR MADs ever sent.  `iba_cm_sidr_query`, `QueryNoDgrm`, `CancelQuery`, `DestroyQuery`,
`iba_cm_sidr_register`, `iba_cm_sidr_deregister`, `iba_cm_sidr_response`, `ResponseRefused`,
`DestroyService` and `ModifyNotify` are the users' calls; `ProcessSidrReq` and `ProcessSidrResp` the
receive handlers; the rest are timer, send completion and the callbacks of both sides before and
after the user's function.  `Foreign` hosts have sent one request each and are not followed
further.  The fields `asked`, `seen` and `shown` are ghosts: the query a user is waiting for, and which
requests it has been shown.  `SidrKept` says that an answer a user is told belongs to its own query, and
that a pending request of a service is shown to its user or has a callback on its way.

## The General Services Agent

**`Gsa.tla`**, the receive side.  `gpool` and `dgrm` are the growable pool and the flags of every
datagram, `qp1`, `posted` and `recvQ` the queue pair of every port, `cls`, `classList`, `cid` and
`capMask` the registrations, `gsa[w]` the threads that take completions, `held` what clients keep.  A
thread that grows the pool, posts buffers, walks the class list and calls a manager does so in the steps
of the code (`DgrmPoolAddToGlobalRecvQ`, `PostRecvMsgToPort`, `LookupQp`, `iba_post_recv`, `CountPosted`,
`GrowRecvQAsNeeded`, `GsaNotifyClients`, `GsiSendInvalid`, `ConcludeReceive`); registration and
deregistration are two steps each, because they drop the list lock before they set the port's
capability.  The adapter and the clients are external.

`Of[w]` is the port a thread takes completions of.  Every adapter has one event thread, and the thread that adds
the device posts its first buffers before the queue is armed (`gsamgmt.c:124`), so that the two never overlap and
are one `w` here.  A `Remover` is the thread in `SmaRemoveCaObj`, which polls the same queue once the queue pair
is to be destroyed (`smamgmt.c:110`).  `Qp1RecvQPosted` is incremented without a lock (`gsamgmt.c:576`): an
increment that meets another change of the count may be lost or undo that change (`Increments`).  Both threads
decrement under `CaListLock`, so on a port that works the only one to count is its event thread.  `short` is a
history: how many buffers the last posting of a port did not get, and how many completions since were only
discarded (`DiscardCompletion`: flushed, or too long for a MAD).

**`GsaSend.tla`**.  `iba_gsi_post_send` walks a list of datagrams in the thread of the caller
(`sender`) while the completion callback (`complete`) counts those done; `DgrmIn` and `DgrmOut`
decide who gives the list back.  Each access to the two counts is a step.  Any datagram may find no address vector
or be refused by the adapter; `outcome.split` remembers that the last of a list was refused while others were out
(`EndsSplit`), and after that nothing more is posted.

**`Rmpp.tla`**, the receiver of `gsasar2.c`.  `sar[c]` is a `GSA_SAR_CONTEXT` (state, reference
count, window, segments, timer and its callback), `recv` the receive thread, `sarUnload` the unload.
The receive thread takes and drops the context's lock as the code does, so timer callback, reaper and
`DestroySARContexts` come between.  The remote sender and the timers are external (`DoSARSend`
returns `FCANCELED`: the repository's own sender is compiled out).  The unload takes two steps to free a
context: `RmppReceiverReapContext` destroys the lock (`noLock`), `SarTimerDestroy` waits for a callback and frees the
context.  A callback the unload overtakes in between goes on without the lock: `pthread_mutex_lock` refuses a destroyed
one, and nobody looks at the result.  `LocksGoLast` says that this callback is the only one.

## The Subnet Driver

**`SdQuery.tla`**.  `sd` holds the driver's lists, the count of outstanding queries and the elements
(`QUERY_DETAILS`: state, parent, children, retry, timer); `thr` what each thread (client, receiver,
callback worker, the driver's own boot query) is doing and with which element.  Steps end where the code
drops `pQueryList->m_Lock`: to allocate a datagram, to post it, to build the answer, to lock
and grow the parent of a child, to call the client.  `TimerHandler`, deregistration, removal of the
CA and unload run against all of it.

**`Subscribe.tla`**.  `ref` are the `TRAP_REFERENCE`s of one trap and port (count, flags, the
operation in the driver, timer and callback), `refList` those on the list, `caller` the threads of the
clients, `sa` whether the SA has the subscription, `events` the port and SM notifications on their
way.  Lookup, creation and insertion of a reference are separate steps, as in the code.

## Public containers and services

**`QuickMap.tla`** keeps every pointer of `iquickmap.c`: an operation is the sequence of assignments of
the code on a heap of items, with rotations, recolouring and the thread through the items.
`AbsMap` is a set of items per map; `ImplementsMap` maps the heap to it (`INSTANCE AbsMap WITH
content <- ...`).  Insert, remove, remove-all, merge and delta are covered, with the caller's
comparison function and without.

**`QList.tla`** and **`Lists.tla`** do the same for the quick lists of `ilist.h` and `ilist.c`.  The
locked variants are one step each, but `LQListInsertListHead` and `LQListInsertListTail` take the
source's lock, then the destination's, never both: two steps with the chain in the thread's hands.
`AbsLists` is a sequence per list and one per moving thread; `ImplementsLists` is the refinement.

**`TreeMap.tla`** is the map of `imap.c`, balanced by the least and greatest depth of each side.
`LevelAndSorted` says that walks in both directions yield the keys in order, the stored depths are true, every
subtree is level, and no `ASSERT` of the code has failed.  The code's left and right halves are one operator
with the side as its parameter.

**`Callbacks.tla`** is `isyscallback.c` and `ireaper.c`: two queues, workers that go to sleep, signals,
and the reaper with its one item and the flag `Scheduled`.  The thread pool is external.

## Topology

**`Fabric.tla`** holds the operators of `fabricdata.c` (nodes, ports, LIDs, links) and how the answers
of one device become its nodes and ports (`hpnmgt_snmp.c`).  **`SnmpSweep.tla`** is the sweep: sessions
are opened one after the other, a select loop serves them, each answer is stored and decides the next
request (`SnmpCallback`), and when `active_hosts` is 0 the links are made.  Devices answer in any order,
cut answers short, answer with an error, or fall silent.  `mib` is what they hold; the management address of
a switch is kept with its chassis id.

## Runs

State counts are distinct states.  Deadlock is not checked anywhere: a system whose users have
stopped and whose bounded resources are used up may rest.

| run | shows |
|---|---|
| `handshake` | (1.3M) the full protocol with one retry on each side, and callbacks for the server's user with `bTimewaitCallback`: types; CEPs at rest have left all maps and their events fit their role; a connected client and its server agree on IDs and queue pairs, the server is never ahead of the client's accept and is not left by a vanished client without a DREQ or REJ; queue pairs are held until TIMEWAIT ends; no CEP is freed under a callback, no event is stranded or dropped |
| `late_events` | expired timers wait for the lock, sends complete late, the datagram pool may be empty, and a CEP and its queue pair are used twice with `ReuseQP` while old MADs are under way: a timer runs exactly in the waiting states, datagrams are free when answered with and hold what is retransmitted, map keys are unique |
| `backlog` | (0.6M, up to symmetry) two clients compete for queue pairs; two requests queued on one listener with back log 2 that accepts, rejects, cancels and is destroyed: lists and parents agree, nothing leaks |
| `liveness` | a destroyed CEP is freed; a connect is resolved |
| `gsa` | (2.0M) `ReceiveQueueKept`: datagrams are conserved, and on a port in use the count is true and below the minimum only by what the last posting did not get and what was discarded since; `ClassesKept`: client IDs differ, capabilities do not outlive their managers; `FanoutComplete`: a report reaches every manager that asked for it and stayed; `SidrKept` |
| `services` | (0.1M) `ContextHeld`, `TransferWhole`: contexts are not freed while used, what is handed up is whole, datagrams balance, only a callback the unload has overtaken meets a destroyed lock; `ListReturnedOnce`; and `ContextEnds`, `SendEnds`, `QueriesEnd` under fairness |
| `sd` | (0.8M, up to symmetry) `QueryHeld`: no query on two lists or freed while a thread has it; `QueriesCounted`: the limit and the parents' counts are kept; `AnsweredBeforeFreed`; `ReferenceKept`, `SaFollows`: counts of references are those of the clients, and the driver believes subscribed what the SA has |
| `events` | (0.1M) `WorkKept`: the reaper's item is never queued twice and no item is left behind by sleeping workers; `WorkDone`, `SubscribesInTheEnd`, `QueryResolved` under fairness |
| `topology` | (0.2M) `CollectionWhole`: what is processed of a device is the whole of the columns it was asked for, and the count of active sessions is right; `LinksKept`: links are mutual and between ports that saw each other; `TreeKept`: red-black, threaded, counted; `LevelAndSorted`; the two refinements; `SilentDevicesEnd` |
| `subscribe_race`, `prefix_name`, `stale_rep` | violations, see below |

**Bounds.**  *Connections.*  `MaxCommID` is the number of connection attempts (1 or 2 on the client; on the
server one for the listener and one or two for requests), the retries are 0 or 1, `MaxMads` is the number of
different MADs ever sent.  `handshake` stops at 7: a whole handshake (REQ, REP, RTU) with its teardown (DREQ, DREP) and two of the
MRAs, REJs and second DREQs that may go with them (8 were checked as well, 2.0M states).  With callbacks for nobody and without
`bTimewaitCallback` it was checked with 20 MADs as well, more than one attempt can send (1.1M states), and with
callbacks for client, listener and server with 5 MADs (2.0M).  The other passing
runs stop at 5 to 7, and `backlog` at 4, two REQs with their answers.  `stale_rep`
has two clients whose sends complete late, one request queued at a time and 5 MADs, so that two REPs name the same
queue pair of the server.  In `liveness` the bound never holds up a timer: if it did,
the run would fail.  `MaxCallbacks` and `MaxNotices` bound reference counts; an action that would pass
them is not taken.  Two clients are enough for conflicts of keys, because every lookup compares two CEPs;
two queued requests are enough for a pending list with a head and a rest.
*SIDR.*  One followed querier whose sends and timers are late, with a retry and two queries, and one foreign
request, so that two requests meet at a back log of 2; in `events` one query and a back log of 1.
*GSA.*  Two ports share a pool of 2 to 4 datagrams, so that the pool is empty, grows and reaches its limit; one port is
removed while its event thread works and the removing thread polls too; three
registrations (two managers of one class, one listener) with 2 client IDs, one of them for unsolicited
MADs.  The list being sent has 2 datagrams and is posted up to 3 times by 2 threads.  A
transfer has three segments with a window of 2 and two contexts, so that a window closes in the middle and a
late segment opens a second context.
*Subnet Driver.*  Three addresses, one outstanding query allowed, one retry, up to 2 children, two
receivers for the growth of a parent; one removal of the port or SM.
*Containers.*  Six keys with two copies each give every case of insertion and removal fixup of the
red-black tree; four maps are what `cl_qmap_delta` needs.  The balancing of `imap.c` is recursive from seven
keys on, and the run has eight (twelve keys, 105 000 states, were checked as well).  Three items in two
lists give a first, a middle and a last item; the run has one moving thread (two also pass).  Two workers, two
threads that give three objects to the reaper with threshold 2, one client item queued twice.
*Topology.*  Two switches that see each other and a host seen by both, one of whose addresses is that of
a switch; columns of one to three rows against a bulk size of 3, so that an answer ends before, at and behind
the end of a column.  One switch and the host are swept under fairness, also with a port of the switch that sees the host too, with a
name the parser refuses, and with a management address it refuses.

**Fairness.**  Threads run, timers fire, a user's callback returns: weak fairness of the steps of the code's
own threads, timer and callback services, which is what the operating system and `SysCallbackQueue` provide.
No user call, no delivery of a MAD and no send completion of the CM is fair.  Three assumptions are stronger.
`SdElapse`: a query is not passed over by the timer for ever (the code compares its age with a fixed
limit).  `SendFairness`: the adapter completes what was posted to it.  `SubscribeFairness` has strong fairness of a request
being issued, reaching the SA and succeeding: the trap can only be subscribed if requests get through
in the end; it is stated for that property alone.

## Where the code and its documentation disagree

Three have a run that ends in a counterexample; `PROJECT.json` quotes both sides.

| run | what happens |
|---|---|
| `subscribe_race` | two clients subscribe to one trap at once: lookup and insertion of the reference are not under one lock (`subscribe.c:424`), so that two references exist, each with an operation of its own |
| `prefix_name` | names are compared over the length of the interface's name only (`hpnmgt_snmp.c:1258`): the interface `Eth1/1` is taken for the port `Eth1/10`, which gets its index and state |
| `stale_rep` | `ProcessRep` calls `PrepareCepDgrm` (`cm_gsa.c:1882`) before it checks whether the remote endpoint is known (`1892`-`1898`): when the send of the REQ is still under way, the CEP gets a fresh datagram instead of it, and when the REP is then refused as stale the CEP stays in REQ_SENT with its timer running. `ResendREQ` (`4565`: "The REQ is still valid in here") sends a datagram that was never formatted |

The others are stated as definitions of the modules.  Checking the definition in the configuration named,
with the constants changed as said, gives the counterexample; each was obtained so.

| definition | configuration | code | what happens |
|---|---|---|---|
| `Cm!ClientIsTold` | `MCHandshake` | `cm_passive.c:1181` | the server cancels in REP_SENT after the client has accepted: no REJ is sent (the code to do so is compiled out), and the client stays established |
| `Cm!ServerIsTold` without `DataOfAnother` | `MCHandshake`, `C2` 3 | `cm_passive.c:1153`-`1195` | the reply is cancelled silently after the client accepted it ("TBD - we should do this: send a REJ", compiled out), a repeated REQ is accepted on the same queue pair, and the data the client sends connects the second server CEP, of which the client knows nothing: it disconnects from the first |
| `Cm!RejMeansNoRtu` | `MCHandshake` | `cm_gsa.c:2387` | a REJ of an earlier copy of the REQ disconnects an established client although the server has the RTU |
| `Cm!IdleHasNoCommID` | `MCLateEvents` | `cm_active.c:397` | a connect without a datagram leaves the communication ID on an idle CEP, against an ASSERT of `DestroyCEP` |
| `Cm!NoLeak` | `MCLateEvents` | `cm_api.c:931` | destroying an established CEP without a datagram leaks it |
| `Sidr!AnswersMatch` | `MCGsa`, `AnswersLate` | `cm_active.c:893`, `sidr_api.c:294` | a user that answers after its callback is shown the first pending request again when another arrives (the check for a waiting user is commented out), and its second response answers the wrong request |
| `Sidr!AnswersMatch` | `MCGsa`, `AsksAgain` | `sidr_api.c:427` | a query that is refused because one is under way has already replaced a datagram in use: the retry (`cm_gsa.c:4052`, "The SIDR_REQ msg is still valid in here") sends one that was never formatted |
| `Gsa!ManagerAdvertised` | `MCGsa` | `gsaclass.c:339` | the capability is set and cleared behind the list lock: a deregistration that overlaps a registration leaves a manager unadvertised |
| `Gsa!WalkOnListed` | `MCGsa`, `DeregisterInCallback` | `gsaclass.c:500`, `554` | the walk over the managers goes on with an item that was removed while the lock was dropped for a callback |
| `GsaSend!OwnedOnce` | `MCServices` | `gsasend.c:46` | when the last datagram of a list is refused and earlier ones were posted, the call returns an error, so that the client has the list back while the others are still to complete |
| `SdQuery!UnloadEnds` | `MCServices`, `MaxChildQuery` 1, `CanDeregister` | `sdc.c:328` | a child sent after its parent was cancelled is never timed out once unload has stopped the timer, and unload waits for it |
| `SdQuery!PlacesReturned` | `MCSd` | `client.c:179` | a cancelled query does not give its place among the outstanding ones back, although it is said to be treated as one that timed out |
| `SdQuery!QueryHeld` | `MCSd`, `AddressReuse`, two path queries (`made' <= 2` in `MCSd!Path`) | `sa.c:1398` | a child looks its parent up by address: when the parent was cancelled and its memory reused, the new query is taken for the parent, whose count of children becomes -1 |
| `Subscribe!SubscriptionMaintained` | `MCSd` | `subscribe.c:46`, `286` | the answer the SA gave before it restarted arrives after the references were invalidated: the driver believes the trap subscribed and does not ask the new SA |
| `QuickMap!GetNextFindsAlways` | `MCTopology` | `iquickmap.c:329` | `cl_qmap_get_next` takes the result of the caller's compare function with the wrong sign, and goes to the wrong side |
| `SnmpSweep!EntitiesCollected` | `MCTopology` | `hpnmgt_snmp.c:2070` | an agent that cuts its answer short leaves out entities the comment relies on, because these columns are not continued |
| `SnmpSweep!ResultWhole` | `MCTopology`, `MemoryMayFail` | `hpnmgt_snmp.c` | a variable that finds no memory sets the state to error, and the next variable of the same answer overwrites it: the device is processed with a row missing |

The model also has three steps in which the code does what nobody can have meant, and the properties leave room for
them.  A completion that is flushed or too long for a MAD goes back to the pool and nothing is posted in
its place (`gsacallb.c:379`-`398`), although the number to post was computed just before; reposting happens only when a MAD is
received, so that `MinBuffersToPostPerPort` such messages in a row leave a working port without a buffer, and it receives nothing any more
(`short` counts them).  `RmppReceiverReapContext` destroys the lock before it waits for the timer's callback
(`gsasar2.c:1855`); that "Stop should have ensured timer callback will not be called from here on" (`1893`) does not hold in
an unload.  And a switch whose first management address is not an IPv4 one makes `populate_switch_node_record` fail
(`hpnmgt_snmp.c:793`-`808`), whereupon `free_node_list` walks a `portIdMap` that `cl_qmap_init` (`2526`) has not reached:
its head is NULL, and `cl_qmap_next` follows it (`sweep` is "crashed").

Found by reading, outside the modelled steps: `Listen` enters the listener in `LocalCommIDMap`, contrary
to the comment on that map's members (`cm_private.h:371-372`).  A timer callback that comes late is
taken for a timer started since: the comment in `CmTimerCallback` says it is ignored, but the check is
commented out (`cm_gsa.c:3789-3799`); the model has this behaviour and `late_events` shows that the states it leads
to are consistent.  The rollback of `ListInsertArrayHead` and `ListInsertArrayTail` when an item cannot be
allocated (`ilist.c:1653`, `1707`) removes one item more than were inserted.  `ReaperDestroy` frees the item without a
look at `Scheduled` (`ireaper.c:122`).  `CompPoolInit` never frees its array of component sizes (`igrowpool.c:551`).  When
`ConnInfo` cannot be allocated in `CmSystemCallback` the callback is skipped and its events stay queued
(`cm_gsa.c:4165`).

Consequently `AtRest` and `NoLeak` are checked without datagram failures, `NoLeak` is proved on
`~DgrmMayFail`, `ServerIsTold` (a part of `EndsAgree`) allows for a REJ of the REQ that the server's own
host sent (`ReqWasRejected`) and for data that was meant for an earlier user of the queue pair (`DataOfAnother`),
`ListReturnedOnce` leaves out a list whose last datagram was refused while others were out, and the runs
have `AddressReuse`, `MemoryMayFail`, `DeregisterInCallback`, `AnswersLate` and `AsksAgain` FALSE.

## Proofs

The theorems hold for any sets of hosts, CEPs, queue pairs, clients, datagrams or segments, any limits and
any bounds.  Each rests on the `ASSUME` of the modules it is about, the types of the constants, and some on a value
of an option, which the table names: with the other value the property does not hold, as the section above
shows.  (For `TransfersWhole`: with `Noise` a copy of segment 1 without the length and one of segment 3 not marked last,
`TransferWhole` is violated on `MCServices`, the last segment being acknowledged without a message handed up.)

| module | theorem | states | if |
|---|---|---|---|
| `CmProofs` | `Invariance` | `[]IInv`, the inductive invariant | |
| | `TypeCorrect`, `TimersMatchStates`, `CallbacksHoldLiveCeps`, `PendingListsAgree` | `[]TypeOK`, `[]TimerIffWaiting`, `[]CallbackHolds`, `[]PendingOK` | |
| | `NothingLeaks` | `[]NoLeak` | `~DgrmMayFail` |
| `CmObjectProofs` | `ObjectInvariance` | `[]RInv`, the second inductive invariant | |
| | `KeysAreUnique`, `EventsNotStranded` | `[]UniqueKeys`, `[]NoEventStranded` | |
| | `CepsAtRest` | `[]AtRest` | `~DgrmMayFail` |
| | `AnswersKeepTheDatagram` | `[](DatagramFree /\ AnswersHeld)`: all of `DatagramReady` but what it says of the REQ | |
| | `QueuePairsAreHeld`, `UsersHearOfEvents` | `QpHeldUntilTimewait`, `EventsReachUser` (action properties) | |
| `SidrProofs` | `SidrIsKept` | `[]SidrKept` | `~AnswersLate`, `~AsksAgain` |
| `GsaProofs` | `ReceiveQueueIsKept`, `ClassesAreKept` | `[]ReceiveQueueKept`, `[]ClassesKept` | |
| | `FanoutIsComplete` | `FanoutComplete` (action property) | `~DeregisterInCallback` |
| `GsaSendProofs` | `ListsReturnedOnce` | `[]ListReturnedOnce` | |
| `RmppProofs` | `ContextsHeld` | `[]ContextHeld` | |
| | `TransfersWhole` | `[]TransferWhole` | no first segment in `Noise` |
| `SubscribeProofs` | `ReferencesKept`, `SaIsFollowed` | `[]ReferenceKept`, `[]SaFollows` | |
| `CallbacksProofs` | `WorkIsKept` | `[]WorkKept` | |

All of them go the same way.  The property is not inductive, so an invariant joins to it what the step that
would break it needs; it was checked with TLC on the instances above, or on smaller ones, before it was proved.  Lemmas
say what each operator does to a record, one lemma per action says that the invariant is kept, and the theorem joins
them.

**`CmProofs`.** `IInv` joins the types, `RecOK` of each record, `Linked` of each pending list,
and `NoLeak`.  `NoLeak` says that a CEP without an owner
has a timer or a callback to free it; to carry it through an event one must know which states a
destroyed CEP can be in (`DestroyOK`: DREQ_SENT, TIMEWAIT, or IDLE with a callback), that a timer
runs in the first two (`TimerOK`) and that a callback item exists exactly while it is counted
(`CallbackOK`).  The pending list needs more than agreement with the parents: only a LISTEN CEP has
one, a CEP has a parent exactly in REQ_RCVD and MRA_REQ_SENT, and such a CEP has no callbacks, so
that it can be destroyed with its listener.  The types need that the other end is known in every
state that formats a MAD.  Most handlers change one record.  For each, a step lemma shows that the new record
is `RecOK` and that it keeps what the rest of the invariant looks at (`Keeps`: parent, pending list
and, if it has no owner, a way to be freed).  A few lemmas lift such steps to the whole state:
replacing one record, giving a handle back, enqueueing, dequeueing, and dropping a listener's whole
queue.

**`CmObjectProofs`** adds `RInv` on top of `IInv`.  `KeysAreUnique` rests on the counter of the communication IDs being
ahead of every ID in use, and on every path that takes a queue pair looking it up under the lock.  A
reader may think that `NoEventStranded` follows from a notification queueing a callback; it does not,
since a callback under way has perhaps looked already when an event is raised, and `GetConnInfo` takes one event in
some states and all of them in others.  What is inductive is a count: a CEP has at least as many callbacks still to look (`Coming`) as
events (`OwedOK`).  `RoleOK` and `EventsOK` keep an event of one role from waiting on a CEP that has taken the other.
Queued requests lie on the host of their listener (`ParentsNear`), so that what `DestroyCEP` frees with it are
IDs of its own host.  A step is described by what it may do to one record (`Quiet`: no key is
taken, no event that must be answered is dropped unreported, a queue pair is held); the two action properties
follow from that description.  `DatagramReady` itself does not hold of two clients: the attempt to prove it failed at
`ProcessRep` and led to the run `stale_rep`.

**`SidrProofs`.** A query that is out has no event waiting, and its datagram holds the request of the current
ID, so that the answer that comes is for what the user asked; what the service's user was
shown is the head of the pending list until it answers, which is why the user must answer in its callback.

**`GsaProofs`.** `QueueInv` says that the pool, the adapter's queues, the lists in the hands of the threads, the
answers being sent and the clients divide the datagrams made so far (`Split`) and that the flags say which has each
(`Flagged`); `PortOK` counts, at each place of a thread, what the port has posted, what the thread is
about to post and count, and what was discarded.  `ClassInv` ties list, client IDs and capability to the stage of each registration.
`WalkInv` holds of a walk under way: who is behind the cursor has been called.

**`GsaSendProofs`.** Up to a split list (`outcome.split`) `SInv` has three stages, the list at its client, being posted or being refused, and in
the second counts the datagrams done against `DgrmOut` of the list (`Posting(p)`).  A thread that has posted the last datagram
may still be on its way out of the loop while the next call has begun: it touches nothing any more (`Finished`).

**`RmppProofs`.** `RecOK` says what timer, callback, window and segments a state of a context allows, `RefsOK` that
the count is that of the holders (list, timer, callback, receive thread, unload), `LInv` that a context whose lock
is gone is off the list and its timer stopped.  `AInv` says what an
acknowledgement is worth: in TIMEWAIT_RECV the message has been handed up, and the total is known once the first segment has
come, unless a foreign first segment has claimed the transaction.

**`SubscribeProofs`.** `RefOK` follows a reference through its life, `CountOK` counts the clients
and the threads between their steps, `NeverForgotten` names who will look at a
reference that is not settled (operation, timer, callback or event), and `SaKnown` what the mark
`sub` is worth while events are on their way.  `SaFollows` speaks of behaviours without two references and without an answer that comes
after an invalidation; what happens otherwise is in the section above.

**`CallbacksProofs`.** `ReaperItemOnce` names the one place of the reaper's item (a giver about to queue
it, the queue, a worker) while `Scheduled` is set; `HighSeen` and `LowSeen` name, for a queue that is not empty, who will look
into it: a signal, a thread about to signal, or a worker that has not gone to sleep.

**Changes the proofs asked for.**  Assumptions say what the types of the constants are in `Rmpp`,
`Subscribe` and `Callbacks`, and that `None` is no event in `Cm`.  `Gsa` names `Allocated`, and picks the
least free client ID from a set; `Subscribe` names `ListKeeps`.  None changes what the modules do.

**Only model-checked.**

* Liveness, fairness and `ENABLED` are beyond the prover: `DestroyCompletes`, `ConnectResolves`, `ContextEnds`,
  `SendEnds`, `QueriesEnd`, `WorkDone`, `SubscribesInTheEnd`, `QueryResolved`, `SilentDevicesEnd`.
* `Lists`, `QList`, `QuickMap`, `TreeMap` and `SnmpSweep` walk pointers and tables with recursive operators, for
  which the prover has no induction and no SMT backend: `TreeKept`, `LevelAndSorted`, `CollectionWhole`, `LinksKept` and
  the refinements `ImplementsMap` and `ImplementsLists`.
* `QueryHeld`, `QueriesCounted` and `AnsweredBeforeFreed` of `SdQuery`: `TimerPass` and `SendNext` go through whole
  lists with a fold, whose result for a list of any length needs induction over the list.
* `EndsAgree` relates two CEPs through the MADs under way.  It needs an invariant that says of every REQ,
  REP, RTU, DREQ and REJ in `net`, however old, what its sender was and has since become, which is not stated yet.

## Not modelled

* CM: peer connect, alternate paths (LAP, APR, migration), removal of a CA and unload, the synchronous accept
  and wait, allocation failures other than of datagrams and CEPs, wrap of the 32-bit communication ID;
  of SIDR, users that wait instead of giving a callback and several services on one host.
* GSA: `gsasar1.c` and the sender of `gsasar2.c` (compiled out), the helpers that address and coalesce
  datagrams, what the removal of a CA ends besides its queue pairs.
* Subnet Driver: `multicast.c` (compiled out), the contents of queries and notices.
* SMA, BMA, Vca: SMP queues and thin wrappers around the verbs provider, which is not in the repository.
* Public: object lists and pools, `igrowpool.c`, `ireqmgr.c`, `iresmgr.c`, arrays, timers of the system.
* Topology: reports, searches, routes, snapshots.  Tools, XML, printing, MPI applications, test tools
  and installers: I/O and formatting, where a model would restate the text.  They are most of the
  repository's lines, so most of its lines are not mapped.

## What is left

In the order of their worth: the invariant over the MADs under way that `EndsAgree` of `Cm` needs; `SdQuery` with its
passes over the lists as steps or as sets, so that `QueriesCounted` and `QueryHeld` can be proved; alternate paths,
peer connect and the removal of a CA as modules on top of `Cm`'s records; the SMP queues of the SMA; the growable pool.
