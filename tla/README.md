# TLA+ models of the ham device tree's native services

The ZUK Z1 (`ham`) device tree is mostly configuration, but it also carries the
source of several native services with logic of their own: the GPS HAL under
`src/gps` and the camera HAL under `src/camera`. This directory holds TLA+
modules that model those services, TLC configurations that check them on small
instances, and TLAPS proofs of what matters most for every instance.

Every definition is translated from the source; `PROJECT.json` ("map") gives
for each one the file and the lines it stands for.

## Inventory

### The GPS HAL: threads and queues

    Android GPS service                      modem (QMI)       data services
          |  loc.cpp entry points               |  indications       |
          v                                     v                    v
      loc_eng ------ sendMsg ------> [ MsgTask queue ] <--- LocApiV02, ds_api
                                            |  one thread
                                            v
                LocEngAdapter, AgpsStateMachines, fix session, NI, XTRA
                     |                                   |
        agps_status_cb to the                   loc_timer_start, LocTimer
        connectivity service                     (task thread, poll thread)

Almost everything runs on one message thread per adapter, so the hard
behaviour is not shared memory but messages that cross: a client leaves while
the answer to its request is in the queue, the modem restarts between a request
and its answer, a timer expires while its removal is queued. The exceptions
(the timers and the ending of the message thread) are shared memory without
locks, and there the interleavings are modelled at each access.

### The camera HAL: one machine, many threads

    Android camera service             frames          encoder, daemon
          |  lockAPI, waitAPIResult       |                   |
          v                               v                   v
      [ api_queue ]                 frame callbacks       [ evt_queue ]
          \______ state machine ______ ^  |  _______________/
                  (one thread)         |  v
          deferred work, live snapshot,  [ data-process thread ] -> [ notify thread ]

A call of the framework is put into `api_queue` and waited for on one
condition, with one result for every caller. The state machine takes API
requests before events. Its handlers start and stop channels themselves, but
they also wait for other threads (a deferred job, the live-snapshot thread, the
callback of a channel they stop), and the notify thread waits for them. The HAL
makes requests of its own through the same queue.

### Synchronous requests to the modem

`LocApiV02` asks the modem something and waits for the indication that answers
it. Several threads may be in such a call at once; one array of slots, one mutex
and a condition per slot connect them with the thread the indications come on.
An indication may come before the wait, after its timeout, or never, and carries
no more than its kind to say whose answer it is.

### The camera stack: frames

    driver --> poll thread --> cmd thread of a stream --> proc thread --> HAL
       ^           |                                                      |
       |           +--> cmd thread of the channel --> callback thread --> HAL
       |                (frames of several streams become one             |
       +---------------- super buffer) --------------- bufDone ----------+

Every buffer is queued in the driver, on its way through a thread, in the
super-buffer queue of the channel, or held by the HAL, and a reference count
says when the last of them is done with it. The threads share the state of the
stream, of which only part is under `buf_lock`. The channel matches frames of
its streams by frame index, while metadata, requests and flushes change which
frames are wanted.

### From a request to a picture

    TAKE_PICTURE --> channel --> [ input queues ] --> data-process thread
         ^                             ^               |            |
         |                     reprocess channel <-----+            v
    state machine <------------ encoder's event <------------ job manager
         |   ^
         v   +------ SNAPSHOT_DONE, waited for ------+
    [ notifier's queue ] --> notify thread --> the application's callback

A frame of the ZSL channel becomes a raw image, or a job of the encoder or an image
in YUV after a pass through the reprocess channel, or a job at once. It is in one of five queues, in
somebody's hand, or in the encoder, and whoever has it last returns it. The
picture may be cancelled in between; the stop goes to the front of the queues of
both threads, aborts the jobs, and empties all queues.

### Components

| Component | State | Operations and hard behaviour | What makes it correct |
|---|---|---|---|
| `AgpsStateMachine` (`loc_eng_agps.cpp`) | current state, subscriber list with inactive flags | subscribe, unsubscribe, granted, released, denied; answers of the connectivity service cross with new requests | state and list agree; nobody told "open" without a connection; nobody forgotten; everyone answered; no connection kept for nobody |
| `DSStateMachine` (same file) | the same, retry counter, data-call handle | retries on a timer, fallback to `agnss_nif` | the same, through retries and fallback |
| Modem restart (`loc_eng_handle_engine_up`) | - | drops all subscribers while their messages are queued | no connection from before the restart is served after it |
| `LocTimer` (`utils/LocTimer.cpp`) | heap of delegates, timerfd, epoll | start, stop, delete by clients; push, remove, expire by the task thread; disarm by the poll thread | no delegate leaked or used after deletion; no expiration lost; no callback on a deleted timer |
| `LocHeap` | binary tree with sizes | push, peek, pop, remove | heap order, sizes, removal finds what is there |
| `MsgTask`, `LocThread`, `msg_q` | queue, unblock flag, reference count | send, receive, destroy from two threads | the shared delegate is deleted once; FIFO; destroy ends |
| `loc_eng` core | fix session, position mode, mute state, engine status | start/stop fix, report filtering, engine down/up | the session survives a restart; no report outside a session |
| `loc_eng_ni` | pending request, response thread, timer | inform, user response, timeout | one answer per request |
| `loc_eng_dmn_conn` | pipe and its thread | requests of the GPSONE daemon | they become subscriptions of `internet_nif`, `wifi_nif` |
| `loc_api_sync_req` | array of slots, `in_use` | allocate, select, send, wait, indication, timeout | a slot is of one call; no indication is dropped that a call waits for; no lost wakeup; no answer given twice |
| `loc_api_v02_client`, `ds_api`, RPC API | tables around vendor libraries | message tables | - |
| `gps/core` | contexts, adapters, event dispatch | adapters added, removed, dispatched to | every adapter with the event in its mask gets it |
| camera `QCameraStateMachine` | one of eight states, API and event queues, API result | API calls are handed to the state-machine thread and waited for; handlers fail half-way | every call gets its own result; the state says what streams; nobody waits for an answer that is not on its way |
| camera `QCamera2HardwareInterface` | channels, pending and committed modes, deferred jobs | preview, recording, pictures, live snapshots, cancelled at any time | one source of preview frames; a stopped preview is stopped |
| camera `QCameraQueue`, `QCameraCmdThread` | list, semaphores | send, sync send, exit | no command lost, exit joins |
| camera `QCameraPostProcessor` | five queues of frames and jobs, data-proc and save threads | start, process, stop, flush, each step of which may fail | every frame is returned once, and not while the encoder reads it; a picture ends |
| channels (`mm_camera_channel.c`) | super-buffer queue, matching state, commands | match, overflow, skip, flush, dispatch, metadata, flash | super buffers are whole and in order; every buffer goes back once; no stream starves; the loops end |
| streams (`mm_camera_stream.c`, `mm_camera_thread.c`, `QCameraStream.cpp`) | reference counts, `queued_buffer_count`, fds to poll, four threads | start, stop, frame, give back | a buffer goes back with its last holder; the poll thread watches the stream while buffers of it are counted as queued; start and stop end |
| `mm-jpeg-interface` | sessions, job numbers, jobs to do and going on | start, abort, done, destroy | an abort waits for the encoder; a job is answered under its number |
| `qomx_core` | component slots | load, get, free handle | slots match handles |
| lights, audio amp, cmhw, older camera HALs, product configuration | - | - | not modelled, see below |

Each component has an entry in `PROJECT.json` ("components") with its status,
and each place where the code is hard to test is listed there under "hazards",
with the properties that would show it going wrong.

## Modules

| Module | Models | Correspondence |
|---|---|---|
| `AgpsStates` | the four state classes of `loc_eng_agps.cpp` | an event handler is an operator from a machine `[state, subs, inactive]` to an outcome: the machine afterwards, who was notified of what, the request made of the servicer |
| `AgpsNif` | one `AgpsStateMachine` between its clients, the message queue and the connectivity service | `ProcSubscribe`, `ProcUnsubscribe` and `ProcRsrc` are the message handlers; `fwQ` is the stream of `agps_status_cb` calls; `conn` is the connection as the service sees it |
| `AgpsPromise` | what any such machine promises its clients | abstract specification, refined by `AgpsNif` |
| `AgpsRestart` | `AgpsNif` with restarts of the modem | `ProcEngineUp` is `loc_eng_handle_engine_up` on the interface |
| `DsNif` | `DSStateMachine` | the same `AgpsStates` handlers; the servicer is a data call, with retries (`timers`, `mRetries`) and the fallback `REQUEST_ATL` |
| `LocTimer` | `LocTimer`, `LocTimerContainer`, `LocTimerPollTask` | one step per critical section, system call or unlocked read |
| `LocHeap` | `LocHeap`, `LocHeapNode` | the tree is the value of its root; the recursive methods are recursive operators |
| `HeapPromise` | the set with a head that `LocTimer` works with | abstract specification, refined by `LocHeap` |
| `MsgTask` | `MsgTask`, `LocThread`, `LocThreadDelegate`, `msg_q`, and `linked_list` as a queue | one program counter for the owner, one for the worker; one step per critical section or unlocked access |
| `CameraHw` | `QCamera2HardwareInterface`: what the handlers call | the object is a record; an operation gives the set of its results, one for each thing the drivers may refuse |
| `CameraStates` | the eight handlers of `QCameraStateMachine` | `<State>Params`, `<State>Calls`, `<State>Done` give the outcomes of an event: the camera afterwards, its state included, and who is answered |
| `CameraApi` | the threads of an open camera | one action per thread; a handler is one step unless it has to wait (`Block`) |
| `LocSyncReq` | `loc_api_sync_req.c` | one step per critical section of `loc_sync_call_mutex`, or per slot the indication thread visits; `pc` says where a caller is, `copied` which answers were written into its payload |
| `MmChannel` | the super-buffer queue of `mm_camera_channel.c` with the command and the callback thread of a channel | the functions of the command thread are operators from a channel to a channel (`HandleMetadata`, `Join`, `Insert`, `Dispatch`, ...); a command is one step |
| `MmStream` | one stream: `mm_camera_stream.c`, the poll thread, the cmd thread, `QCameraStream` with its proc thread | one step per critical section of `buf_lock`, ioctl, command or unlocked access of each thread |
| `PostProc` | a picture of the ZSL channel: `QCameraPostProcessor`, the notifier, the state machine as far as it takes, cancels and ends pictures, and the job manager of `mm_jpeg.c` | one action per command of a thread, or per call between two changes that another thread can see; a frame is where it is queued, and `home` counts how often the channel has it |
| `AgpsProofs`, `MsgTaskDsNifProofs`, `LocTimerProofs`, `LocSyncReqProofs`, `CameraProofs`, `MmChannelProofs`, `MmStreamProofs`, `PostProcProofs` | - | theorems and proofs; those of `AgpsNif` and of `AgpsRestart` are both in `AgpsProofs`, those of `MsgTask` and of `DsNif` share a module, for which `MsgTask` calls its frame `TaskInit`, `TaskNext`, `TaskSpec` |
| `MC*` | - | the instances TLC checks |

How they compose: `AgpsNif` and `DsNif` use the handlers of `AgpsStates`, each
with a servicer of its own; `AgpsRestart` extends `AgpsNif`; `DsNif` sees
`agnss_nif` as a set of subscribers, which `AgpsNif` models in full. `LocTimer`
uses a heap that is a set with a head; `LocHeap` shows that the tree is one.
`CameraApi` runs the handlers of `CameraStates`, which are made of the operations
of `CameraHw`, where a channel is absent, built or streaming. `MmStream` is how one stream
of such a channel starts, streams and stops, and the frames it hands on are those `MmChannel`
matches: its `DataNotify` is the poll thread of `MmStream` seen from the channel, its `free`
the buffers `MmStream` has in the driver. `PostProc` is what `CameraApi` sees of a picture as
commands and events, with the frames in it: its `Give` is the callback of `MmChannel`, and a
frame that comes `home` is the `BufDone` there. `MsgTask` is the queue and the thread that
the other modules take for granted as a FIFO.

Definitions whose comment begins "A mistake" are not part of any
specification. They are changed forms of the definition that follows them, the
way a plausible bug would change it; substituting one makes the property it is
listed with in `PROJECT.json` fail.

## Runs

| Run | Question | Bounds | Distinct states |
|---|---|---|---|
| `agnss_nif` | three modem connections on one interface: is "open" only said with a connection, is nobody forgotten, is the promise kept and everyone answered? | 3 clients, 4 messages in flight | 71 201 |
| `wifi_nif` | clients that wait for the close, one at a time: is the connection never left open for nobody? | 3 clients, 4 messages | 4 868 |
| `modem_restart` | restarts at every point: is nothing from before a restart served after it? | 2 connections, 4 messages, any number of restarts | 30 927 |
| `ds_nif` | two emergency connections, the retry limit of the code: do state and list agree, does the wait for a close end unless the stop was refused, and is a connection answered that the other does not disturb? | 2 connections, 4 retries, 3 messages | 23 166 |
| `timers` | two timers, one of them deletable, all three threads | 2 delegates, 3 ticks, 3 messages | 579 924 |
| `heap` | every tree of six timers of four ranks | 6 timers | 3 223 |
| `message_task` | two threads to the end, joinable and detached | 4 messages | 21 008 |
| `sync_req` | three callers share two slots: whose are the slots and the answers, and does every call return? | 3 callers, 2 slots, 2 indications, 1 call each | 219 917 |
| `mm_channel` | metadata and snapshot frames, lost and in any order, against requests, flushes, flash, zoom and contradictory metadata | 2 streams, 4 frames, 2 commands of the HAL, 1 waiting | 1 281 521 |
| `mm_stream` | a stream started, stopped and started again, with starts that fail and buffers that are refused | 2 buffers, 2 sessions | 220 627 |
| `camera` | an application that previews, records, changes parameters and takes pictures | single-image pictures, a careful application (see below) | 939 054 |
| `post_proc` | two pictures, encoded, reprocessed, in YUV or raw, with every failure and cancelled at any point: is each frame returned once and never while the encoder reads it, and do pictures end? | 2 frames, 2 pictures; of up to 2 images for an application that waits, of 1 for one that does not | 621 277 |

### Why the bounds are enough

* Interface machines: the list is a set and the clients are alike, so three
  clients are the fewest in which one leaves, one arrives and one stays at the
  same time. `MaxMsgs` bounds only what clients and the service start on their
  own (`Room`); answers are always sent, so no behaviour is cut off in the
  middle of an exchange. Four in flight is the shortest queue in which the
  answers to two requests and two new messages cross. `AgpsProofs` removes
  both bounds for safety, that of `wifi_nif` included.
* Restarts: a second restart before the first is handled changes nothing (the
  list is emptied twice), so `ModemRestart` waits for the first to be handled.
* `DsNif`: the retry limit is that of the code, and two connections are the
  fewest that can take each other's retries and the fallback. `Reuse` is off;
  `MsgTaskDsNifProofs` has the agreement of state and list with reused handles
  too, and for any number of connections.
* `LocTimer`: the hazards involve the head, one more timer, and a client that
  starts again with a new delegate. Three ticks let a timer be due before,
  with and after another. `LocTimerProofs` removes these bounds for safety.
* `LocHeap`: with six nodes every shape of depth three and every way a removal
  can leave an unbalanced tree occurs, and the four ranks include equal ones.
* `MsgTask`: four messages are more than the queue ever needs to tell order;
  `MsgTaskDsNifProofs` removes the bound.
* `CameraApi`: one application thread, as the lock of the API makes it, and one
  picture of one image (`Burst`). A new call waits until no thread has more than
  `QueueBound` commands or events less one: otherwise starting and stopping
  pictures piles up commands without end. The application of the run uses the
  flash, so that every picture begins with PREPARE_SNAPSHOT, and is `Careful`: it
  changes no parameters while a still picture is taken and asks a recording for
  nothing that needs a restart. Without care, or with `ParamsFail`,
  `StoppedMeansStopped` and `OnePreview` do not hold; see below. `Advanced` and
  `Restart` are off: a failing advanced capture leaves the commands of the
  post processor it started behind, which multiplies the states by twenty.
  `CameraProofs` removes the bounds for the five invariants of the run, and
  with them the choices about the application and the properties, except that
  two of the five need `Steady` (What is proved).

* `LocSyncReq`: with three callers and two slots one is refused, one slot is
  used again, and two callers can wait for the same kind of indication.
  `LocSyncReqProofs` removes the bounds for safety.
* `MmChannel`: two streams are enough for a frame without its partner; four
  frame indices let two unmatched ones stand behind a whole one and a late frame
  come before both. `water_mark` and `max_unmatched_frames` are 1, the smallest
  with which every overflow still has something to keep (the code has
  `min_num_pp_bufs` and more, `QCameraParameters.cpp:7181-7184`), and `ZslBufs`
  adds to them what `getBufNumRequired` adds. The commands of the HAL and of
  the streams share the queue, so one waiting command already gives every order
  of two. `MmChannelProofs` removes the bounds for all five invariants of
  the run.
* `MmStream`: two buffers let the last one in the driver be filled while another
  is given back, which is when the fd is deleted and added; the second session
  meets what the first left behind. `MmStreamProofs` removes both bounds for the
  two invariants of the run.
* `PostProc`: with two frames one can be behind, or in front of, the one that
  fails, is aborted or comes back from reprocessing; the second picture meets
  what the first left in the queues of the threads, a stop that overtook its
  start included. An application that does not wait is given one image a picture.
  A start replaces the reprocess channel with a frame in it only after an advanced
  capture that failed to start without a stop, where the frame is one of a picture
  cancelled before that; this takes three pictures. With `Uses <- Reprocessing` and
  `MaxPictures = 3` in `PostProc.cfg` the two invariants were checked there as
  well, without the liveness property: 3 961 281 states. Job numbers
  are the code's: `JOB_HIST_MAX` is 10000, but the number is put over a session
  id that has `JOB_ID_MAGICVAL` in bit 24, which is bit 8 of the number, so that
  the numbers repeat after 256 jobs. No behaviour of the runs has that many.
  `PostProcProofs` removes the bounds for both invariants, except that the part
  of `EncoderReadsHeld` about held frames is for the first 256 jobs.

### Fairness and why the code justifies it

* `AgpsNif`, `DsNif`: the message thread is scheduled and returns to its queue
  until it is empty (`WF` of the `Proc` actions); the connectivity service, and
  the data services, settle what they have been asked (`WF` of `FwRequested`,
  `FwOpened \/ FwOpenFailed`, `CallConnected \/ CallFailed`, ...). A service
  that never answers would block the real clients too. Clients are never
  obliged to do anything, and connections are never obliged to get lost.
  A stop of the data call need not be taken (`LocApiV02.cpp:2883-2890`): the code
  logs the error, nobody looks at the result or tries again, and no
  DISCONNECTED of that stop follows. The machine then stays in Releasing until
  the call is lost by itself, if it ever is. `ReleasingEnds` says that this is,
  while the interface has a single connection, the only exception: a wait for the close ends, or its stop was refused; and at
  every moment of it a close is on its way, or a refused stop has left the call up.
* `LocTimer`: the task and the poll thread are scheduled, and time passes.
* `MsgTask`: both threads are scheduled. The owner is not obliged to call
  `destroy()`; once it has, it goes on.
* `CameraApi`: every thread of the HAL is scheduled, and the encoder and the
  daemon answer what they were given. Frames need not come and the application
  need not call.
* `LocSyncReq`: callers and the indication thread are scheduled, and the wait has
  a timeout, so a caller goes on in the end. The modem need not answer.
* `MmStream`: the threads are scheduled. Strong fairness is assumed at one place:
  the proc thread gets `buf_lock` when it is free again and again, as a mutex
  that lets no waiter starve would give it. Nobody has to fill a buffer, to give
  one back, or to start or stop.
* `PostProc`: every thread is scheduled, frames come, and the encoder and the
  reprocessing finish what they are given. The application need not take a
  picture or cancel one.

### What is assumed of the environment

* A connection handle is not reused while a message about it is still queued
  (`Ask`); in `DsNif` with `Reuse` it may be reused after that.
* One connectivity service serves one interface, and handles its callbacks in
  order.
* Allocations and `pthread_mutex` calls succeed. Thread creation may fail
  (`created` in `MsgTask`).
* Pictures are JPEG. The deferred jobs that only allocate buffers are waited for
  in the same handler and are part of it. A live snapshot whose thread nobody
  joined is not told from the next one.
* Of the camera's parameters only the ZSL mode and the recording hint are kept;
  other batches the HAL sends on its own, which commit pending values too, are
  left out.
* `MmChannel`: the streams have one snapshot stream among them, a frame index
  neither wraps nor is 0. Metadata that say both "prepare done" and "good range",
  of which the code logs that they "shouldn't be valid at the same time"
  (`mm_camera_channel.c:1661-1666`), do occur: the caller (1768-1770) returns
  without queueing the frame or giving it back, so that each costs the metadata
  stream one buffer until the channel is started again, and after as many as it
  has buffers no metadata come. `lost` counts them; `BuffersAccounted` says that
  this is all that is ever missing, and `NeverStarved` that a stream has a buffer
  as long as it has more left than the queue may keep. A super buffer lost in
  the callback of the HAL is not told from one it holds.
* `MmStream`: the consumers of frames are told to stop before the channel is,
  as `CameraHw` does it; the user gives nothing back before the first frame came;
  the buffers are there when the stream starts (`BufAllocRoutine` is left out).
  A buffer may be refused when it is queued. If the cache cannot be invalidated
  (`mm_camera_stream.c:1174-1182`) it is not counted yet, and is only lost; if the
  driver refuses it (1206) it is lost and stays counted (1187), so that the fd is
  polled for it when the driver has no buffer left. `refused` counts those;
  `PolledIffQueued` says that they are the whole difference between
  `queued_buffer_count` and the driver. Either is lost until the stream is
  stopped. When a start fails in `mm_stream_reg_buf` with buffers queued already,
  neither STOP nor UNREG_BUF does anything in the state the stream is in, and its
  fd stays among the poll entries until the next start and stop (`RegFails`).
  Adding the fd does not fail: the handle is valid, and the signal to the poll
  thread returns 0 whatever becomes of it (`mm_camera_thread.c:79-157`).
  Where a thread uses a frame of a session that is over, the step records it in
  `broken` and the model ends: what the program does from there on is undefined.
* `PostProc`: ZSL pictures without longshot; the save thread, which then only
  starts and stops, is left out. The application has the callback for compressed
  images, which is also that of YUV and raw ones, enabled; other callbacks
  (shutter, raw notification, postview) go through the same queue and hold no
  frame. A raw image that comes back from the reprocessing is not encoded
  (`QCameraPostProc.cpp:1595-1608`), and its job stays without a number until the
  next stop: `PictureEnds` allows for it (`RawLeft`). A start also deletes the
  reprocess channel it replaces, which `doReprocess` may be using on the other
  thread; what becomes of that is undefined, and the model goes on as if the
  old channel took the frame. Enqueuing a frame and sending the command that goes with it are
  one step, since a thread that gets the command late finds the frame there
  already. Job numbers go on from one session to the next.
* Deadlock is not checked where the system may come to rest: the clock stops at
  `MaxTime`, clients need not ask for anything, a destroyed task is over.

## What is proved

`TLAPS` proves the following for every value of the constants, from the named
assumptions of the modules only.

* **`AgpsProofs`**: `Spec => []IInv`, and from it `TypeOK`,
  `StateMatchesList`, `OpenMeansAcquired`, `NoneForgotten`; and `Refinement`,
  `Spec => KeepsPromise`. None of the three safety invariants is inductive: that
  a client told "open" is listed depends on what is still queued for it. `IInv`
  adds that a client's state determines what is queued for it and where it is
  listed (`ClientOK`), that no client message is in the queue twice and no
  subscription follows the release of the same name (`Ordered`), and that only
  clients that wait for the close are inactive (`ListOK`). The argument goes
  from the queue to the list: taking the head of the queue moves exactly the
  client it names, and every notification of the machine goes to clients whose
  state `ClientOK` gives. The refinement maps `held` to "the state is
  Acquired"; each action is one step of `AgpsPromise` or a stutter.
  `NothingLeftOpen` is `Spec => []NoLeak` for an interface of one client at a
  time that waits for the close (`OneAtATime`, the constants of `wifi_nif`);
  without that it does not hold (Claims that do not hold). Its invariant,
  `ServiceInv`, adds `Service`: what the service did, what it has been asked to
  do and what it has said that is not read yet determine the state of the
  machine. A release done already may still be in front of the next request, and
  a grant in front of a loss, so `Service` lists the queues each state can meet.
* **`AgpsProofs`, restarts**: `RestartSpec => []RestartInv`, and from it
  `NoGhosts`, for any clients and any number of restarts. `IInv` does not survive
  a restart (the modem forgets its clients while they are still listed), so
  `RestartInv` says less about the machine and more about the queue: behind a
  restart there is neither a second one nor a message of the modem, and a
  subscription follows no other message of its client (`QueueOK`); only listed
  clients wait for the close, and nobody is listed in Released (`NifOK`); and
  while a restart is queued the modem knows no client, otherwise a client it does
  not know is neither listed nor about to be (`KnownOK`). Emptying the list is
  enough because of what the queue has no room for behind the restart.
* **`MsgTaskDsNifProofs`, `DsNif`**: `Spec => []StateMatchesList`, for any connections, retry
  limit and reuse of handles. The invariant is about the machine alone
  (`MachineOK`): its own subscribers and the fallback's, the inactive ones among
  those that wait for the close, and the agreement itself; retries and the reuse
  of handles may put any message in the queue, so nothing is said about it. Each
  handler of `AgpsStates` has a lemma that it keeps `MachineOK`
  (`SubscribeOK`, `UnsubscribeOK`, `RsrcEventsOK`, `CloseCompletedOK`).
* **`LocTimerProofs`**: `Spec => []IInv` with `IInv` the conjunction of
  `TypeOK`, `Owned`, `Headed`, `Armed`. `Owned` is inductive only with
  `LastWord` inside it: no message follows the removal of the timer it is about.
  `Armed` needs `Headed`, and speaks of the task thread in the middle of
  `updateSoonestTime`, because between `addPoll` and `timerfd_settime` the poll
  thread may undo either.
* **`MsgTaskDsNifProofs`, `MsgTask`**: `TaskSpec => []IInv`, and
  `DelegateShared`, `InOrder`, `DetachedIsDeleted`. `IInv` adds `Places`: where each thread is tells whether
  there is a thread at all, whether it can be stopped, and whether the `MsgTask`
  still exists.
* **`LocSyncReqProofs`**: `Spec => []IInv`, and from it `SlotOwned`,
  `InUseCovers`, `SleepsUnanswered` and `OneCallPerAnswer`. That an indication
  nobody else gets is written through a pointer of a live call needs to know
  where the pointer came from (`SlotPoints`), and that no wakeup is lost needs
  the flag of an early answer (`EarlyIsKept`). `InUseCovers` holds although the
  loop of the indication thread recomputes `in_use` while callers come and go
  between its slots, because what it has seen so far (`SeenSoFar`) is only
  cleared with the array. `AnswersApart` says each answer is at one place.
* **`CameraProofs`**: `Spec => []IInv`, and from it `VideoIffRecording`,
  `DoneIsComing` and `OwnAnswer`, for any length of a picture, any bound of the
  queues and any application, a careless one and refused parameters included.
  Each operation of `CameraHw` is one of a few relations between the camera
  before and after it (`Calm`: the state, the modes and the video channel stay;
  `Cleared`: no channel of the preview is left), each handler is a composition
  of them, and the SNAPSHOT_DONE that is queued stays queued through all. That
  answers are the caller's own needs to know that at most one request in the
  queue or in work is one an application waits for (`QueueOK`, `CurOK`): the
  HAL's own requests, and PREPARE_SNAPSHOT, whose answer has left already, may
  be any number. `OnePreview` and `StoppedMeansStopped` are proved with the
  hypothesis `Steady`: the application is careful, no parameters are refused, and
  no preview is restarted behind the application. The invariant then
  says besides (`ModesOK`, `ParamsOK`) that committed and pending modes agree,
  that the only preview channel is the one of these modes, that there is none in
  PREVIEW_STOPPED and PIC_TAKING, and that a SET_PARAMS still in the queue asks
  for no restart that the state forbids. With a careless application or refused
  parameters `StoppedMeansStopped` is false: see Claims that do not hold.
* **`MmChannelProofs`**: `Spec => []IInv`, and from it `NeverSpins`,
  `WholeInOrder`, `FlashEnds` and `MatchedFirst`, for any streams, buffers,
  metadata and commands. The argument is about the queue: its whole nodes come
  first and are counted by `match_cnt`, and all nodes are in the order of their
  frames (`Sorted`); and about time: there is, for each stream, a last frame the
  command thread has seen and a last super buffer it gave away, and every node
  lies between them (`Within`). The next frame of a stream is later than all it
  has given, so a node it joins or starts comes after the whole ones, and when
  it makes a node whole, dropping the older ones puts that node right behind
  them. Each operator of the command thread has a lemma that it keeps both
  (`DequeueOK`, `ReplaceOK`, `PutInOK`, `TakeOutOK`, ...). That the loops end
  is then a consequence: as many whole nodes come first as they want to drop.
  `NothingLost` is `Spec => []BuffersAccounted`. Its invariant, `Counted`, counts
  the nodes of a sequence in which a stream has a buffer (`Held`), and each
  operator of the command thread has a lemma that what it takes from the queue
  is what it gives back (`Conserves`), and a contradictory metadata frame is the
  one that is neither queued nor given back, which is what `lost` counts. A frame adds exactly one: the node it
  joins has none of its stream, because the frames of a stream come in order and
  the queue is `Sorted`; and the HAL never gets a super buffer it still holds,
  because all it holds came before `given`. `StreamsGoOn`, `Spec => []NeverStarved`,
  then bounds the queue: no more than `match_cnt + max_unmatched_frames + 1`
  nodes, with `match_cnt` at most `water_mark` between commands; the metadata
  stream needs one buffer more for each it has lost.
* **`MmStreamProofs`**: `Spec => []IInv`, and from it `RefcountIsHolders` and
  `PolledIffQueued`, for any buffers, any number of sessions, bundled or not.
  That a reference count is the number of holders is not inductive: the count of
  a buffer nobody refers to stays 0 when it is given back, and a frame that came
  to the user twice would be counted twice and held once. `BufOK` adds that a buffer is at most once with the driver
  and on its way there, and only with a count of 0 (`WithDriver`), and that its
  frame is at most once on the way to the user (`OnTheWay`). The proof counts the
  references one by one (`Refs`), and each step moves one of them: from the queue
  of the cmd thread to the thread, from there to mDataQ, to the user, to whoever
  gives it back, which may be three threads at once. `Frames` keeps the sessions
  apart: a frame of an earlier one, which the unprotected orders of `broken` use,
  is no holder in this one. `PolledIffQueued` needs `CountOK`, which says of the
  counter what it says while `buf_lock` is held and the driver has not got the
  buffer yet, that it also counts what the driver refused in this session, and
  nothing else, and that a change of the entry is in the pipe until it was copied.
* **`PostProcProofs`**: `Spec => []IInv`, and from it `FramesHeldOnce`
  (`HeldOnce`) and `EncoderHolds` (`NumbersLast => EncoderReadsHeld`), for any
  frames, pictures and applications. `HeldOnce` counts a frame at all its places
  and says the sum is one, but a step that takes a frame from one of two places
  that should hold the same keeps the sum only if they do. `Reprocessed` says so
  of the reprocess channel and `ongoingPPQ`, `JobInHand` of the job the thread
  has taken and the end of `ongoingJpegQ`, from where a failure removes the last
  one, whichever that is (`DropLast`). `Reprocessed` speaks of the frames
  themselves only while the channel was not replaced with frames on their way
  (`paired`), and of their number always, which is all that `HeldOnce` needs. What makes both survive a stop is
  `OneStop`: a stop is asked for by a state machine that then waits, so that no
  second one finds the thread between the abort of the jobs and the flush of the
  queues. Each action has a lemma that moves one frame from one place to another
  (`...Held`), over lemmas about what appending, removing, picking and flushing
  do to a count. `EncoderReadsHeld` rests on `Numbered`: a job of the encoder
  has the number of an ongoing job with the same frame, no other job has it, and
  the event that would end it is still to come. The number of the job that was
  started last is not stored yet while the thread is between
  `mm_jpeg_start_job` and line 1711 (`Number`). An event whose number is not
  found flushes nothing, which is why an early one leaves its job behind
  (`JobsReleased`, below) and does not take another's frame. The hypothesis `NumbersLast`
  (no more than 256 jobs were started) is needed because job 256 has the number
  of job 0 again: the event of one would end the other while the encoder reads
  its frame. Nothing is claimed of the encoder beyond that; `HeldOnce` holds for
  any number of jobs.

Some of these theorems state invariants that no run lists any more (`TypeOK` and
`StateMatchesList` of `AgpsNif`, `Headed` of `LocTimer`, `InOrder` of `MsgTask`):
what is proved for every instance needs no run.

### What is only model-checked

* Liveness (`EveryoneAnswered`, `ReleasingEnds`, `EveryTimerEnds`, `DestroyEnds`,
  `PrepareEnds`, `CallEnds`, `FramesArrive`, `ControlEnds`, `PictureEnds`), which
  needs fairness.
* `LocHeap`: its methods are recursive, and a proof would be by induction over
  trees.
* `TypeOK` of the camera: a queue that was flushed is a selection, which the
  library defines by recursion, so that its type would be an induction. `IInv`
  of `CameraApi` states the types its proof needs. In `PostProc`, where the
  proof is about what a flush leaves, the flush is said without recursion: the
  queue afterwards is the one increasing sequence of the indices that stay
  (`Order`, `Picked`).

## Claims that do not hold

The modules define properties that state what a comment of the code says, or
takes for granted, and that TLC refutes. They are not part of a run; adding the
property to the `.cfg` named here, in place of the ones it lists, and changing
what is named with it, shows the behaviour.

| Property | Says | The code | `.cfg` |
|---|---|---|---|
| `AgpsNif.NoLeak` | `loc_eng_agps.h:196-197`: "each state machine tracks resource state of a particular NIF" | in Pending, the answer to an earlier request settles the later one, and the service ends up holding a connection for a machine that is Released; one client at a time (`wifi_nif`) cannot do this | `AgnssNif` |
| `DsNif.SharersAnswered` (PROPERTY) | `loc_eng_agps.cpp:276-277`: "if the data call setup fails for DS State Machine, we want to retry in released state" | retries and fallback take the first active subscriber of the list, not the one whose call was refused | `DsNif` |
| `CameraApi.DeferredWaitEnds` (PROPERTY) | `QCamera2HWI.cpp:6111`: the wait ends when the job is done | the end of the deferred job signals the condition once (line 6035), but the state machine, in `cancelPicture`, and the callback of the capture channel may both be waiting | `Camera`, `Used <- Pictures` |
| `LocSyncReq.OneAnswerPerCall` | `loc_api_sync_req.c:478`: "thread safe" | the indication thread does not stop at a slot that was answered: a second indication of the kind, meant for a later call, overwrites the first | `SyncReq` |
| `LocSyncReq.SuccessIsAnswered` | `loc_api_sync_req.c:360`: "buffer full for this synchronous req", and no other word of it to the caller | the result of a call whose slot was never granted, or whose wait woke for nothing, is that of the request alone | `SyncReq` |
| `MmStream.SafeToRelease` | `mm_camera_channel.c:1183`: "since all streams are stopped, we are safe to release all buffers" | the poll thread may still be handling the last frame | `Stream` |
| `MmStream.QbufInTime` | `mm_camera.c:477`: "we always assume qbuf will be done before channel/stream is fully stopped" | a thread that found the stream active gives its buffer back after the stop | `Stream` |
| `MmStream.OwnFrames` | `QCameraStream.cpp:756`: at EXIT "flush data buf queue" | a frame enqueued after the flush stays for the next session | `Stream` |
| `MmStream.StoppedIsNotPolled` | `mm_camera_stream.c:915`: "remove fd from data poll thread" | a buffer given back between the deletion and the stop adds the fd again; and the fd is not removed at all after a start that failed with buffers queued | `Stream` |
| `PostProc.JobsReleased` | `QCameraPostProc.cpp:750`: "Release jpeg job data" | an event that is handled before the job has its id, or after a cancel, when PREVIEWING ignores it, leaves the job and its frame in the queue until the next stop, and so does a raw image | `PostProc` |
| `PostProc.AnyPictureEnds` (PROPERTY) | `QCamera2HWICallbacks.cpp:1748`: "notify HWI that snapshot is done" | start and stop of the notifier both go to the front of its queue; taken one after the other by an application that does not wait, the start is undone by the stop before it, and the callback that would end the picture is dropped | `PostProc` |
| `PostProc.OriginalSource` | `QCameraPostProc.h:49`: "original source frame for reproc" | a start replaces the reprocess channel, also after an advanced capture that failed to start without a stop; the frames that were on their way are then paired with those of the next picture | `PostProc`, `Uses <- Reprocessing`, `MaxPictures = 3` |
| `PostProc.StoppedIsInactive` | `QCameraPostProc.cpp:2023`: "stop data proc" | a stop goes to the front of the queue, and may overtake the start it should undo | `PostProc` |
| `DsNif.UnsubscribedIsGone` | `loc_eng_agps.cpp:288`: in Released "the list should really be empty, nothing to remove" | a connection waiting for a retry is in the list in Released, and its release leaves it there | `DsNif` |
| `DsNif.PendingIsRequested` | `loc_eng_agps.cpp:333-334`: in Pending the resource was "already requested" | the request made on the way from Releasing to Pending may fail, and line 560 does not look at the result | `DsNif` |
| `DsNif.SubscriptionIsListed` (PROPERTY) | `loc_eng_agps.cpp:523-525`: "we need to add subscriber to the list" | a subscriber equal to an inactive one is not added | `DsNif` |
| `AgpsRestart.HeldForSomebody` | `loc_eng_agps.cpp:354`: "no more subscribers, move to RELEASED state" | `dropAllSubscribers` (`loc_eng.cpp:2849`) leaves the state as it was; the next event or subscriber puts it right | `Restart` |
| `LocTimer.CallsBackThePopped` (PROPERTY) | `LocTimer.cpp:522-524`: the callback comes only if the timer "hasn't been stopped already" | between the read of `mClient` and `stop()` the client may have started another timer, which is then the one stopped | `Timers` |
| `LocTimer.DisarmedWhenEmpty` | `LocTimer.cpp:288`: "if tree is empty now, we remove poll and disarm timer" | the callers (lines 342, 373) pass NULL for the prior head when the heap becomes empty; the branch is dead code, and the timer expires for nothing | `Timers` |
| `LocTimer.PopsOnlyDue` (PROPERTY) | `LocTimer.cpp:365`: "pop everything in the heap that outRanks now" | the first pop of `MsgTimerExpire` does not look at the time: when the timer that expired was stopped meanwhile, the next one is called back early | `Timers` |
| `LocTimer.NoDeadClient` | `LocTimer.cpp:486`: "expire() won't call the callback on the dead handle any more" | `mClient` is read, the timer is deleted, and the read value is used | `Timers` |
| `CameraApi.ModesFixedWhileRecording` (PROPERTY) | `QCameraStateMachine.cpp:1850`: "cannot set parameters that requires restart during recording" | the refused call has stored the new mode; the same call again needs no restart and commits it | `Camera`, `Careful = FALSE` |
| `CameraApi.StoppedMeansStopped` | `QCameraStateMachine.h:171`: "preview is stopped" | a mode committed without a restart makes `TAKE_PICTURE` stop the wrong channel, and a later failure leaves the other one streaming | `Camera`, `Careful = FALSE`, or `ParamsFail = TRUE` |
| `CameraApi.AnswerSeen` (PROPERTY) | `QCamera2HWI.cpp:3651-3652`: the wait will "return only [when] certain API event type arrives" | the answer arrives, and is overwritten by the answer to an internal request before the caller has run | `Camera` |
| `MsgTask.DeletedWithThread` | `MsgTask.h:50`: "this obj will be deleted once thread is deleted" | once the queue is unblocked the thread may delete the object that `destroy()` (`MsgTask.cpp:66-69`) is still using | `Task` |
| `MsgTask.DeletedByThread` | `LocThread.h:75-76`: "The obj will be deleted by LocThread if start() returns true" | a joinable thread stopped before it began never calls the delete (`LocThread.cpp:137-139, 179-181`) | `Task` |

## What is not modelled, and why

* Position reports, NMEA, XTRA, configuration: formatting, parsing, or a buffer
  handed through; no protocol.
* `LocApiV02` beyond the calls the AGPS path makes: it translates between
  structures. `location_service_v02.[ch]` are generated tables of messages.
  `loc_api_v02_client` and `ds_api` wrap vendor libraries that are
  not in the repository; `DsNif` models what those answer.
* `QCameraParameters.cpp`: it maps strings to settings and back; what the state
  machine depends on (which changes need a restart, the modes) is in `CameraHw`,
  the numbers of buffers are in `MCMmChannel`.
* The reference counts of `LocSharedLock`: see its hazard.
* In the camera stack: the negotiation of formats and parameters, the socket to
  the daemon, the handles and formats of the encoder in `mm_jpeg.c`. Three orders of threads outside the modelled
  part look unprotected and are not yet modelled: `poll_thread` signals that it
  runs before it sets its state, `STOP` looks at the callback once to decide
  whether to release the cmd thread, and the wait in `BufAllocRoutine` may miss
  its signal.
* Lights, audio amplifier, cmhw: single writes to sysfs.
* `QCamera` (v1, HAL2, USB), the RPC location API and `mm-camera-test`: not used
  on this device, or tests. They are more than a third of the C and C++ of the
  repository, and with the generated tables and the parameter strings above they
  are why the modelled code is a small part of all its lines.
* Overlays, init scripts, policies, tables: data.

## Plan

In order of importance; one module each unless said otherwise.

1. Camera: bursts, longshot and the preview restart of `Restart`; two
   applications' threads at once (a caller gives the API lock up while it waits).
2. `loc_eng` fix session: position mode, `mute_session_state`, engine down and up
   together with `AgpsRestart`. Property: a session that is on is on in the modem
   after the restart.
3. `LocTimerWrapper` (`loc_timer_start`, `loc_timer_stop`) on top of `LocTimer`,
   and `LocSharedLock` with its count.
4. `loc_eng_ni`: the request, the response thread, its timeout.
5. Camera pipeline: longshot, its save thread and captures without ZSL in
   `PostProc`; the deferred allocation of the buffers of a stream. Property: the
   image file is saved or the application told.
6. `qomx_core`: component slots.
7. Proofs: `LocHeap`, if a prover for induction over trees becomes available.
