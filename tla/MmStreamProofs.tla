--------------------------- MODULE MmStreamProofs ---------------------------
(***************************************************************************)
(* The buffers of a stream, for every set of buffers and any number of     *)
(* sessions: a buffer is referred to as often as it is held, and it is     *)
(* with the driver, at one place, only when nobody refers to it.           *)
(***************************************************************************)
EXTENDS MmStream, FiniteSetTheorems, SequenceTheorems, TLAPS

-----------------------------------------------------------------------------
(* Counting                                                                *)

LEMMA OnceIs ==
    ASSUME NEW test \in BOOLEAN
    PROVE  /\ Once(test) \in {0, 1}
           /\ test => Once(test) = 1
           /\ ~test => Once(test) = 0
BY DEF Once

\* An element more at the end of a queue.
LEMMA TimesAppended ==
    ASSUME NEW S, NEW q \in Seq(S), NEW e \in S, NEW x
    PROVE  /\ Append(q, e) \in Seq(S)
           /\ Times(q, x) \in Nat
           /\ Times(Append(q, e), x) = Times(q, x) + (IF e = x THEN 1 ELSE 0)
<1> DEFINE at == {p \in DOMAIN q : q[p] = x}
           r == Append(q, e)
           more == {p \in DOMAIN r : r[p] = x}
           n == Len(q)
<1>1. n \in Nat /\ DOMAIN q = 1 .. n
    BY LenProperties
<1>2. /\ r \in Seq(S) /\ DOMAIN r = 1 .. n + 1 /\ r[n + 1] = e
      /\ \A p \in 1 .. n : r[p] = q[p]
    BY <1>1, AppendProperties, LenProperties
<1>3. IsFiniteSet(at) /\ Cardinality(at) \in Nat
    <2>1. at \in SUBSET (1 .. n) /\ IsFiniteSet(1 .. n)
        BY <1>1, FS_Interval
    <2> QED
        BY <2>1, FS_Subset, FS_CardinalityType
<1>4. (n + 1) \notin at
    BY <1>1
<1> HIDE DEF r, n
<1>5. more = IF e = x THEN at \cup {n + 1} ELSE at
    BY <1>1, <1>2
<1> HIDE DEF at, more
<1>6. Cardinality(more) = Cardinality(at) + (IF e = x THEN 1 ELSE 0)
    <2>1. Cardinality(at \cup {n + 1}) = Cardinality(at) + 1
        BY <1>3, <1>4, FS_AddElement
    <2> QED
        BY <1>3, <1>5, <2>1
<1>7. Times(q, x) = Cardinality(at) /\ Times(r, x) = Cardinality(more)
    BY DEF Times, at, more
<1> QED
    BY <1>2, <1>3, <1>6, <1>7 DEF r

\* A queue is its first element and the rest.
LEMMA TimesTaken ==
    ASSUME NEW S, NEW q \in Seq(S), q # <<>>, NEW x
    PROVE  /\ Head(q) \in S /\ Tail(q) \in Seq(S)
           /\ Times(Tail(q), x) \in Nat
           /\ Times(q, x) = Times(Tail(q), x) + (IF Head(q) = x THEN 1 ELSE 0)
<1> DEFINE t == Tail(q)
           n == Len(t)
           at == {p \in DOMAIN t : t[p] = x}
           moved == {p + 1 : p \in at}
           all == {p \in DOMAIN q : q[p] = x}
<1>1. /\ t \in Seq(S) /\ n \in Nat /\ Len(q) = n + 1 /\ Head(q) = q[1] /\ Head(q) \in S
      /\ \A p \in 1 .. n : t[p] = q[p + 1]
    BY HeadTailProperties, LenProperties
<1>2. DOMAIN t = 1 .. n /\ DOMAIN q = 1 .. n + 1
    BY <1>1, LenProperties
<1>3. IsFiniteSet(at) /\ Cardinality(at) \in Nat /\ at \in SUBSET Nat
    <2>1. at \in SUBSET (1 .. n) /\ at \in SUBSET Nat
        BY <1>1, <1>2
    <2>2. IsFiniteSet(1 .. n)
        BY <1>1, FS_Interval
    <2> HIDE DEF at
    <2> QED
        BY <2>1, <2>2, FS_Subset, FS_CardinalityType
<1>4. 1 \notin moved
    BY <1>3
<1>5. all = IF Head(q) = x THEN moved \cup {1} ELSE moved
    <2> HIDE DEF t, n
    <2>1. ASSUME NEW p \in all PROVE p \in moved \/ (p = 1 /\ Head(q) = x)
        <3>1. CASE p = 1
            BY <1>1, <3>1
        <3>2. CASE p # 1
            <4>1. p \in 1 .. n + 1 /\ q[p] = x
                BY <1>2
            <4>2. p - 1 \in 1 .. n /\ t[p - 1] = q[(p - 1) + 1] /\ (p - 1) + 1 = p
                BY <1>1, <3>2, <4>1
            <4> QED
                BY <1>2, <4>1, <4>2
        <3> QED
            BY <3>1, <3>2
    <2>2. ASSUME NEW p \in at PROVE p + 1 \in all
        <3>1. p \in 1 .. n /\ t[p] = x
            BY <1>2
        <3>2. p + 1 \in 1 .. n + 1 /\ q[p + 1] = x
            BY <1>1, <3>1
        <3> QED
            BY <1>2, <3>2
    <2>3. Head(q) = x => 1 \in all
        BY <1>1, <1>2
    <2> QED
        BY <2>1, <2>2, <2>3
<1>6. IsFiniteSet(moved) /\ Cardinality(moved) = Cardinality(at)
    <2> DEFINE f == [p \in at |-> p + 1]
    <2>1. f \in Bijection(at, moved)
        BY <1>3 DEF Bijection, Injection, Surjection, IsInjective
    <2> HIDE DEF f, moved
    <2> QED
        BY <1>3, <2>1, FS_Bijection DEF ExistsBijection
<1> HIDE DEF at, moved, all
<1>7. Cardinality(all) = Cardinality(at) + (IF Head(q) = x THEN 1 ELSE 0)
    <2>1. Cardinality(moved \cup {1}) = Cardinality(moved) + 1
        BY <1>4, <1>6, FS_AddElement
    <2> QED
        BY <1>3, <1>5, <1>6, <2>1
<1>8. Times(t, x) = Cardinality(at) /\ Times(q, x) = Cardinality(all)
    BY DEF Times, at, all
<1> HIDE DEF t
<1>9. Times(t, x) \in Nat /\ Times(q, x) = Times(t, x) + (IF Head(q) = x THEN 1 ELSE 0)
    BY <1>3, <1>7, <1>8
<1> QED
    BY <1>1, <1>9 DEF t
-----------------------------------------------------------------------------
(* References                                                              *)

Bundle(b) == [via |-> "bundle", buf |-> b]
Hal(b) == [via |-> "hal", buf |-> b]
Giving(d, lock, o, w) == IF d[w] = o /\ lock # w THEN 1 ELSE 0

LEMMA HeldCount ==
    ASSUME NEW hs, hs \subseteq [via : {"bundle", "hal"}, buf : Bufs], NEW b \in Bufs
    PROVE  Cardinality({h \in hs : h.buf = b}) =
             (IF Bundle(b) \in hs THEN 1 ELSE 0) + (IF Hal(b) \in hs THEN 1 ELSE 0)
<1> DEFINE of == {h \in hs : h.buf = b}
<1>1. of = (IF Bundle(b) \in hs THEN {Bundle(b)} ELSE {}) \cup (IF Hal(b) \in hs THEN {Hal(b)} ELSE {})
    <2>1. \A h \in of : h = Bundle(b) \/ h = Hal(b)
        BY DEF Bundle, Hal
    <2>2. Bundle(b).buf = b /\ Hal(b).buf = b
        BY DEF Bundle, Hal
    <2> QED
        BY <2>1, <2>2
<1>2. Bundle(b) # Hal(b)
    BY DEF Bundle, Hal
<1>3. Cardinality(of) = (IF Bundle(b) \in hs THEN 1 ELSE 0) + (IF Hal(b) \in hs THEN 1 ELSE 0)
    <2> HIDE DEF of
    <2>1. /\ Cardinality({Bundle(b)} \cup {Hal(b)}) = 2
          /\ Cardinality({Bundle(b)}) = 1 /\ Cardinality({Hal(b)}) = 1 /\ Cardinality({}) = 0
        <3>1. /\ IsFiniteSet({Bundle(b)}) /\ Cardinality({Bundle(b)}) = 1 /\ Cardinality({Hal(b)}) = 1
              /\ Cardinality({}) = 0
            BY FS_EmptySet, FS_Singleton
        <3>2. Hal(b) \notin {Bundle(b)}
            BY <1>2
        <3>3. Cardinality({Bundle(b)} \cup {Hal(b)}) = Cardinality({Bundle(b)}) + 1
            BY <3>1, <3>2, FS_AddElement
        <3> QED
            BY <3>1, <3>3
    <2>2. /\ Bundle(b) \in hs /\ Hal(b) \in hs => of = {Bundle(b)} \cup {Hal(b)}
          /\ Bundle(b) \in hs /\ Hal(b) \notin hs => of = {Bundle(b)}
          /\ Bundle(b) \notin hs /\ Hal(b) \in hs => of = {Hal(b)}
          /\ Bundle(b) \notin hs /\ Hal(b) \notin hs => of = {}
        BY <1>1
    <2> QED
        BY <2>1, <2>2
<1> QED
    BY <1>3

LEMMA GivingCount ==
    ASSUME NEW d, NEW lock, NEW o
    PROVE  Cardinality({w \in Workers : d[w] = o /\ lock # w}) =
             Giving(d, lock, o, "cmd") + Giving(d, lock, o, "proc") + Giving(d, lock, o, "user")
<1> DEFINE G(w) == IF d[w] = o /\ lock # w THEN {w} ELSE {}
           all == {w \in Workers : d[w] = o /\ lock # w}
<1>1. all = (G("cmd") \cup G("proc")) \cup G("user")
    BY DEF Workers
<1>2. \A w \in Workers : IsFiniteSet(G(w)) /\ Cardinality(G(w)) = Giving(d, lock, o, w)
    BY FS_EmptySet, FS_Singleton DEF Giving
<1>3. /\ G("cmd") \cap G("proc") = {}
      /\ (G("cmd") \cup G("proc")) \cap G("user") = {}
    OBVIOUS
<1>4. \A w \in Workers : Giving(d, lock, o, w) \in Nat
    BY DEF Giving
<1>5. {"cmd", "proc", "user"} \subseteq Workers
    BY DEF Workers
<1> DEFINE cmds == G("cmd")  procs == G("proc")  users == G("user")
<1>6. /\ all = (cmds \cup procs) \cup users
      /\ cmds \cap procs = {} /\ (cmds \cup procs) \cap users = {}
      /\ IsFiniteSet(cmds) /\ IsFiniteSet(procs) /\ IsFiniteSet(users)
      /\ Cardinality(cmds) = Giving(d, lock, o, "cmd")
      /\ Cardinality(procs) = Giving(d, lock, o, "proc")
      /\ Cardinality(users) = Giving(d, lock, o, "user")
    BY <1>1, <1>2, <1>3, <1>5
<1> HIDE DEF cmds, procs, users, all, G
<1>7. IsFiniteSet(cmds \cup procs) /\ Cardinality(cmds \cup procs) = Cardinality(cmds) + Cardinality(procs)
    <2>1. Cardinality(cmds \cup procs) = Cardinality(cmds) + Cardinality(procs) - 0
        BY <1>6, FS_Union, FS_EmptySet
    <2> QED
        <3>1. Cardinality(cmds) \in Nat /\ Cardinality(procs) \in Nat
            BY <1>4, <1>5, <1>6
        <3>2. IsFiniteSet(cmds \cup procs)
            BY <1>6, FS_Union
        <3> QED
            BY <2>1, <3>1, <3>2
<1>8. Cardinality((cmds \cup procs) \cup users) = Cardinality(cmds \cup procs) + Cardinality(users) - 0
    BY <1>6, <1>7, FS_Union, FS_EmptySet
<1>9. Cardinality(all) = Giving(d, lock, o, "cmd") + Giving(d, lock, o, "proc") + Giving(d, lock, o, "user")
    BY <1>4, <1>5, <1>6, <1>7, <1>8
<1> QED
    BY <1>9 DEF all

-----------------------------------------------------------------------------
\* How often x is in a queue is a number.
LEMMA TimesIsNat ==
    ASSUME NEW S, NEW q \in Seq(S), NEW x
    PROVE  Times(q, x) \in Nat
<1> DEFINE at == {p \in DOMAIN q : q[p] = x}
<1>1. DOMAIN q = 1 .. Len(q) /\ Len(q) \in Nat
    BY LenProperties
<1>2. at \in SUBSET (1 .. Len(q)) /\ IsFiniteSet(1 .. Len(q))
    BY <1>1, FS_Interval
<1>3. Cardinality(at) \in Nat
    BY <1>2, FS_Subset, FS_CardinalityType
<1> QED
    BY <1>3 DEF Times

\* What is not in a queue is in it no time.
LEMMA TimesOfNone ==
    ASSUME NEW q, NEW x, \A p \in DOMAIN q : q[p] # x
    PROVE  Times(q, x) = 0
<1>1. {p \in DOMAIN q : q[p] = x} = {}
    OBVIOUS
<1> QED
    BY <1>1, FS_EmptySet DEF Times

LEMMA TimesOfNothing ==
    ASSUME NEW x
    PROVE  Times(<<>>, x) = 0
<1>1. {p \in DOMAIN <<>> : <<>>[p] = x} = {}
    OBVIOUS
<1> QED
    BY <1>1, FS_EmptySet DEF Times

\* The references to b, one by one.
Refs(hs, c, q, d, lock, o, b) ==
    ((IF Bundle(b) \in hs THEN 1 ELSE 0) + (IF Hal(b) \in hs THEN 1 ELSE 0))
    + Times(c.queue, b)
    + (IF c.buf = b THEN 1 ELSE 0) + (IF c.buf = b /\ c.pc = "enqueue" THEN 1 ELSE 0)
    + Times(q, o)
    + (Giving(d, lock, o, "cmd") + Giving(d, lock, o, "proc") + Giving(d, lock, o, "user"))

LEMMA NoRefs ==
    ASSUME NEW hs, NEW c, NEW q, NEW d, NEW lock, NEW o, NEW b,
           Times(c.queue, b) \in Nat, Times(q, o) \in Nat,
           Refs(hs, c, q, d, lock, o, b) = 0
    PROVE  /\ Bundle(b) \notin hs /\ Hal(b) \notin hs /\ Times(c.queue, b) = 0
           /\ c.buf # b /\ Times(q, o) = 0
           /\ Giving(d, lock, o, "cmd") = 0 /\ Giving(d, lock, o, "proc") = 0
           /\ Giving(d, lock, o, "user") = 0
<1> DEFINE g1 == Giving(d, lock, o, "cmd")
           g2 == Giving(d, lock, o, "proc")
           g3 == Giving(d, lock, o, "user")
           t1 == Times(c.queue, b)
           t2 == Times(q, o)
<1>1. g1 \in Nat /\ g2 \in Nat /\ g3 \in Nat /\ t1 \in Nat /\ t2 \in Nat
    BY DEF Giving
<1>2. ((IF Bundle(b) \in hs THEN 1 ELSE 0) + (IF Hal(b) \in hs THEN 1 ELSE 0))
        + t1 + (IF c.buf = b THEN 1 ELSE 0) + (IF c.buf = b /\ c.pc = "enqueue" THEN 1 ELSE 0)
        + t2 + (g1 + g2 + g3) = 0
    BY DEF Refs
<1> HIDE DEF g1, g2, g3, t1, t2
<1>3. /\ Bundle(b) \notin hs /\ Hal(b) \notin hs /\ t1 = 0 /\ c.buf # b /\ t2 = 0
      /\ g1 = 0 /\ g2 = 0 /\ g3 = 0
    BY <1>1, <1>2
<1> QED
    BY <1>3 DEF g1, g2, g3, t1, t2

LEMMA HoldersAre ==
    ASSUME Types, NEW b \in Bufs
    PROVE  /\ Holders(b) = Refs(held, cmd, proc.mDataQ, doing, buf_lock, Own(b), b)
           /\ Times(cmd.queue, b) \in Nat /\ Times(proc.mDataQ, Own(b)) \in Nat
           /\ Times(driver.ready, b) \in Nat
<1>1. /\ cmd.queue \in Seq(Bufs \cup {"EXIT"}) /\ proc.mDataQ \in Seq(Frame)
      /\ driver.ready \in Seq(Bufs)
      /\ held \subseteq [via : {"bundle", "hal"}, buf : Bufs]
    BY DEF Types
<1> DEFINE hc == Cardinality({h \in held : h.buf = b})
           gc == Cardinality({w \in Workers : doing[w] = Own(b) /\ buf_lock # w})
           ones == (IF Bundle(b) \in held THEN 1 ELSE 0) + (IF Hal(b) \in held THEN 1 ELSE 0)
           givers == Giving(doing, buf_lock, Own(b), "cmd")
                       + Giving(doing, buf_lock, Own(b), "proc")
                       + Giving(doing, buf_lock, Own(b), "user")
<1>2. hc = ones /\ gc = givers
    BY <1>1, HeldCount, GivingCount
<1>3. Holders(b) = hc + Times(cmd.queue, b)
                + (IF cmd.buf = b THEN 1 ELSE 0)
                + (IF cmd.buf = b /\ cmd.pc = "enqueue" THEN 1 ELSE 0)
                + Times(proc.mDataQ, Own(b)) + gc
    BY DEF Holders, Once
<1> HIDE DEF hc, gc
<1>4. Holders(b) = Refs(held, cmd, proc.mDataQ, doing, buf_lock, Own(b), b)
    BY <1>2, <1>3 DEF Refs
<1> QED
    BY <1>1, <1>4, TimesIsNat

\* The same after a step.
LEMMA HoldersBecome ==
    ASSUME Types', NEW b \in Bufs
    PROVE  /\ Holders(b)' = Refs(held', cmd', proc'.mDataQ, doing', buf_lock', Own(b)', b)
           /\ Times(cmd'.queue, b) \in Nat /\ Times(proc'.mDataQ, Own(b)') \in Nat
           /\ Times(driver'.ready, b) \in Nat
<1>1. /\ cmd'.queue \in Seq(Bufs \cup {"EXIT"}) /\ proc'.mDataQ \in Seq(Frame)
      /\ driver'.ready \in Seq(Bufs)
      /\ held' \subseteq [via : {"bundle", "hal"}, buf : Bufs]
    BY DEF Types
<1> DEFINE hc == Cardinality({h \in held' : h.buf = b})
           gc == Cardinality({w \in Workers : doing'[w] = Own(b)' /\ buf_lock' # w})
           ones == (IF Bundle(b) \in held' THEN 1 ELSE 0) + (IF Hal(b) \in held' THEN 1 ELSE 0)
           givers == Giving(doing', buf_lock', Own(b)', "cmd")
                       + Giving(doing', buf_lock', Own(b)', "proc")
                       + Giving(doing', buf_lock', Own(b)', "user")
<1>2. hc = ones /\ gc = givers
    BY <1>1, HeldCount, GivingCount
<1>3. Holders(b)' = hc + Times(cmd'.queue, b)
                + (IF cmd'.buf = b THEN 1 ELSE 0)
                + (IF cmd'.buf = b /\ cmd'.pc = "enqueue" THEN 1 ELSE 0)
                + Times(proc'.mDataQ, Own(b)') + gc
    BY DEF Holders, Once
<1> HIDE DEF hc, gc
<1>4. Holders(b)' = Refs(held', cmd', proc'.mDataQ, doing', buf_lock', Own(b)', b)
    BY <1>2, <1>3 DEF Refs
<1> QED
    BY <1>1, <1>4, TimesIsNat
-----------------------------------------------------------------------------
(* The cmd thread                                                          *)

LEMMA CmdTakeOK == IInv /\ broken = "none" /\ CmdTake => IInv'
<1> SUFFICES ASSUME IInv, broken = "none", CmdTake PROVE IInv'
    OBVIOUS
<1> DEFINE c == Head(cmd.queue)
           rest == Tail(cmd.queue)
<1> USE DEF IInv
<1>1. /\ cmd.queue \in Seq(Bufs \cup {"EXIT"}) /\ cmd.queue # <<>>
      /\ c \in Bufs \cup {"EXIT"} /\ rest \in Seq(Bufs \cup {"EXIT"})
      /\ \A b \in Bufs : Times(rest, b) \in Nat
             /\ Times(cmd.queue, b) = Times(rest, b) + (IF c = b THEN 1 ELSE 0)
    BY TimesTaken DEF Types, CmdTake
<1>2. /\ cmd'.queue = rest
      /\ IF c = "EXIT" THEN cmd'.pc = cmd.pc /\ cmd'.buf = cmd.buf
         ELSE cmd'.pc = "call" /\ cmd'.buf = c
    BY DEF CmdTake, Types
<1>3. /\ cmd.pc = "wait" /\ cmd.buf = None /\ doing["cmd"] = None
      /\ UNCHANGED <<ctlVars, driver, bufVars, pollVars, poll, proc, held, doing, broken>>
    BY DEF CmdTake, CmdOK
<1>4. Types'
    <2>1. cmd' \in [pc : {"off", "wait", "call", "enqueue", "done", "exited"}, buf : Bufs \cup {None},
                queue : Seq(Bufs \cup {"EXIT"}), running : BOOLEAN]
        BY <1>1 DEF CmdTake, Types
    <2> QED
        BY <1>3, <2>1 DEF Types, ctlVars, bufVars, pollVars
<1>5. Sessions' /\ Frames' /\ CmdOK' /\ LockOK'
    BY <1>1, <1>2, <1>3, StreamAssumption
        DEF Sessions, Frames, CmdOK, LockOK, Off, Live, ctlVars, bufVars, pollVars, NoCmd
<1>6. CountOK'
    BY <1>3 DEF CountOK, ctlVars, bufVars, pollVars
<1>7. ASSUME Live', NEW b \in Bufs PROVE BufOK(b)'
    <2>1. BufOK(b) /\ Types /\ Types'
        BY <1>3, <1>4, <1>7 DEF Live, ctlVars
    <2>2. Own(b)' = Own(b)
        BY <1>3 DEF Own, ctlVars
    <2>3. cmd.buf # b /\ "EXIT" # b
        BY <1>3, StreamAssumption
    <2>4. /\ Times(rest, b) \in Nat
          /\ Times(cmd.queue, b) = Times(rest, b) + (IF c = b THEN 1 ELSE 0)
          /\ Times(proc.mDataQ, Own(b)) \in Nat
        BY <1>1, <2>1, HoldersAre
    <2>5. Holders(b)' = Holders(b)
        <3>1. /\ Holders(b) = Refs(held, cmd, proc.mDataQ, doing, buf_lock, Own(b), b)
              /\ Holders(b)' = Refs(held, cmd', proc.mDataQ, doing, buf_lock, Own(b), b)
            BY <1>3, <2>1, <2>2, HoldersAre, HoldersBecome DEF bufVars
        <3>2. \A w \in Workers : Giving(doing, buf_lock, Own(b), w) \in Nat
            BY DEF Giving
        <3> QED
            BY <1>2, <1>3, <2>3, <2>4, <3>1, <3>2 DEF Refs, Workers
    <2>6. OnTheWay(b)' = OnTheWay(b)
        BY <1>2, <1>3, <2>2, <2>3, <2>4 DEF OnTheWay, Once
    <2>7. WithDriver(b)' = WithDriver(b)
        BY <1>3 DEF WithDriver, InHand, ctlVars, bufVars
    <2> QED
        BY <1>3, <2>1, <2>5, <2>6, <2>7 DEF BufOK, bufVars
<1> QED
    BY <1>4, <1>5, <1>6, <1>7

-----------------------------------------------------------------------------
(* Steps that leave the buffers where they are                             *)

LEMMA BufSame ==
    ASSUME NEW b \in Bufs, BufOK(b),
           UNCHANGED <<session, buf_refcnt, buf_lock, held, doing>>,
           cmd'.queue = cmd.queue, cmd'.buf = cmd.buf,
           cmd'.pc = cmd.pc \/ {cmd.pc, cmd'.pc} \cap {"call", "enqueue"} = {},
           proc'.mDataQ = proc.mDataQ,
           driver'.queued = driver.queued, driver'.ready = driver.ready,
           poll' = poll \/ {poll.pc, poll'.pc} \cap {"count", "hand"} = {}
                        \/ (/\ {poll.pc, poll'.pc} \subseteq {"count", "hand"}
                            /\ poll'.buf = poll.buf /\ poll'.of = poll.of)
    PROVE  BufOK(b)'
<1>1. Own(b)' = Own(b)
    BY DEF Own
<1>2. Holders(b)' = Holders(b)
    BY <1>1 DEF Holders, Once
<1>3. OnTheWay(b)' = OnTheWay(b)
    BY <1>1 DEF OnTheWay, Once
<1>4. WithDriver(b)' = WithDriver(b)
    <2>1. InHand(b)' = InHand(b)
        BY DEF InHand
    <2> QED
        BY <2>1 DEF WithDriver, Once
<1> QED
    BY <1>2, <1>3, <1>4 DEF BufOK, Once

LEMMA ProcPipeOK == IInv /\ ProcPipe => IInv'
<1> SUFFICES ASSUME IInv, ProcPipe PROVE IInv'
    OBVIOUS
<1> USE DEF IInv
<1>1. /\ pipe # <<>> /\ pipe' = Tail(pipe) /\ polled' = entry
      /\ UNCHANGED <<ctlVars, driver, bufVars, entry, poll, cmd, proc, held, doing, broken>>
    BY DEF ProcPipe, UpdateFds
<1>2. Types'
    <2>1. pipe' \in Seq(BOOLEAN)
        BY <1>1, HeadTailProperties DEF Types
    <2> QED
        BY <1>1, <2>1 DEF Types, ctlVars, bufVars
<1>3. Sessions' /\ Frames' /\ CmdOK' /\ LockOK'
    BY <1>1 DEF Sessions, Frames, CmdOK, LockOK, Off, Live, ctlVars, bufVars
<1>4. CountOK'
    BY <1>1 DEF CountOK, ctlVars, bufVars
<1>5. ASSUME Live', NEW b \in Bufs PROVE BufOK(b)'
    BY <1>1, <1>5, BufSame DEF Live, ctlVars, bufVars
<1> QED
    BY <1>2, <1>3, <1>4, <1>5

LEMMA PollDataOK == IInv /\ PollData => IInv'
<1> SUFFICES ASSUME IInv, PollData PROVE IInv'
    OBVIOUS
<1> USE DEF IInv
<1>1. /\ poll.pc = "poll" /\ poll'.pc = "notify"
      /\ UNCHANGED <<ctlVars, driver, bufVars, pollVars, cmd, proc, held, doing, broken>>
    BY DEF PollData, Types
<1>2. Types'
    BY <1>1 DEF PollData, Types, ctlVars, bufVars, pollVars
<1>3. Sessions' /\ Frames' /\ CmdOK' /\ LockOK'
    BY <1>1 DEF Sessions, Frames, CmdOK, LockOK, Off, Live, ctlVars, bufVars
<1>4. CountOK'
    BY <1>1 DEF CountOK, Once, ctlVars, bufVars, pollVars
<1>5. ASSUME Live', NEW b \in Bufs PROVE BufOK(b)'
    BY <1>1, <1>5, BufSame DEF Live, ctlVars, bufVars
<1> QED
    BY <1>2, <1>3, <1>4, <1>5

LEMMA CmdExitOK == IInv /\ CmdExit => IInv'
<1> SUFFICES ASSUME IInv, CmdExit PROVE IInv'
    OBVIOUS
<1> USE DEF IInv
<1>1. /\ cmd.pc = "wait" /\ cmd'.pc = "exited" /\ cmd'.queue = cmd.queue /\ cmd'.buf = cmd.buf
      /\ UNCHANGED <<ctlVars, driver, bufVars, pollVars, poll, proc, held, doing, broken>>
    BY DEF CmdExit, Types
<1>2. Types'
    BY <1>1 DEF CmdExit, Types, ctlVars, bufVars, pollVars
<1>3. Sessions' /\ Frames' /\ CmdOK' /\ LockOK'
    BY <1>1 DEF Sessions, Frames, CmdOK, LockOK, Off, Live, NoCmd, ctlVars, bufVars
<1>4. CountOK'
    BY <1>1 DEF CountOK, ctlVars, bufVars, pollVars
<1>5. ASSUME Live', NEW b \in Bufs PROVE BufOK(b)'
    BY <1>1, <1>5, BufSame DEF Live, ctlVars, bufVars
<1> QED
    BY <1>2, <1>3, <1>4, <1>5

LEMMA ProcExitOK == IInv /\ ProcExit => IInv'
<1> SUFFICES ASSUME IInv, ProcExit PROVE IInv'
    OBVIOUS
<1> USE DEF IInv
<1>1. /\ proc'.mDataQ = proc.mDataQ /\ ~proc'.runs
      /\ UNCHANGED <<ctlVars, driver, bufVars, pollVars, poll, cmd, held, doing, broken>>
    BY DEF ProcExit, Types
<1>2. Types'
    BY <1>1 DEF ProcExit, Types, ctlVars, bufVars, pollVars
<1>3. Sessions' /\ Frames' /\ CmdOK' /\ LockOK'
    BY <1>1 DEF Sessions, Frames, CmdOK, LockOK, Off, Live, ctlVars, bufVars
<1>4. CountOK'
    BY <1>1 DEF CountOK, ctlVars, bufVars, pollVars
<1>5. ASSUME Live', NEW b \in Bufs PROVE BufOK(b)'
    BY <1>1, <1>5, BufSame DEF Live, ctlVars, bufVars
<1> QED
    BY <1>2, <1>3, <1>4, <1>5

LEMMA StopOK == IInv /\ Stop => IInv'
<1> SUFFICES ASSUME IInv, Stop PROVE IInv'
    OBVIOUS
<1> USE DEF IInv
<1>1. /\ ctl = "active" /\ ctl' = "del" /\ m_bActive' = FALSE /\ proc'.mDataQ = proc.mDataQ
      /\ UNCHANGED <<session, active, driver, bufVars, pollVars, poll, cmd, held, doing, broken>>
    BY DEF Stop, Types
<1>2. Types'
    BY <1>1 DEF Stop, Types, bufVars, pollVars
<1>3. Sessions' /\ Frames' /\ CmdOK' /\ LockOK'
    BY <1>1 DEF Sessions, Frames, CmdOK, LockOK, Off, Live, bufVars
<1>4. CountOK'
    BY <1>1 DEF CountOK, bufVars, pollVars
<1>5. ASSUME NEW b \in Bufs PROVE BufOK(b)'
    BY <1>1, BufSame DEF Live, bufVars
<1> QED
    BY <1>2, <1>3, <1>4, <1>5

\* The session of a frame is a number.
LEMMA SessionsOf ==
    ASSUME Types
    PROVE  /\ session \in Nat /\ poll.of \in Nat
           /\ \A w \in Workers : doing[w] # None => doing[w] \in Frame /\ doing[w].of \in Nat
           /\ \A i \in DOMAIN proc.mDataQ : proc.mDataQ[i] \in Frame /\ proc.mDataQ[i].of \in Nat
<1>1. /\ session \in Nat /\ poll.of \in Nat /\ proc.mDataQ \in Seq(Frame)
      /\ \A w \in Workers : doing[w] \in Frame \cup {None}
    BY DEF Types
<1>2. \A i \in DOMAIN proc.mDataQ : proc.mDataQ[i] \in Frame
    BY <1>1, ElementOfSeq, LenProperties
<1>3. \A f \in Frame : f.of \in Nat
    BY DEF Frame
<1> QED
    BY <1>1, <1>2, <1>3

LEMMA StartFailsOK == IInv /\ StartFails => IInv'
<1> SUFFICES ASSUME IInv, StartFails PROVE IInv'
    OBVIOUS
<1> USE DEF IInv
<1>1. /\ ctl = "stopped" /\ ctl' = "exited" /\ session' = session + 1 /\ session \in Nat
      /\ proc'.mDataQ = proc.mDataQ /\ proc'.exit
      /\ UNCHANGED <<active, m_bActive, driver, bufVars, pollVars, poll, cmd, held, doing, broken>>
    BY DEF StartFails, Types
<1>2. Types'
    <2>1. proc' \in [runs : BOOLEAN, jobs : Nat, exit : BOOLEAN, mDataQ : Seq(Frame)]
        BY DEF StartFails, Types
    <2> QED
        BY <1>1, <2>1 DEF Types, bufVars, pollVars
<1>3. Sessions' /\ CmdOK' /\ LockOK'
    <2>1. Off /\ Off' /\ ~Live /\ ~Live'
        BY <1>1 DEF Off, Live
    <2> QED
        BY <1>1, <2>1 DEF Sessions, CmdOK, LockOK, bufVars
<1>4. Frames'
    BY <1>1, SessionsOf DEF Frames
<1>5. CountOK'
    BY <1>1 DEF CountOK, bufVars, pollVars
<1>6. ~Live'
    BY <1>1 DEF Live
<1> QED
    BY <1>2, <1>3, <1>4, <1>5, <1>6

LEMMA ProcJoinedOK == IInv /\ ProcJoined => IInv'
<1> SUFFICES ASSUME IInv, ProcJoined PROVE IInv'
    OBVIOUS
<1> USE DEF IInv
<1>1. /\ ctl = "exited" /\ ctl' = "stopped" /\ ~proc.runs
      /\ UNCHANGED <<session, active, m_bActive, driver, bufVars, pollVars, poll, cmd, proc, held, doing, broken>>
    BY DEF ProcJoined
<1>2. Types'
    BY <1>1 DEF Types, bufVars, pollVars
<1>3. Sessions' /\ Frames' /\ CmdOK' /\ LockOK'
    BY <1>1 DEF Sessions, Frames, CmdOK, LockOK, Off, Live, bufVars
<1>4. CountOK' /\ ~Live'
    BY <1>1 DEF CountOK, Live, bufVars, pollVars
<1> QED
    BY <1>2, <1>3, <1>4

-----------------------------------------------------------------------------
(* The poll entries                                                        *)

\* Whoever changes the entry puts a command into the pipe.
LEMMA EntryTold ==
    ASSUME Types, NEW who
    PROVE  /\ DelPollFd(who) \/ DelPollFdAsync(who) =>
                /\ entry' = FALSE /\ pipe' \in Seq(BOOLEAN)
                /\ pipe' # <<>> \/ (pipe' = pipe /\ entry' = entry)
           /\ AddPollFd(who) =>
                entry' = TRUE /\ pipe' \in Seq(BOOLEAN) /\ pipe' # <<>>
<1>1. pipe \in Seq(BOOLEAN) /\ entry \in BOOLEAN
    BY DEF Types
<1>2. \A told \in BOOLEAN : Append(pipe, told) \in Seq(BOOLEAN) /\ Append(pipe, told) # <<>>
    BY <1>1, AppendProperties
<1> QED
    BY <1>1, <1>2 DEF DelPollFd, DelPollFdAsync, AddPollFd, Sig, SigAsync

-----------------------------------------------------------------------------
(* Starting and stopping                                                   *)

LEMMA StopPollingOK == IInv /\ StopPolling => IInv'
<1> SUFFICES ASSUME IInv, StopPolling PROVE IInv'
    OBVIOUS
<1> USE DEF IInv
<1>1. /\ ctl = "del" /\ ctl' = "streamoff"
      /\ UNCHANGED <<session, active, m_bActive, driver, bufVars, polled, poll, cmd, proc, held, doing, broken>>
      /\ entry' = FALSE /\ pipe' \in Seq(BOOLEAN)
      /\ pipe' # <<>> \/ (pipe' = pipe /\ entry' = entry)
    BY EntryTold DEF StopPolling
<1>2. Types'
    <2>1. {active, m_bActive, entry, polled}' \subseteq BOOLEAN
        BY <1>1 DEF Types
    <2> QED
        BY <1>1, <2>1 DEF Types, bufVars
<1>3. Sessions' /\ Frames' /\ CmdOK' /\ LockOK'
    BY <1>1 DEF Sessions, Frames, CmdOK, LockOK, Off, Live, bufVars
<1>4. CountOK'
    BY <1>1 DEF CountOK
<1>5. ASSUME NEW b \in Bufs PROVE BufOK(b)'
    BY <1>1, BufSame DEF Live, bufVars
<1> QED
    BY <1>2, <1>3, <1>4, <1>5

LEMMA StreamOffOK == IInv /\ StreamOff => IInv'
<1> SUFFICES ASSUME IInv, StreamOff PROVE IInv'
    OBVIOUS
<1> USE DEF IInv
<1>1. /\ ctl = "streamoff" /\ ctl' = "release" /\ driver' = NoDriver
      /\ UNCHANGED <<session, active, m_bActive, bufVars, pollVars, poll, cmd, proc, held, doing, broken>>
    BY DEF StreamOff
<1>2. Types'
    BY <1>1 DEF Types, NoDriver, bufVars, pollVars
<1>3. Sessions' /\ Frames' /\ CmdOK' /\ LockOK'
    BY <1>1 DEF Sessions, Frames, CmdOK, LockOK, Off, Live, bufVars
<1>4. CountOK'
    BY <1>1 DEF CountOK, pollVars
<1>5. ASSUME NEW b \in Bufs PROVE BufOK(b)'
    <2>1. BufOK(b)
        BY <1>1 DEF Live
    <2>2. Own(b)' = Own(b)
        BY <1>1 DEF Own
    <2>3. Holders(b)' = Holders(b) /\ OnTheWay(b)' = OnTheWay(b)
        BY <1>1, <2>2 DEF Holders, OnTheWay, Once, bufVars
    <2>4. WithDriver(b)' <= WithDriver(b) /\ WithDriver(b)' \in Nat /\ WithDriver(b) \in Nat
        <3>1. Times(<<>>, b) = 0
            BY TimesOfNothing
        <3>2. Times(driver.ready, b) \in Nat
            BY HoldersAre
        <3>3. driver'.queued = {} /\ driver'.ready = <<>>
            BY <1>1 DEF NoDriver
        <3> DEFINE locked == Once(buf_lock # None /\ doing[buf_lock].buf = b)
        <3>4. /\ Once(InHand(b)') = Once(InHand(b)) /\ Once(b \in driver'.queued) = 0
              /\ Once(buf_lock' # None /\ doing'[buf_lock'].buf = b) = locked
            BY <1>1, <3>3 DEF InHand, Once, bufVars
        <3>5. Once(InHand(b)) \in Nat /\ Once(b \in driver.queued) \in Nat /\ locked \in Nat
            BY DEF Once
        <3>6. WithDriver(b)' = 0 + 0 + Once(InHand(b)) + locked
            BY <3>1, <3>3, <3>4 DEF WithDriver
        <3> QED
            BY <3>2, <3>5, <3>6 DEF WithDriver
    <2> QED
        BY <1>1, <2>1, <2>3, <2>4 DEF BufOK, Once, bufVars
<1> QED
    BY <1>2, <1>3, <1>4, <1>5

LEMMA StreamOnOK == IInv /\ StreamOn => IInv'
<1> SUFFICES ASSUME IInv, StreamOn PROVE IInv'
    OBVIOUS
<1> USE DEF IInv
<1>1. /\ ctl = "streamon" /\ active' = TRUE
      /\ cmd = NoCmd /\ cmd'.pc = "wait" /\ cmd'.buf = cmd.buf /\ cmd'.queue = cmd.queue
      /\ cmd' = [NoCmd EXCEPT !.pc = "wait", !.running = TRUE]
      /\ UNCHANGED <<session, m_bActive, bufVars, polled, poll, proc, held, doing, broken>>
    BY DEF StreamOn, Sessions, Off, NoCmd
<1>2. \/ driver' = [driver EXCEPT !.on = TRUE] /\ ctl' = "active" /\ UNCHANGED <<entry, pipe>>
      \/ /\ ctl' = "release" /\ UNCHANGED driver
         /\ entry' = FALSE /\ pipe' \in Seq(BOOLEAN)
         /\ pipe' # <<>> \/ (pipe' = pipe /\ entry' = entry)
    BY EntryTold DEF StreamOn
<1>3. driver'.queued = driver.queued /\ driver'.ready = driver.ready
    BY <1>2 DEF Types
<1>4. Types'
    <2>1. /\ cmd' \in [pc : {"off", "wait", "call", "enqueue", "done", "exited"}, buf : Bufs \cup {None},
                queue : Seq(Bufs \cup {"EXIT"}), running : BOOLEAN]
          /\ driver' \in [queued : SUBSET Bufs, ready : Seq(Bufs), on : BOOLEAN]
        BY <1>1, <1>2 DEF Types, NoCmd
    <2>2. {active, m_bActive, entry, polled}' \subseteq BOOLEAN /\ pipe' \in Seq(BOOLEAN)
        BY <1>1, <1>2 DEF Types
    <2>3. ctl' \in {"active", "release"}
        BY <1>2
    <2> QED
        BY <1>1, <2>1, <2>2, <2>3 DEF Types, bufVars
<1>5. Sessions' /\ CmdOK' /\ LockOK'
    BY <1>1, <1>2 DEF Sessions, CmdOK, LockOK, Off, Live, NoCmd, bufVars
<1>6. Frames'
    <2>1. session' = session /\ poll' = poll /\ doing' = doing /\ proc' = proc /\ ctl' # "streamon"
        BY <1>1, <1>2
    <2> QED
        BY <2>1 DEF Frames
<1>7. CountOK'
    BY <1>1, <1>2, <1>3 DEF CountOK, bufVars
<1>8. ASSUME NEW b \in Bufs PROVE BufOK(b)'
    <2>1. BufOK(b) /\ {cmd.pc, cmd'.pc} \cap {"call", "enqueue"} = {}
        BY <1>1 DEF Live, NoCmd
    <2> QED
        BY <1>1, <1>3, <2>1, BufSame DEF bufVars
<1> QED
    BY <1>4, <1>5, <1>6, <1>7, <1>8

LEMMA ReleaseCmdOK == IInv /\ ReleaseCmd => IInv'
<1> SUFFICES ASSUME IInv, ReleaseCmd PROVE IInv'
    OBVIOUS
<1> USE DEF IInv
<1>1. /\ ctl = "release" /\ ctl' = "join"
      /\ cmd.queue \in Seq(Bufs \cup {"EXIT"}) /\ cmd'.queue = Append(cmd.queue, "EXIT")
      /\ cmd'.pc = cmd.pc /\ cmd'.buf = cmd.buf
      /\ UNCHANGED <<session, active, m_bActive, driver, bufVars, pollVars, poll, proc, held, doing, broken>>
    BY DEF ReleaseCmd, Types
<1>2. Types'
    <2>1. Append(cmd.queue, "EXIT") \in Seq(Bufs \cup {"EXIT"})
        BY <1>1, AppendProperties
    <2>2. cmd' \in [pc : {"off", "wait", "call", "enqueue", "done", "exited"}, buf : Bufs \cup {None},
                queue : Seq(Bufs \cup {"EXIT"}), running : BOOLEAN]
        BY <2>1 DEF ReleaseCmd, Types
    <2> QED
        BY <1>1, <2>2 DEF Types, bufVars, pollVars
<1>3. Sessions' /\ Frames' /\ CmdOK' /\ LockOK'
    BY <1>1 DEF Sessions, Frames, CmdOK, LockOK, Off, Live, bufVars
<1>4. CountOK'
    BY <1>1 DEF CountOK, pollVars
<1>5. ASSUME NEW b \in Bufs PROVE BufOK(b)'
    <2>1. BufOK(b)
        BY <1>1 DEF Live
    <2>2. Own(b)' = Own(b)
        BY <1>1 DEF Own
    <2>3. Times(cmd'.queue, b) = Times(cmd.queue, b)
        <3>1. "EXIT" \in Bufs \cup {"EXIT"} /\ "EXIT" # b
            BY StreamAssumption
        <3>2. /\ Times(cmd.queue, b) \in Nat
              /\ Times(Append(cmd.queue, "EXIT"), b)
                    = Times(cmd.queue, b) + (IF "EXIT" = b THEN 1 ELSE 0)
            <4> DEFINE All == Bufs \cup {"EXIT"}
            <4>1. cmd.queue \in Seq(All) /\ "EXIT" \in All
                BY <1>1
            <4> HIDE DEF All
            <4> QED
                BY <4>1, TimesAppended
        <3> QED
            BY <1>1, <3>1, <3>2
    <2>4. Holders(b)' = Holders(b)
        BY <1>1, <2>2, <2>3 DEF Holders, Once, bufVars
    <2>5. OnTheWay(b)' = OnTheWay(b)
        BY <1>1, <2>2, <2>3 DEF OnTheWay, Once
    <2>6. WithDriver(b)' = WithDriver(b)
        BY <1>1 DEF WithDriver, InHand, Once, bufVars
    <2> QED
        BY <1>1, <2>1, <2>4, <2>5, <2>6 DEF BufOK, Once, bufVars
<1> QED
    BY <1>2, <1>3, <1>4, <1>5

LEMMA UnregisterOK == IInv /\ Unregister => IInv'
<1> SUFFICES ASSUME IInv, Unregister PROVE IInv'
    OBVIOUS
<1> USE DEF IInv
<1>1. /\ ctl = "join" /\ ctl' \in {"exited", "stopped"} /\ buf_lock = None
      /\ cmd' = NoCmd /\ active' = FALSE /\ m_bActive' = FALSE /\ driver' = NoDriver
      /\ buf_refcnt' = [b \in Bufs |-> 0] /\ held' = {}
      /\ proc'.mDataQ = proc.mDataQ
      /\ proc'.runs => ctl' = "exited" /\ proc'.exit
      /\ UNCHANGED <<session, queued_buffer_count, buf_lock, refused, pollVars, poll, doing, broken>>
    BY DEF Unregister, LockFree, Types
<1>2. Types'
    <2>1. /\ cmd' \in [pc : {"off", "wait", "call", "enqueue", "done", "exited"}, buf : Bufs \cup {None},
                queue : Seq(Bufs \cup {"EXIT"}), running : BOOLEAN]
          /\ driver' \in [queued : SUBSET Bufs, ready : Seq(Bufs), on : BOOLEAN]
          /\ buf_refcnt' \in [Bufs -> Nat]
        BY <1>1 DEF NoCmd, NoDriver
    <2>2. proc' \in [runs : BOOLEAN, jobs : Nat, exit : BOOLEAN, mDataQ : Seq(Frame)]
        BY DEF Types, Unregister
    <2> QED
        BY <1>1, <2>1, <2>2 DEF Types, pollVars
<1>3. Sessions' /\ CmdOK' /\ LockOK' /\ CountOK' /\ ~Live'
    <2>1. driver'.on = FALSE /\ driver'.ready = <<>>
        BY <1>1 DEF NoDriver
    <2> QED
        BY <1>1, <2>1 DEF Sessions, CmdOK, LockOK, CountOK, Off, Live, NoCmd, pollVars
<1>4. Frames'
    BY <1>1 DEF Frames
<1> QED
    BY <1>2, <1>3, <1>4

LEMMA FillOK == IInv /\ Fill => IInv'
<1> SUFFICES ASSUME IInv, Fill PROVE IInv'
    OBVIOUS
<1> USE DEF IInv
<1>1. PICK f \in driver.queued :
        driver' = [driver EXCEPT !.queued = @ \ {f}, !.ready = Append(@, f)]
    BY DEF Fill
<1>2. /\ driver.on /\ driver.ready \in Seq(Bufs) /\ driver.queued \subseteq Bufs /\ f \in Bufs
      /\ driver'.queued = driver.queued \ {f} /\ driver'.ready = Append(driver.ready, f)
      /\ driver'.on = driver.on
      /\ UNCHANGED <<ctlVars, bufVars, pollVars, poll, cmd, proc, held, doing, broken>>
    BY <1>1 DEF Fill, Types
<1>3. Types'
    <2>1. driver'.ready \in Seq(Bufs)
        BY <1>2, AppendProperties
    <2>2. driver' \in [queued : SUBSET Bufs, ready : Seq(Bufs), on : BOOLEAN]
        BY <1>1, <1>2, <2>1 DEF Types
    <2> QED
        BY <1>2, <2>2 DEF Types, ctlVars, bufVars, pollVars
<1>4. Live /\ Live'
    BY <1>2 DEF Sessions, NoDriver, Live, ctlVars
<1>5. Sessions' /\ Frames' /\ CmdOK' /\ LockOK'
    BY <1>2, <1>4 DEF Sessions, Frames, CmdOK, LockOK, Off, Live, ctlVars, bufVars
<1>6. CountOK'
    <2>1. /\ Cardinality(driver'.queued) = Cardinality(driver.queued) - 1
          /\ Cardinality(driver.queued) \in Nat
        <3>1. IsFiniteSet(driver.queued)
            BY <1>2, FS_Subset, StreamAssumption
        <3>2. /\ Cardinality(driver.queued) \in Nat
              /\ Cardinality(driver.queued \ {f}) = Cardinality(driver.queued) - 1
            BY <1>2, <3>1, FS_RemoveElement, FS_CardinalityType
        <3> QED
            BY <1>2, <3>2
    <2>2. Len(driver'.ready) = Len(driver.ready) + 1 /\ Len(driver.ready) \in Nat
        BY <1>2, AppendProperties, LenProperties
    <2> QED
        BY <1>2, <2>1, <2>2 DEF CountOK, Once, ctlVars, bufVars, pollVars
<1>7. ASSUME NEW b \in Bufs PROVE BufOK(b)'
    <2>1. BufOK(b)
        BY <1>4
    <2>2. Own(b)' = Own(b)
        BY <1>2 DEF Own, ctlVars
    <2>3. Holders(b)' = Holders(b) /\ OnTheWay(b)' = OnTheWay(b)
        BY <1>2, <2>2 DEF Holders, OnTheWay, Once, bufVars
    <2>4. WithDriver(b)' = WithDriver(b)
        <3>1. /\ Times(driver.ready, b) \in Nat
              /\ Times(driver'.ready, b) = Times(driver.ready, b) + (IF f = b THEN 1 ELSE 0)
            BY <1>2, TimesAppended
        <3>2. Once(b \in driver'.queued) + Times(driver'.ready, b)
                = Once(b \in driver.queued) + Times(driver.ready, b)
            BY <1>2, <3>1 DEF Once
        <3>3. InHand(b)' = InHand(b)
            BY <1>2 DEF InHand, ctlVars
        <3> QED
            BY <1>2, <3>2, <3>3 DEF WithDriver, bufVars
    <2> QED
        BY <1>2, <2>1, <2>3, <2>4 DEF BufOK, bufVars
<1> QED
    BY <1>3, <1>4, <1>5, <1>6, <1>7

\* Frames of this session, and others.
LEMMA Owned ==
    ASSUME NEW b \in Bufs, session \in Nat
    PROVE  /\ Own(b) \in Frame /\ Own(b) # None /\ Own(b).buf = b /\ Own(b).of = session
           /\ \A f \in Frame : f = Own(b) <=> f.buf = b /\ f.of = session
BY StreamAssumption DEF Own, Frame

LEMMA StartOK == IInv /\ Start => IInv'
<1> SUFFICES ASSUME IInv, Start PROVE IInv'
    OBVIOUS
<1> USE DEF IInv
<1>1. /\ ctl = "stopped" /\ ctl' = "streamon" /\ session' = session + 1 /\ session \in Nat
      /\ m_bActive' = TRUE /\ proc' = [proc EXCEPT !.runs = TRUE] /\ proc'.mDataQ = proc.mDataQ
      /\ buf_refcnt' = [b \in Bufs |-> IF b \in Initial THEN 0 ELSE 1]
      /\ held' = {[via |-> "hal", buf |-> b] : b \in Bufs \ Initial}
      /\ driver' = [NoDriver EXCEPT !.queued = Initial]
      /\ driver'.queued = Initial /\ driver'.ready = <<>>
      /\ queued_buffer_count' = Cardinality(Initial) /\ refused' = 0
      /\ entry' = TRUE /\ pipe' \in Seq(BOOLEAN) /\ pipe' # <<>>
      /\ UNCHANGED <<active, buf_lock, polled, poll, cmd, doing, broken>>
    BY EntryTold DEF Start, Types, NoDriver
<1>2. /\ Off /\ Off' /\ Live' /\ ~Live /\ buf_lock = None /\ cmd = NoCmd
    BY <1>1 DEF Off, Live, LockOK, Sessions
<1>3. IsFiniteSet(Initial) /\ Cardinality(Initial) \in Nat /\ Cardinality(Initial) > 0
    <2>1. IsFiniteSet(Initial) /\ Cardinality(Initial) \in Nat
        BY StreamAssumption, FS_Subset, FS_CardinalityType
    <2> QED
        BY <2>1, StreamAssumption, FS_EmptySet
<1>4. Types'
    <2>1. driver' \in [queued : SUBSET Bufs, ready : Seq(Bufs), on : BOOLEAN]
        <3>1. driver' = [queued |-> Initial, ready |-> <<>>, on |-> FALSE]
            BY <1>1 DEF NoDriver
        <3>2. <<>> \in Seq(Bufs) /\ Initial \in SUBSET Bufs
            BY StreamAssumption
        <3> QED
            BY <3>1, <3>2
    <2>5. buf_refcnt' \in [Bufs -> Nat]
        BY <1>1
    <2>4. held' \subseteq [via : {"bundle", "hal"}, buf : Bufs]
        BY <1>1
    <2>2. proc' \in [runs : BOOLEAN, jobs : Nat, exit : BOOLEAN, mDataQ : Seq(Frame)]
        BY <1>1 DEF Types
    <2>3. session' \in Nat /\ queued_buffer_count' \in Int /\ refused' \in Nat
        BY <1>1, <1>3
    <2> QED
        BY <1>1, <2>1, <2>2, <2>3, <2>4, <2>5 DEF Types
<1>5. Sessions' /\ CmdOK' /\ LockOK'
    BY <1>1, <1>2 DEF Sessions, CmdOK, LockOK
<1>6. Frames'
    BY <1>1, SessionsOf DEF Frames
<1>7. CountOK'
    <2>1. ~(poll.pc = "count" /\ poll.of = session')
        BY <1>1, SessionsOf DEF Frames
    <2>2. /\ Once(poll'.pc = "count" /\ poll'.of = session') = 0
          /\ Once(buf_lock' # None) = 0 /\ Len(driver'.ready) = 0
        BY <1>1, <1>2, <2>1 DEF Once
    <2> QED
        <3>1. /\ queued_buffer_count' = Cardinality(driver'.queued) + 0 + 0 + 0 + refused'
              /\ entry' = TRUE /\ queued_buffer_count' > 0 /\ pipe' # <<>>
            BY <1>1, <1>3
        <3> QED
            BY <2>2, <3>1 DEF CountOK
<1>8. ASSUME NEW b \in Bufs PROVE BufOK(b)'
    <2>1. Own(b)' \in Frame /\ Own(b)' # None /\ Own(b)'.of = session + 1
        BY <1>1, StreamAssumption DEF Own, Frame
    <2>2. Times(proc'.mDataQ, Own(b)') = 0
        <3>1. \A p \in DOMAIN proc.mDataQ : proc.mDataQ[p] # Own(b)'
            BY <1>1, <2>1, SessionsOf DEF Frames
        <3> QED
            BY <1>1, <3>1, TimesOfNone
    <2>3. \A w \in Workers : Giving(doing', buf_lock', Own(b)', w) = 0
        <3>1. \A w \in Workers : doing[w] # Own(b)'
            BY <1>1, <2>1, SessionsOf DEF Frames
        <3> QED
            BY <1>1, <3>1 DEF Giving
    <2>4. cmd'.queue = <<>> /\ cmd'.buf = None /\ None # b /\ Times(<<>>, b) = 0
        BY <1>1, <1>2, StreamAssumption, TimesOfNothing DEF NoCmd
    <2>5. Bundle(b) \notin held' /\ (Hal(b) \in held' <=> b \notin Initial)
        BY <1>1 DEF Bundle, Hal
    <2>6. Holders(b)' = buf_refcnt'[b]
        <3>1. Holders(b)' = Refs(held', cmd', proc'.mDataQ, doing', buf_lock', Own(b)', b)
            BY <1>4, HoldersBecome
        <3> QED
            BY <1>1, <2>2, <2>3, <2>4, <2>5, <3>1 DEF Refs, Workers
    <2>7. ~InHand(b)'
        BY <1>1, SessionsOf DEF InHand, Frames
    <2>8. WithDriver(b)' = IF b \in Initial THEN 1 ELSE 0
        BY <1>1, <1>2, <2>4, <2>7 DEF WithDriver, Once
    <2>9. OnTheWay(b)' <= 1
        BY <1>1, <2>2, <2>4, <2>5 DEF OnTheWay, Once, Hal
    <2> QED
        BY <1>1, <2>6, <2>8, <2>9 DEF BufOK, Once
<1> QED
    BY <1>4, <1>5, <1>6, <1>7, <1>8

\* Nothing but the driver and the poll entries remembers it.
LEMMA RegFailsOK == IInv /\ RegFails => IInv'
<1> SUFFICES ASSUME IInv, RegFails PROVE IInv'
    OBVIOUS
<1> USE DEF IInv
<1>1. /\ ctl = "stopped" /\ ctl' = "exited" /\ session' = session + 1 /\ session \in Nat
      /\ proc'.mDataQ = proc.mDataQ /\ proc'.exit
      /\ UNCHANGED <<active, m_bActive, buf_refcnt, buf_lock, polled, poll, cmd, held, doing, broken>>
    BY DEF RegFails, Types
<1>2. PICK taken \in SUBSET Initial \ {Initial}, not_taken \in {0, 1} :
        LET count == Cardinality(taken) + not_taken IN
        /\ driver' = [NoDriver EXCEPT !.queued = taken]
        /\ refused' = not_taken
        /\ queued_buffer_count' = count
        /\ IF count > 0 THEN AddPollFd("ctl") ELSE UNCHANGED <<entry, pipe, waiting>>
    BY DEF RegFails
<1>3. Cardinality(taken) \in Nat /\ taken \subseteq Bufs
    <2>1. taken \subseteq Bufs /\ IsFiniteSet(Bufs)
        BY StreamAssumption
    <2> QED
        BY <2>1, FS_Subset, FS_CardinalityType
<1>4. /\ driver' = [queued |-> taken, ready |-> <<>>, on |-> FALSE]
      /\ queued_buffer_count' \in Int /\ refused' \in Nat
      /\ entry' \in BOOLEAN /\ pipe' \in Seq(BOOLEAN)
      /\ pipe' # <<>> \/ (pipe' = pipe /\ entry' = entry)
    <2>1. driver' = [queued |-> taken, ready |-> <<>>, on |-> FALSE]
        BY <1>2 DEF NoDriver
    <2>2. queued_buffer_count' \in Int /\ refused' \in Nat
        BY <1>2, <1>3
    <2>3. AddPollFd("ctl") \/ UNCHANGED <<entry, pipe, waiting>>
        BY <1>2
    <2>4. /\ entry' \in BOOLEAN /\ pipe' \in Seq(BOOLEAN)
          /\ pipe' # <<>> \/ (pipe' = pipe /\ entry' = entry)
        BY <2>3, EntryTold DEF Types
    <2> QED
        BY <2>1, <2>2, <2>4
<1>5. Types'
    <2>1. proc' \in [runs : BOOLEAN, jobs : Nat, exit : BOOLEAN, mDataQ : Seq(Frame)]
        BY DEF RegFails, Types
    <2>2. <<>> \in Seq(Bufs)
        BY EmptySeq
    <2>3. driver' \in [queued : SUBSET Bufs, ready : Seq(Bufs), on : BOOLEAN]
        BY <1>3, <1>4, <2>2
    <2>4. {active, m_bActive, entry, polled}' \subseteq BOOLEAN
        BY <1>1, <1>4 DEF Types
    <2>5. /\ ctl' \in {"exited"} /\ session' \in Nat
          /\ buf_refcnt' \in [Bufs -> Nat] /\ buf_lock' \in Workers \cup {None}
        BY <1>1 DEF Types
    <2>6. /\ UNCHANGED <<poll, cmd, held, doing>>
          /\ queued_buffer_count' \in Int /\ refused' \in Nat /\ pipe' \in Seq(BOOLEAN)
        BY <1>1, <1>4
    <2> QED
        BY <2>1, <2>3, <2>4, <2>5, <2>6 DEF Types
<1>6. Sessions' /\ CmdOK' /\ LockOK'
    <2>1. Off /\ Off' /\ ~Live /\ ~Live'
        BY <1>1 DEF Off, Live
    <2>2. ~driver'.on /\ driver'.ready = <<>>
        BY <1>4
    <2> QED
        BY <1>1, <2>1, <2>2 DEF Sessions, CmdOK, LockOK
<1>7. Frames'
    BY <1>1, SessionsOf DEF Frames
<1>8. CountOK' /\ ~Live'
    BY <1>1, <1>4 DEF CountOK, Live
<1> QED
    BY <1>5, <1>6, <1>7, <1>8

-----------------------------------------------------------------------------
(* The poll thread                                                         *)

LEMMA DqbufOK == IInv /\ Dqbuf => IInv'
<1> SUFFICES ASSUME IInv, Dqbuf PROVE IInv'
    OBVIOUS
<1> USE DEF IInv
<1>1. /\ poll.pc = "notify"
      /\ UNCHANGED <<ctlVars, bufVars, pollVars, cmd, proc, held, doing, broken>>
    BY DEF Dqbuf
<1>2. CASE ~(entry /\ active /\ driver.on /\ driver.ready # <<>>)
    <2>1. poll' = [poll EXCEPT !.pc = "poll"] /\ poll'.pc = "poll" /\ UNCHANGED driver
        BY <1>2 DEF Dqbuf, Types
    <2>2. Types'
        <3>1. {active, m_bActive, entry, polled}' \subseteq BOOLEAN
            BY <1>1 DEF Types, ctlVars, pollVars
        <3>2. poll' \in [pc : {"poll", "notify", "count", "hand"}, buf : Bufs \cup {None}, of : Nat]
            BY <2>1 DEF Types
        <3> QED
            BY <1>1, <2>1, <3>1, <3>2 DEF Types, ctlVars, bufVars, pollVars
    <2>3. Sessions' /\ Frames' /\ CmdOK' /\ LockOK'
        BY <1>1, <2>1 DEF Sessions, Frames, CmdOK, LockOK, Off, Live, ctlVars, bufVars
    <2>4. CountOK'
        BY <1>1, <2>1 DEF CountOK, Once, ctlVars, bufVars, pollVars
    <2>5. ASSUME Live', NEW b \in Bufs PROVE BufOK(b)'
        BY <1>1, <2>1, <2>5, BufSame DEF Live, ctlVars, bufVars
    <2> QED
        BY <2>2, <2>3, <2>4, <2>5
<1>3. CASE entry /\ active /\ driver.on /\ driver.ready # <<>>
    <2> DEFINE f == Head(driver.ready)
    <2>1. /\ driver.ready \in Seq(Bufs) /\ driver.ready # <<>>
          /\ f \in Bufs /\ Tail(driver.ready) \in Seq(Bufs)
          /\ Len(driver.ready) \in Nat /\ Len(Tail(driver.ready)) = Len(driver.ready) - 1
        BY <1>3, HeadTailProperties, LenProperties DEF Types
    <2>2. /\ poll' = [pc |-> "count", buf |-> f, of |-> session]
          /\ poll'.pc = "count" /\ poll'.buf = f /\ poll'.of = session
          /\ driver'.ready = Tail(driver.ready) /\ driver'.queued = driver.queued
          /\ driver' = [driver EXCEPT !.ready = Tail(@)]
        <3>1. /\ poll' = [pc |-> "count", buf |-> f, of |-> session]
              /\ driver' = [driver EXCEPT !.ready = Tail(@)]
            BY <1>3 DEF Dqbuf
        <3>2. driver \in [queued : SUBSET Bufs, ready : Seq(Bufs), on : BOOLEAN]
            BY DEF Types
        <3> HIDE DEF f
        <3> QED
            BY <3>1, <3>2
    <2>3. ~Off /\ ~Off' /\ Live /\ Live' /\ session \in Nat /\ ctl' # "streamon"
        BY <1>1, <1>3 DEF Sessions, Off, Live, Types, ctlVars
    <2>4. Types'
        <3>1. /\ driver' \in [queued : SUBSET Bufs, ready : Seq(Bufs), on : BOOLEAN]
              /\ poll' \in [pc : {"poll", "notify", "count", "hand"}, buf : Bufs \cup {None}, of : Nat]
            BY <2>1, <2>2, <2>3 DEF Types
        <3> QED
            BY <1>1, <3>1 DEF Types, ctlVars, bufVars, pollVars
    <2>5. Sessions' /\ Frames' /\ CmdOK' /\ LockOK'
        BY <1>1, <2>1, <2>2, <2>3 DEF Sessions, Frames, CmdOK, LockOK, ctlVars, bufVars
    <2>6. CountOK'
        <3>1. Cardinality(driver.queued) \in Nat
            BY FS_Subset, FS_CardinalityType, StreamAssumption DEF Types
        <3> QED
            BY <1>1, <2>1, <2>2, <3>1 DEF CountOK, Once, ctlVars, bufVars, pollVars
    <2>7. ASSUME NEW b \in Bufs PROVE BufOK(b)'
        <3>1. BufOK(b)
            BY <2>3
        <3>2. Own(b)' = Own(b)
            BY <1>1 DEF Own, ctlVars
        <3>3. Holders(b)' = Holders(b) /\ OnTheWay(b)' = OnTheWay(b)
            BY <1>1, <3>2 DEF Holders, OnTheWay, Once, bufVars
        <3>4. WithDriver(b)' = WithDriver(b)
            <4>1. /\ Times(Tail(driver.ready), b) \in Nat
                  /\ Times(driver.ready, b)
                        = Times(Tail(driver.ready), b) + (IF f = b THEN 1 ELSE 0)
                BY <2>1, TimesTaken
            <4>2. ~InHand(b) /\ (InHand(b)' <=> f = b)
                BY <1>1, <2>2 DEF InHand, ctlVars
            <4>3. /\ Once(InHand(b)') = IF f = b THEN 1 ELSE 0
                  /\ Once(InHand(b)) = 0
                BY <4>2 DEF Once
            <4>4. Times(driver'.ready, b) + Once(InHand(b)') = Times(driver.ready, b) + Once(InHand(b))
                BY <2>2, <4>1, <4>3
            <4> QED
                BY <1>1, <2>2, <4>1, <4>3, <4>4 DEF WithDriver, Once, bufVars
        <3> QED
            BY <1>1, <3>1, <3>3, <3>4 DEF BufOK, Once, bufVars
    <2> QED
        BY <2>3, <2>4, <2>5, <2>6, <2>7
<1> QED
    BY <1>2, <1>3

LEMMA CountFrameOK == IInv /\ broken = "none" /\ CountFrame => IInv'
<1> SUFFICES ASSUME IInv, broken = "none", CountFrame PROVE IInv'
    OBVIOUS
<1> USE DEF IInv
<1>1. /\ poll.pc = "count" /\ buf_lock = None
      /\ queued_buffer_count' = queued_buffer_count - 1
      /\ poll' = [poll EXCEPT !.pc = "hand"]
      /\ poll'.pc = "hand" /\ poll'.buf = poll.buf /\ poll'.of = poll.of
      /\ UNCHANGED <<ctlVars, driver, buf_refcnt, buf_lock, refused, polled, cmd, proc, held, doing>>
    BY DEF CountFrame, LockFree, Types
<1>2. /\ entry' \in BOOLEAN /\ pipe' \in Seq(BOOLEAN)
      /\ pipe' # <<>> \/ (pipe' = pipe /\ entry' = entry)
      /\ queued_buffer_count = 1 => entry' = FALSE
      /\ queued_buffer_count # 1 => entry' = entry
    BY EntryTold DEF CountFrame, Types
<1>3. Types'
    <2>1. poll' \in [pc : {"poll", "notify", "count", "hand"}, buf : Bufs \cup {None}, of : Nat]
        BY <1>1 DEF Types
    <2>2. queued_buffer_count' \in Int
        BY <1>1 DEF Types
    <2>3. {active, m_bActive, entry, polled}' \subseteq BOOLEAN
        BY <1>1, <1>2 DEF Types, ctlVars
    <2>4. UNCHANGED <<ctl, session, driver, buf_refcnt, buf_lock, refused, cmd, proc, held, doing>>
        BY <1>1 DEF ctlVars
    <2> QED
        BY <1>2, <2>1, <2>2, <2>3, <2>4 DEF Types
<1>4. Sessions' /\ Frames' /\ CmdOK' /\ LockOK'
    BY <1>1 DEF Sessions, Frames, CmdOK, LockOK, Off, Live, ctlVars
<1>5. CountOK'
    <2>1. polled' # entry' => pipe' # <<>>
        BY <1>1, <1>2 DEF CountOK
    <2>2. ASSUME ctl \in {"streamon", "active", "del"}, broken' = "none"
          PROVE  /\ queued_buffer_count' = Cardinality(driver.queued) + Len(driver.ready) + refused
                 /\ entry' <=> queued_buffer_count' > 0
        <3>1. poll.of = session
            BY <2>2 DEF CountFrame, Over
        <3>2. /\ Cardinality(driver.queued) \in Nat /\ Len(driver.ready) \in Nat
              /\ refused \in Nat
            BY FS_Subset, FS_CardinalityType, LenProperties, StreamAssumption DEF Types
        <3>3. queued_buffer_count = Cardinality(driver.queued) + Len(driver.ready) + 1 + refused
            BY <1>1, <2>2, <3>1, <3>2 DEF CountOK, Once
        <3> QED
            BY <1>1, <1>2, <2>2, <3>2, <3>3 DEF CountOK
    <2>3. /\ Cardinality(driver.queued) \in Nat /\ Len(driver.ready) \in Nat
          /\ refused \in Nat
        BY FS_Subset, FS_CardinalityType, LenProperties, StreamAssumption DEF Types
    <2> QED
        BY <1>1, <2>1, <2>2, <2>3 DEF CountOK, Once, ctlVars
<1>6. ASSUME Live', NEW b \in Bufs PROVE BufOK(b)'
    BY <1>1, <1>6, BufSame DEF Live, ctlVars
<1> QED
    BY <1>3, <1>4, <1>5, <1>6

LEMMA HandFrameOK == IInv /\ broken = "none" /\ HandFrame => IInv'
<1> SUFFICES ASSUME IInv, broken = "none", HandFrame PROVE IInv'
    OBVIOUS
<1> DEFINE f == poll.buf
<1> USE DEF IInv
<1>1. /\ poll.pc = "hand" /\ buf_lock = None /\ f \in Bufs
      /\ poll' = [pc |-> "poll", buf |-> None, of |-> session] /\ poll'.pc = "poll"
      /\ UNCHANGED <<ctlVars, driver, queued_buffer_count, buf_lock, refused, pollVars, proc, doing>>
    BY DEF HandFrame, LockFree, Frames
<1>2. poll' \in [pc : {"poll", "notify", "count", "hand"}, buf : Bufs \cup {None}, of : Nat]
    BY <1>1 DEF Types
<1>3. Frames' /\ LockOK'
    BY <1>1 DEF Frames, LockOK, ctlVars
<1>4. CASE Over(poll.of)
    <2>1. broken' # "none" /\ UNCHANGED <<buf_refcnt, held, cmd>>
        BY <1>4 DEF HandFrame
    <2>2. Types'
        BY <1>1, <1>2, <2>1 DEF Types, ctlVars, pollVars
    <2>3. Sessions' /\ CmdOK'
        BY <1>1, <2>1 DEF Sessions, CmdOK, Off, Live, ctlVars
    <2>4. CountOK'
        BY <1>1, <2>1 DEF CountOK, pollVars
    <2>5. ASSUME Live', NEW b \in Bufs PROVE BufOK(b)'
        <3>1. ~InHand(b) /\ ~InHand(b)' /\ BufOK(b)
            BY <1>1, <1>4, <2>5 DEF InHand, Over, Live, ctlVars
        <3>2. Own(b)' = Own(b)
            BY <1>1 DEF Own, ctlVars
        <3>3. Holders(b)' = Holders(b) /\ OnTheWay(b)' = OnTheWay(b)
            BY <1>1, <2>1, <3>2 DEF Holders, OnTheWay, Once
        <3>4. WithDriver(b)' = WithDriver(b)
            BY <1>1, <3>1 DEF WithDriver, Once
        <3> QED
            BY <2>1, <3>1, <3>3, <3>4 DEF BufOK, Once
    <2> QED
        BY <1>3, <2>2, <2>3, <2>4, <2>5
<1>5. CASE ~Over(poll.of)
    <2>1. /\ poll.of = session /\ Live /\ ctl # "streamon" /\ ~Off
          /\ session \in Nat /\ Live'
        BY <1>1, <1>5 DEF Over, Live, Off, Frames, Types, ctlVars
    <2>2. /\ buf_refcnt' = [buf_refcnt EXCEPT ![f] = @ + References]
          /\ held' = IF is_bundled THEN held \cup {Bundle(f)} ELSE held
          /\ cmd' = [cmd EXCEPT !.queue = Append(@, f)]
          /\ broken' = broken
        BY <1>5 DEF HandFrame, Bundle
    <2>3. /\ cmd.queue \in Seq(Bufs \cup {"EXIT"})
          /\ cmd'.queue = Append(cmd.queue, f) /\ Append(cmd.queue, f) \in Seq(Bufs \cup {"EXIT"})
          /\ cmd'.pc = cmd.pc /\ cmd'.buf = cmd.buf /\ cmd'.running = cmd.running
          /\ \A b \in Bufs :
                /\ Times(cmd.queue, b) \in Nat
                /\ Times(Append(cmd.queue, f), b) = Times(cmd.queue, b) + (IF f = b THEN 1 ELSE 0)
        <3> DEFINE All == Bufs \cup {"EXIT"}
        <3>1. cmd.queue \in Seq(All) /\ f \in All
            BY <1>1 DEF Types
        <3> HIDE DEF All, f
        <3>2. /\ Append(cmd.queue, f) \in Seq(All)
              /\ \A b \in Bufs :
                    /\ Times(cmd.queue, b) \in Nat
                    /\ Times(Append(cmd.queue, f), b) = Times(cmd.queue, b) + (IF f = b THEN 1 ELSE 0)
            BY <3>1, TimesAppended
        <3>3. /\ cmd'.queue = Append(cmd.queue, f)
              /\ cmd'.pc = cmd.pc /\ cmd'.buf = cmd.buf /\ cmd'.running = cmd.running
            BY <2>2 DEF Types
        <3> QED
            BY <3>1, <3>2, <3>3 DEF All
    <2>4. buf_refcnt[f] = 0
        <3>1. BufOK(f) /\ InHand(f)
            BY <1>1, <2>1 DEF InHand
        <3>2. Times(driver.ready, f) \in Nat
            BY <1>1, HoldersAre
        <3> QED
            BY <3>1, <3>2 DEF BufOK, WithDriver, Once
    <2>5. Types'
        <3>1. /\ cmd' \in [pc : {"off", "wait", "call", "enqueue", "done", "exited"}, buf : Bufs \cup {None},
                    queue : Seq(Bufs \cup {"EXIT"}), running : BOOLEAN]
            BY <2>2, <2>3 DEF Types
        <3>2. held' \subseteq [via : {"bundle", "hal"}, buf : Bufs]
            BY <1>1, <2>2 DEF Types, Bundle
        <3>3. buf_refcnt' \in [Bufs -> Nat]
            <4>1. buf_refcnt \in [Bufs -> Nat] /\ References \in Nat
                BY DEF Types, References
            <4>2. buf_refcnt[f] + References \in Nat
                BY <1>1, <4>1
            <4> HIDE DEF f
            <4> QED
                BY <2>2, <4>1, <4>2
        <3> QED
            BY <1>1, <1>2, <3>1, <3>2, <3>3 DEF Types, ctlVars, pollVars
    <2>6. Sessions' /\ CmdOK'
        BY <1>1, <2>1, <2>3 DEF Sessions, CmdOK, Off, Live, ctlVars
    <2>7. CountOK'
        BY <1>1, <2>2 DEF CountOK, Once, ctlVars, pollVars
    <2>8. ASSUME NEW b \in Bufs PROVE BufOK(b)'
        <3>1. BufOK(b) /\ Own(b)' = Own(b)
            BY <1>1, <2>1 DEF Own, ctlVars
        <3>2. /\ Holders(b) = Refs(held, cmd, proc.mDataQ, doing, buf_lock, Own(b), b)
              /\ Holders(b)' = Refs(held', cmd', proc.mDataQ, doing, buf_lock, Own(b), b)
              /\ Times(proc.mDataQ, Own(b)) \in Nat /\ Times(driver.ready, b) \in Nat
            BY <1>1, <2>5, <3>1, HoldersAre, HoldersBecome
        <3>3. \A w \in {"cmd", "proc", "user"} : Giving(doing, buf_lock, Own(b), w) \in Nat
            BY DEF Giving
        <3>4. /\ Times(cmd.queue, b) \in Nat
              /\ Times(cmd'.queue, b) = Times(cmd.queue, b) + (IF f = b THEN 1 ELSE 0)
            BY <2>3
        <3>5. Hal(b) \in held' <=> Hal(b) \in held
            BY <2>2 DEF Hal, Bundle
        <3>6. CASE b # f
            <4>1. /\ Bundle(b) \in held' <=> Bundle(b) \in held
                  /\ buf_refcnt'[b] = buf_refcnt[b]
                BY <2>2, <3>6 DEF Bundle, Types
            <4>2. Holders(b)' = Holders(b)
                BY <2>3, <3>2, <3>4, <3>5, <3>6, <4>1 DEF Refs
            <4>3. ~InHand(b) /\ ~InHand(b)'
                BY <1>1, <3>6 DEF InHand
            <4>4. WithDriver(b)' = WithDriver(b)
                BY <1>1, <4>3 DEF WithDriver, Once
            <4>5. OnTheWay(b)' = OnTheWay(b)
                BY <1>1, <2>3, <3>1, <3>4, <3>5, <3>6 DEF OnTheWay, Once, Hal
            <4> QED
                BY <3>1, <4>1, <4>2, <4>4, <4>5 DEF BufOK
        <3>7. CASE b = f
            <4>1. Refs(held, cmd, proc.mDataQ, doing, buf_lock, Own(b), b) = 0
                BY <2>4, <3>1, <3>2, <3>7 DEF BufOK
            <4>2. /\ Bundle(b) \notin held /\ Hal(b) \notin held /\ Times(cmd.queue, b) = 0
                  /\ cmd.buf # b /\ Times(proc.mDataQ, Own(b)) = 0
                  /\ Giving(doing, buf_lock, Own(b), "cmd") = 0
                  /\ Giving(doing, buf_lock, Own(b), "proc") = 0
                  /\ Giving(doing, buf_lock, Own(b), "user") = 0
                BY <3>2, <3>4, <4>1, NoRefs
            <4>3. /\ buf_refcnt'[b] = References
                  /\ Bundle(b) \in held' <=> is_bundled
                BY <1>1, <2>2, <2>4, <3>7, <4>2 DEF Types, References
            <4>4. Holders(b)' = References
                <5>1. /\ Times(cmd'.queue, b) = 1 /\ cmd'.buf # b /\ Hal(b) \notin held'
                      /\ is_bundled \in BOOLEAN
                    BY <2>3, <3>4, <3>5, <3>7, <4>2, StreamAssumption
                <5> QED
                    BY <3>2, <4>2, <4>3, <5>1 DEF Refs, References
            <4>5. WithDriver(b)' = 0
                <5>1. InHand(b) /\ ~InHand(b)'
                    BY <1>1, <2>1, <3>7 DEF InHand
                <5>2. WithDriver(b) <= 1
                    BY <2>4, <3>1, <3>7 DEF BufOK, Once
                <5>3. /\ Once(InHand(b)) = 1 /\ Once(InHand(b)') = 0
                      /\ Once(b \in driver.queued) \in Nat
                      /\ Once(buf_lock # None /\ doing[buf_lock].buf = b) = 0
                    BY <1>1, <5>1 DEF Once
                <5>4. WithDriver(b) = Once(b \in driver.queued) + Times(driver.ready, b) + 1 + 0
                    BY <5>3 DEF WithDriver
                <5>5. Once(b \in driver.queued) = 0 /\ Times(driver.ready, b) = 0
                    BY <3>2, <5>2, <5>3, <5>4
                <5> QED
                    BY <1>1, <5>3, <5>5 DEF WithDriver
            <4>6. OnTheWay(b)' = 1
                BY <1>1, <2>3, <3>1, <3>4, <3>5, <3>7, <4>2 DEF OnTheWay, Once, Hal
            <4> QED
                BY <4>3, <4>4, <4>5, <4>6 DEF BufOK, Once, References
        <3> QED
            BY <3>6, <3>7
    <2> QED
        BY <1>3, <2>5, <2>6, <2>7, <2>8
<1> QED
    BY <1>4, <1>5

-----------------------------------------------------------------------------
(* Giving a buffer back                                                    *)

\* Who else gives b back, when only w goes on.
OthersGiving(d, lock, o, w) ==
    (IF w = "cmd" THEN 0 ELSE Giving(d, lock, o, "cmd"))
    + (IF w = "proc" THEN 0 ELSE Giving(d, lock, o, "proc"))
    + (IF w = "user" THEN 0 ELSE Giving(d, lock, o, "user"))

LEMMA RefsSplit ==
    ASSUME NEW hs, NEW c, NEW q, NEW d, NEW lock, NEW o, NEW b, NEW w \in Workers,
           Times(c.queue, b) \in Nat, Times(q, o) \in Nat
    PROVE  /\ Refs(hs, c, q, d, lock, o, b) =
                ((IF Bundle(b) \in hs THEN 1 ELSE 0) + (IF Hal(b) \in hs THEN 1 ELSE 0))
                + Times(c.queue, b)
                + (IF c.buf = b THEN 1 ELSE 0) + (IF c.buf = b /\ c.pc = "enqueue" THEN 1 ELSE 0)
                + Times(q, o)
                + (Giving(d, lock, o, w) + OthersGiving(d, lock, o, w))
           /\ Giving(d, lock, o, w) \in {0, 1} /\ OthersGiving(d, lock, o, w) \in Nat
           /\ Giving(d, lock, o, w) = 1 <=> d[w] = o /\ lock # w
<1> DEFINE g1 == Giving(d, lock, o, "cmd")
           g2 == Giving(d, lock, o, "proc")
           g3 == Giving(d, lock, o, "user")
<1>1. g1 \in Nat /\ g2 \in Nat /\ g3 \in Nat
    BY DEF Giving
<1>2. g1 + g2 + g3 = Giving(d, lock, o, w) + OthersGiving(d, lock, o, w)
    <2> HIDE DEF g1, g2, g3
    <2>1. w = "cmd" => Giving(d, lock, o, w) = g1 /\ OthersGiving(d, lock, o, w) = 0 + g2 + g3
        BY DEF OthersGiving, g1, g2, g3
    <2>2. w = "proc" => Giving(d, lock, o, w) = g2 /\ OthersGiving(d, lock, o, w) = g1 + 0 + g3
        BY DEF OthersGiving, g1, g2, g3
    <2>3. w = "user" => Giving(d, lock, o, w) = g3 /\ OthersGiving(d, lock, o, w) = g1 + g2 + 0
        BY DEF OthersGiving, g1, g2, g3
    <2> QED
        BY <1>1, <2>1, <2>2, <2>3 DEF Workers
<1>3. OthersGiving(d, lock, o, w) \in Nat
    BY DEF OthersGiving, Giving
<1>4. Refs(hs, c, q, d, lock, o, b) =
                ((IF Bundle(b) \in hs THEN 1 ELSE 0) + (IF Hal(b) \in hs THEN 1 ELSE 0))
                + Times(c.queue, b)
                + (IF c.buf = b THEN 1 ELSE 0) + (IF c.buf = b /\ c.pc = "enqueue" THEN 1 ELSE 0)
                + Times(q, o) + (g1 + g2 + g3)
    BY DEF Refs
<1>5. /\ Giving(d, lock, o, w) \in {0, 1}
      /\ Giving(d, lock, o, w) = 1 <=> d[w] = o /\ lock # w
    BY DEF Giving
<1> HIDE DEF g1, g2, g3
<1> QED
    BY <1>2, <1>3, <1>4, <1>5

LEMMA OthersSame ==
    ASSUME NEW d, NEW e, NEW lock, NEW next, NEW o, NEW w \in Workers,
           \A v \in Workers \ {w} : e[v] = d[v] /\ (lock # v <=> next # v)
    PROVE  OthersGiving(e, next, o, w) = OthersGiving(d, lock, o, w)
BY DEF OthersGiving, Giving, Workers

\* References that change in no other place than where w is.
LEMMA RefsMoved ==
    ASSUME NEW hs, NEW c, NEW q, NEW d, NEW e, NEW lock, NEW next, NEW o, NEW b, NEW w \in Workers,
           Times(c.queue, b) \in Nat, Times(q, o) \in Nat,
           \A v \in Workers \ {w} : e[v] = d[v] /\ (lock # v <=> next # v)
    PROVE  Refs(hs, c, q, d, lock, o, b) - Giving(d, lock, o, w)
             = Refs(hs, c, q, e, next, o, b) - Giving(e, next, o, w)
<1> DEFINE rest == ((IF Bundle(b) \in hs THEN 1 ELSE 0) + (IF Hal(b) \in hs THEN 1 ELSE 0))
                + Times(c.queue, b)
                + (IF c.buf = b THEN 1 ELSE 0) + (IF c.buf = b /\ c.pc = "enqueue" THEN 1 ELSE 0)
                + Times(q, o)
           others == OthersGiving(d, lock, o, w)
<1>1. /\ Refs(hs, c, q, d, lock, o, b) = rest + (Giving(d, lock, o, w) + others)
      /\ Refs(hs, c, q, e, next, o, b) = rest + (Giving(e, next, o, w) + others)
    BY RefsSplit, OthersSame
<1>2. rest \in Nat /\ others \in Nat
    BY DEF OthersGiving, Giving
<1>3. Giving(d, lock, o, w) \in Nat /\ Giving(e, next, o, w) \in Nat
    BY DEF Giving
<1> HIDE DEF rest, others
<1> QED
    BY <1>1, <1>2, <1>3

LEMMA BufDoneOK ==
    ASSUME NEW w \in Workers, IInv, broken = "none", BufDone(w)
    PROVE  IInv'
<1> DEFINE f == doing[w].buf
           last == buf_refcnt[f] = 1
<1> USE DEF IInv
<1>1. /\ doing[w] # None /\ doing[w] \in Frame /\ f \in Bufs /\ buf_lock = None
      /\ UNCHANGED <<ctlVars, driver, polled, poll, cmd, proc, held>>
    BY SessionsOf DEF BufDone, LockFree, Frame
<1>2. CASE Over(doing[w].of)
    <2>1. broken' # "none" /\ UNCHANGED <<bufVars, entry, pipe, waiting, doing>>
        BY <1>2 DEF BufDone
    <2>2. Types'
        BY <1>1, <2>1 DEF Types, ctlVars, bufVars
    <2>3. Sessions' /\ Frames' /\ CmdOK' /\ LockOK'
        BY <1>1, <2>1 DEF Sessions, Frames, CmdOK, LockOK, Off, Live, ctlVars, bufVars
    <2>4. CountOK'
        BY <1>1, <2>1 DEF CountOK
    <2>5. ASSUME Live', NEW b \in Bufs PROVE BufOK(b)'
        BY <1>1, <2>1, <2>5, BufSame DEF Live, ctlVars, bufVars
    <2> QED
        BY <2>2, <2>3, <2>4, <2>5
<1>3. CASE ~Over(doing[w].of)
    <2>1. /\ doing[w].of = session /\ Live /\ Live' /\ ~Off /\ ctl # "streamon" /\ session \in Nat
          /\ doing[w] = Own(f)
        BY <1>1, <1>3, Owned, SessionsOf DEF Over, Live, Off, Frames, ctlVars
    <2>2. /\ buf_refcnt' = [buf_refcnt EXCEPT ![f] = IF @ = 0 THEN 0 ELSE @ - 1]
          /\ queued_buffer_count' = queued_buffer_count + (IF last THEN 1 ELSE 0)
          /\ IF last /\ queued_buffer_count = 0
             THEN entry' = TRUE /\ pipe' \in Seq(BOOLEAN) /\ pipe' # <<>>
             ELSE UNCHANGED <<entry, pipe>>
          /\ IF last THEN buf_lock' = w /\ doing' = doing
             ELSE doing' = [doing EXCEPT ![w] = None] /\ buf_lock' = buf_lock
          /\ broken' = broken /\ refused' = refused
        BY <1>3, EntryTold DEF BufDone
    <2>3. /\ doing' \in [Workers -> Frame \cup {None}]
          /\ doing'[w] = IF last THEN doing[w] ELSE None
          /\ \A v \in Workers \ {w} : doing'[v] = doing[v]
          /\ buf_lock' \in Workers \cup {None}
        BY <2>2 DEF Types
    <2>4. None \notin Workers /\ None # w
        BY StreamAssumption
    <2>5. Types'
        <3>1. /\ buf_refcnt' \in [Bufs -> Nat] /\ queued_buffer_count' \in Int
              /\ refused' \in Nat
            BY <1>1, <2>2 DEF Types
        <3>2. entry' \in BOOLEAN /\ pipe' \in Seq(BOOLEAN)
            BY <2>2 DEF Types
        <3>3. {active, m_bActive, entry, polled}' \subseteq BOOLEAN
            BY <1>1, <3>2 DEF Types, ctlVars
        <3>4. doing' \in [Workers -> Frame \cup {None}] /\ buf_lock' \in Workers \cup {None}
            BY <2>3
        <3>5. UNCHANGED <<ctl, session, driver, poll, cmd, proc, held>>
            BY <1>1 DEF ctlVars
        <3> HIDE DEF f, last
        <3> QED
            BY <3>1, <3>2, <3>3, <3>4, <3>5 DEF Types
    <2>6. Sessions' /\ Frames' /\ CmdOK' /\ LockOK'
        <3>1. Sessions'
            BY <1>1, <2>1 DEF Sessions, Off, Live, ctlVars
        <3>2. Frames'
            BY <1>1, <2>3 DEF Frames, ctlVars
        <3>3. CmdOK'
            BY <1>1, <2>3, <2>4 DEF CmdOK, Workers
        <3>4. LockOK'
            BY <1>1, <2>1, <2>2, <2>3 DEF LockOK, Off, Live, ctlVars
        <3> QED
            BY <3>1, <3>2, <3>3, <3>4
    <2>7. CountOK'
        <3>1. /\ Cardinality(driver.queued) \in Nat /\ Len(driver.ready) \in Nat
              /\ refused \in Nat
            BY FS_Subset, FS_CardinalityType, LenProperties, StreamAssumption DEF Types
        <3>2. /\ UNCHANGED <<ctl, session, driver, poll, polled, refused, broken>>
              /\ Once(buf_lock' # None) = IF last THEN 1 ELSE 0
              /\ Once(buf_lock # None) = 0
            BY <1>1, <2>2, <2>4 DEF Once, ctlVars
        <3>3. queued_buffer_count' = queued_buffer_count + (IF last THEN 1 ELSE 0)
              /\ queued_buffer_count \in Int
            BY <2>2 DEF Types
        <3>4. polled' # entry' => pipe' # <<>>
            BY <1>1, <2>2 DEF CountOK
        <3> DEFINE run == ctl \in {"streamon", "active", "del"} /\ broken = "none"
                   n == Cardinality(driver.queued)
                   r == Len(driver.ready)
                   o == Once(poll.pc = "count" /\ poll.of = session)
        <3>5. /\ n \in Nat /\ r \in Nat /\ o \in Nat
              /\ run => queued_buffer_count = n + r + o + 0 + refused
            BY <3>1, <3>2 DEF CountOK, Once
        <3>6. /\ last /\ queued_buffer_count = 0 => entry'
              /\ ~(last /\ queued_buffer_count = 0) => (entry' <=> entry)
            BY <2>2
        <3> DEFINE c == queued_buffer_count
                   d == queued_buffer_count'
                   one == IF last THEN 1 ELSE 0
                   rest == n + r + o + refused
        <3>7. /\ one \in {0, 1} /\ (last <=> one = 1) /\ d = c + one
              /\ rest \in Nat /\ c \in Int
              /\ run => c = rest /\ (entry <=> c > 0)
            <4>1. one \in {0, 1} /\ (last <=> one = 1)
                OBVIOUS
            <4>2. d = c + one /\ c \in Int
                BY <3>3
            <4>3. rest \in Nat /\ (run => c = rest)
                <5> HIDE DEF n, r, o, run
                <5> QED
                    BY <3>1, <3>5
            <4>4. run => (entry <=> c > 0)
                BY DEF CountOK
            <4> HIDE DEF c, d, one, rest, run, last
            <4> QED
                BY <4>1, <4>2, <4>3, <4>4
        <3>8. ASSUME run PROVE d = rest + one /\ (entry' <=> d > 0)
            <4> HIDE DEF c, d, one, rest, last, run
            <4>1. c = rest /\ (entry <=> c > 0)
                BY <3>7, <3>8
            <4>2. /\ one = 1 /\ c = 0 => entry'
                  /\ ~(one = 1 /\ c = 0) => (entry' <=> entry)
                BY <3>6, <3>7 DEF c
            <4>3. CASE one = 1
                BY <3>7, <4>1, <4>2, <4>3
            <4>4. CASE one = 0
                BY <3>7, <4>1, <4>2, <4>4
            <4> QED
                BY <3>7, <4>3, <4>4
        <3>9. run => queued_buffer_count' = n + r + o + one + refused
            <4> HIDE DEF one, n, r, o, run
            <4> QED
                BY <3>1, <3>5, <3>7, <3>8
        <3> QED
            BY <3>2, <3>4, <3>8, <3>9 DEF CountOK
    <2>8. ASSUME NEW b \in Bufs PROVE BufOK(b)'
        <3>1. BufOK(b) /\ Own(b)' = Own(b) /\ (b = f <=> doing[w] = Own(b))
            BY <1>1, <2>1, Owned DEF Own, ctlVars
        <3>2. /\ Holders(b) = Refs(held, cmd, proc.mDataQ, doing, buf_lock, Own(b), b)
              /\ Holders(b)' = Refs(held, cmd, proc.mDataQ, doing', buf_lock', Own(b), b)
              /\ Times(cmd.queue, b) \in Nat /\ Times(proc.mDataQ, Own(b)) \in Nat
              /\ Times(driver.ready, b) \in Nat
            BY <1>1, <2>5, <3>1, HoldersAre, HoldersBecome
        <3>3. Holders(b) - Giving(doing, buf_lock, Own(b), w)
                = Holders(b)' - Giving(doing', buf_lock', Own(b), w)
            <4>1. \A v \in Workers \ {w} : doing'[v] = doing[v] /\ (buf_lock # v <=> buf_lock' # v)
                BY <1>1, <2>2, <2>3, <2>4
            <4> QED
                BY <3>2, <4>1, RefsMoved
        <3>4. /\ Giving(doing, buf_lock, Own(b), w) = IF b = f THEN 1 ELSE 0
              /\ Giving(doing', buf_lock', Own(b), w) = 0
            BY <1>1, <2>1, <2>2, <2>3, <2>4, <3>1, Owned DEF Giving
        <3>5. Holders(b) \in Nat /\ buf_refcnt[b] = Holders(b) /\ buf_refcnt[b] \in Nat
            BY <3>1 DEF BufOK, Types
        <3>6. Holders(b)' \in Int /\ Holders(b)' = Holders(b) - (IF b = f THEN 1 ELSE 0)
            <4>1. Holders(b)' \in Int
                BY <3>2, RefsSplit DEF Workers
            <4> QED
                BY <3>3, <3>4, <3>5, <4>1
        <3>7. buf_refcnt'[b] = Holders(b)'
            <4>1. b = f => buf_refcnt[b] # 0
                BY <1>1, <2>1, <3>2, <3>4, <3>5, RefsSplit
            <4> QED
                BY <2>2, <3>5, <3>6, <4>1 DEF Types
        <3>8. OnTheWay(b)' = OnTheWay(b)
            BY <1>1, <3>1 DEF OnTheWay, Once
        <3>9. WithDriver(b)' <= Once(buf_refcnt'[b] = 0)
            <4>1. /\ InHand(b)' = InHand(b) /\ Once(buf_lock # None /\ doing[buf_lock].buf = b) = 0
                  /\ Once(InHand(b)) \in Nat /\ Once(b \in driver.queued) \in Nat
                BY <1>1 DEF InHand, Once, ctlVars
            <4> DEFINE other == Once(b \in driver.queued) + Times(driver.ready, b) + Once(InHand(b))
                       lock == Once(buf_lock' # None /\ doing'[buf_lock'].buf = b)
            <4>2. other \in Nat /\ WithDriver(b) = other /\ WithDriver(b)' = other + lock
                BY <1>1, <3>2, <4>1 DEF WithDriver
            <4>3. other <= Once(buf_refcnt[b] = 0)
                BY <3>1, <4>2 DEF BufOK
            <4>4. lock = IF b = f /\ last THEN 1 ELSE 0
                BY <1>1, <2>2, <2>3, <2>4 DEF Once
            <4> HIDE DEF other, lock
            <4>5. CASE b = f
                <5>1. other = 0 /\ buf_refcnt'[b] = buf_refcnt[b] - 1
                    BY <3>4, <3>5, <3>6, <3>7, <3>3, <4>2, <4>3, <4>5, <3>2, RefsSplit DEF Once
                <5> QED
                    BY <3>5, <4>2, <4>4, <4>5, <5>1 DEF Once
            <4>6. CASE b # f
                <5>1. lock = 0 /\ buf_refcnt'[b] = buf_refcnt[b]
                    BY <3>5, <3>6, <3>7, <4>4, <4>6
                <5> QED
                    BY <4>2, <4>3, <5>1
            <4> QED
                BY <4>5, <4>6
        <3> QED
            BY <3>1, <3>7, <3>8, <3>9 DEF BufOK
    <2> QED
        BY <2>5, <2>6, <2>7, <2>8
<1> QED
    BY <1>2, <1>3

\* A buffer that goes nowhere is with nobody.
LEMMA InvalidateFailsOK ==
    ASSUME NEW w \in Workers, IInv, InvalidateFails(w)
    PROVE  IInv'
<1> DEFINE f == doing[w].buf
<1> USE DEF IInv
<1>1. /\ doing[w] # None /\ doing[w] \in Frame /\ f \in Bufs /\ buf_lock = None
      /\ buf_refcnt[f] = 1 /\ ~Over(doing[w].of)
      /\ buf_refcnt' = [buf_refcnt EXCEPT ![f] = 0]
      /\ doing' = [doing EXCEPT ![w] = None]
      /\ UNCHANGED <<ctlVars, driver, queued_buffer_count, buf_lock, refused, pollVars, poll, cmd,
                     proc, held, broken>>
    BY SessionsOf DEF InvalidateFails, LockFree, Frame
<1>2. /\ doing[w].of = session /\ Live /\ Live' /\ ~Off /\ session \in Nat
      /\ doing[w] = Own(f) /\ None \notin Workers
    BY <1>1, Owned, SessionsOf, StreamAssumption DEF Over, Live, Off, Frames, ctlVars
<1>3. doing'[w] = None /\ \A v \in Workers \ {w} : doing'[v] = doing[v]
    BY <1>1 DEF Types
<1>4. Types'
    <2>1. doing' \in [Workers -> Frame \cup {None}] /\ buf_refcnt' \in [Bufs -> Nat]
        BY <1>1 DEF Types
    <2> HIDE DEF f
    <2> QED
        BY <1>1, <2>1 DEF Types, ctlVars, pollVars
<1>5. Sessions' /\ Frames' /\ CmdOK' /\ LockOK'
    <2>1. Sessions' /\ LockOK' /\ CmdOK'
        BY <1>1, <1>2, <1>3 DEF Sessions, Off, Live, LockOK, CmdOK, Workers, ctlVars
    <2>2. Frames'
        BY <1>1, <1>3 DEF Frames, ctlVars
    <2> QED
        BY <2>1, <2>2
<1>6. CountOK'
    BY <1>1 DEF CountOK, Once, ctlVars, pollVars
<1>7. ASSUME NEW b \in Bufs PROVE BufOK(b)'
    <2>1. BufOK(b) /\ Own(b)' = Own(b) /\ Own(b) # None /\ (b = f <=> doing[w] = Own(b))
        BY <1>1, <1>2, Owned DEF Own, ctlVars
    <2>2. /\ Holders(b) = Refs(held, cmd, proc.mDataQ, doing, buf_lock, Own(b), b)
          /\ Holders(b)' = Refs(held, cmd, proc.mDataQ, doing', buf_lock', Own(b), b)
          /\ Times(cmd.queue, b) \in Nat /\ Times(proc.mDataQ, Own(b)) \in Nat
          /\ Times(driver.ready, b) \in Nat
        BY <1>1, <1>4, <2>1, HoldersAre, HoldersBecome
    <2>3. Holders(b) - Giving(doing, buf_lock, Own(b), w)
            = Holders(b)' - Giving(doing', buf_lock', Own(b), w)
        <3>1. \A v \in Workers \ {w} : doing'[v] = doing[v] /\ (buf_lock # v <=> buf_lock' # v)
            BY <1>1, <1>3
        <3> QED
            BY <2>2, <3>1, RefsMoved
    <2>4. /\ Giving(doing, buf_lock, Own(b), w) = IF b = f THEN 1 ELSE 0
          /\ Giving(doing', buf_lock', Own(b), w) = 0
        BY <1>1, <1>2, <1>3, <2>1 DEF Giving
    <2>5. Holders(b) = buf_refcnt[b] /\ buf_refcnt[b] \in Nat /\ Holders(b)' \in Int
        <3>1. Holders(b)' \in Int
            BY <2>2, RefsSplit DEF Workers
        <3> QED
            BY <2>1, <3>1 DEF BufOK, Types
    <2>6. /\ buf_refcnt'[b] = Holders(b)' /\ buf_refcnt'[b] \in Nat
          /\ buf_refcnt[b] = 0 => buf_refcnt'[b] = 0
        BY <1>1, <2>3, <2>4, <2>5 DEF Types
    <2>7. OnTheWay(b)' = OnTheWay(b)
        BY <1>1, <2>1 DEF OnTheWay, Once
    <2>8. WithDriver(b)' = WithDriver(b) /\ WithDriver(b) \in Nat
        <3>1. InHand(b)' = InHand(b)
            BY <1>1 DEF InHand, ctlVars
        <3> QED
            BY <1>1, <2>2, <3>1 DEF WithDriver, Once
    <2> QED
        BY <2>1, <2>6, <2>7, <2>8 DEF BufOK, Once
<1> QED
    BY <1>2, <1>4, <1>5, <1>6, <1>7

LEMMA QbufIoctlOK ==
    ASSUME NEW w \in Workers, IInv, QbufIoctl(w)
    PROVE  IInv'
<1> DEFINE f == doing[w].buf
<1> USE DEF IInv
<1>1. /\ buf_lock = w /\ buf_lock' = None /\ w # None /\ None \notin Workers
      /\ \/ driver' = [driver EXCEPT !.queued = @ \cup {f}] /\ refused' = refused
         \/ driver' = driver /\ refused' = refused + 1
      /\ doing' = [doing EXCEPT ![w] = None]
      /\ UNCHANGED <<ctlVars, buf_refcnt, queued_buffer_count, pollVars, poll, cmd, proc, held, broken>>
    BY StreamAssumption DEF QbufIoctl
<1>2. /\ ~Off /\ Live /\ doing[w] # None /\ doing[w].of = session
      /\ doing[w] \in Frame /\ f \in Bufs /\ session \in Nat
    BY <1>1, SessionsOf DEF LockOK, Off, Frame
<1>3. /\ \/ driver'.queued = driver.queued \cup {f} /\ refused' = refused
         \/ driver'.queued = driver.queued /\ refused' = refused + 1
      /\ driver'.ready = driver.ready /\ driver'.on = driver.on /\ refused' \in Nat
      /\ doing'[w] = None /\ \A v \in Workers \ {w} : doing'[v] = doing[v]
    BY <1>1 DEF Types
<1>4. f \notin driver.queued
    <2>1. BufOK(f) /\ Times(driver.ready, f) \in Nat
        BY <1>2, HoldersAre
    <2>2. /\ Once(buf_lock # None /\ doing[buf_lock].buf = f) = 1
          /\ Once(InHand(f)) \in Nat /\ Once(f \in driver.queued) \in Nat
          /\ Once(buf_refcnt[f] = 0) <= 1
        BY <1>1 DEF Once
    <2>3. Once(f \in driver.queued) = 0
        <3>1. WithDriver(f) =
                Once(f \in driver.queued) + Times(driver.ready, f) + Once(InHand(f)) + 1
            BY <2>2 DEF WithDriver
        <3>2. WithDriver(f) <= Once(buf_refcnt[f] = 0) /\ Once(buf_refcnt[f] = 0) \in {0, 1}
            BY <2>1 DEF BufOK, Once
        <3> QED
            BY <2>1, <2>2, <3>1, <3>2
    <2> QED
        BY <2>3 DEF Once
<1>5. Types'
    <2>1. driver' \in [queued : SUBSET Bufs, ready : Seq(Bufs), on : BOOLEAN]
        <3>1. CASE driver' = driver
            BY <3>1 DEF Types
        <3>2. CASE driver' = [driver EXCEPT !.queued = @ \cup {f}]
            BY <1>2, <3>2 DEF Types
        <3> QED
            BY <1>1, <3>1, <3>2
    <2>2. doing' \in [Workers -> Frame \cup {None}]
        BY <1>1 DEF Types
    <2> QED
        BY <1>1, <2>1, <2>2 DEF Types, ctlVars, pollVars
<1>6. Sessions' /\ Frames' /\ CmdOK' /\ LockOK'
    <2>1. Sessions' /\ LockOK' /\ CmdOK'
        BY <1>1, <1>2, <1>3 DEF Sessions, Off, Live, LockOK, CmdOK, Workers, ctlVars
    <2>2. Frames'
        BY <1>1, <1>3 DEF Frames, ctlVars
    <2> QED
        BY <2>1, <2>2
<1>7. CountOK'
    <2>1. /\ Cardinality(driver.queued) \in Nat /\ Len(driver.ready) \in Nat /\ refused \in Nat
          /\ Cardinality(driver.queued \cup {f}) = Cardinality(driver.queued) + 1
        <3>1. IsFiniteSet(driver.queued)
            BY FS_Subset, StreamAssumption DEF Types
        <3>2. /\ Cardinality(driver.queued) \in Nat
              /\ Cardinality(driver.queued \cup {f}) = Cardinality(driver.queued) + 1
            BY <1>4, <3>1, FS_AddElement, FS_CardinalityType
        <3> QED
            BY <3>2, LenProperties DEF Types
    <2>2. /\ ctl' = ctl /\ session' = session /\ poll' = poll /\ broken' = broken
          /\ queued_buffer_count' = queued_buffer_count
          /\ entry' = entry /\ polled' = polled /\ pipe' = pipe
          /\ Once(buf_lock' # None) = 0 /\ Once(buf_lock # None) = 1
        BY <1>1 DEF Once, ctlVars, pollVars
    <2> DEFINE run == ctl \in {"streamon", "active", "del"} /\ broken = "none"
               n == Cardinality(driver.queued)
               m == Cardinality(driver'.queued)
               r == Len(driver.ready)
               o == Once(poll.pc = "count" /\ poll.of = session)
    <2>3. /\ n \in Nat /\ r \in Nat /\ o \in Nat
          /\ run => queued_buffer_count = n + r + o + 1 + refused
        BY <2>1, <2>2 DEF CountOK, Once
    <2>4. m + refused' = n + refused + 1 /\ m \in Nat /\ refused' \in Nat
        <3>1. CASE driver'.queued = driver.queued \cup {f} /\ refused' = refused
            BY <2>1, <3>1
        <3>2. CASE driver'.queued = driver.queued /\ refused' = refused + 1
            BY <2>1, <3>2
        <3> QED
            BY <1>3, <3>1, <3>2
    <2>5. Len(driver'.ready) = r
        BY <1>3
    <2> HIDE DEF run, n, m, r, o
    <2>6. run => queued_buffer_count = m + r + o + 0 + refused'
        <3> DEFINE q == queued_buffer_count
                   s == refused
                   t == refused'
        <3>1. s \in Nat
            BY <2>1
        <3>2. n \in Nat /\ r \in Nat /\ o \in Nat /\ m \in Nat /\ t \in Nat /\ m + t = n + s + 1
            BY <2>3, <2>4
        <3>3. run => q = n + r + o + 1 + s
            BY <2>3
        <3> HIDE DEF q, s, t
        <3>4. n + r + o + 1 + s = m + r + o + 0 + t
            BY <3>1, <3>2
        <3>5. run => q = m + r + o + 0 + t
            BY <3>3, <3>4
        <3> QED
            BY <3>5 DEF q, t
    <2>7. run => (entry' <=> queued_buffer_count' > 0)
        <3>1. run => (entry <=> queued_buffer_count > 0)
            BY DEF CountOK, run
        <3>2. entry' = entry /\ queued_buffer_count' = queued_buffer_count
            BY <2>2
        <3> QED
            BY <3>1, <3>2
    <2>8. polled' # entry' => pipe' # <<>>
        <3>1. polled # entry => pipe # <<>>
            BY DEF CountOK
        <3>2. polled' = polled /\ entry' = entry /\ pipe' = pipe
            BY <2>2
        <3> QED
            BY <3>1, <3>2
    <2>9. run => queued_buffer_count' = m + Len(driver'.ready) + o + Once(buf_lock' # None) + refused'
        BY <2>2, <2>5, <2>6
    <2> QED
        BY <2>2, <2>7, <2>8, <2>9 DEF CountOK, run, m, o
<1>8. ASSUME NEW b \in Bufs PROVE BufOK(b)'
    <2>1. BufOK(b) /\ Own(b)' = Own(b) /\ Own(b) # None
        BY <1>1, <1>2, Owned DEF Own, ctlVars
    <2>2. /\ Holders(b) = Refs(held, cmd, proc.mDataQ, doing, buf_lock, Own(b), b)
          /\ Holders(b)' = Refs(held, cmd, proc.mDataQ, doing', buf_lock', Own(b), b)
          /\ Times(cmd.queue, b) \in Nat /\ Times(proc.mDataQ, Own(b)) \in Nat
          /\ Times(driver.ready, b) \in Nat
        BY <1>1, <1>5, <2>1, HoldersAre, HoldersBecome
    <2>3. Holders(b)' = Holders(b)
        <3>1. \A v \in Workers \ {w} : doing'[v] = doing[v] /\ (buf_lock # v <=> buf_lock' # v)
            BY <1>1, <1>3
        <3>2. Giving(doing, buf_lock, Own(b), w) = 0 /\ Giving(doing', buf_lock', Own(b), w) = 0
            BY <1>1, <1>3, <2>1 DEF Giving
        <3>3. Holders(b) - 0 = Holders(b)' - 0
            BY <2>2, <3>1, <3>2, RefsMoved
        <3>4. Holders(b) \in Int /\ Holders(b)' \in Int
            BY <2>2, RefsSplit DEF Workers
        <3> QED
            BY <3>3, <3>4
    <2>4. OnTheWay(b)' = OnTheWay(b)
        BY <1>1, <2>1 DEF OnTheWay, Once
    <2>5. WithDriver(b)' <= WithDriver(b) /\ WithDriver(b)' \in Nat /\ WithDriver(b) \in Nat
        <3>1. InHand(b)' = InHand(b)
            BY <1>1 DEF InHand, ctlVars
        <3>2. Once(b \in driver'.queued) + Once(buf_lock' # None /\ doing'[buf_lock'].buf = b)
                <= Once(b \in driver.queued) + Once(buf_lock # None /\ doing[buf_lock].buf = b)
            BY <1>1, <1>3, <1>4 DEF Once
        <3>3. /\ Once(InHand(b)) \in Nat /\ Once(b \in driver.queued) \in Nat
              /\ Once(b \in driver'.queued) \in Nat
              /\ Once(buf_lock # None /\ doing[buf_lock].buf = b) \in Nat
              /\ Once(buf_lock' # None /\ doing'[buf_lock'].buf = b) \in Nat
            BY DEF Once
        <3> QED
            BY <1>3, <2>2, <3>1, <3>2, <3>3 DEF WithDriver
    <2> QED
        BY <1>1, <2>1, <2>3, <2>4, <2>5 DEF BufOK, Once
<1> QED
    BY <1>5, <1>6, <1>7, <1>8

LEMMA UserDoneOK ==
    ASSUME NEW h \in held, IInv, UserDone(h)
    PROVE  IInv'
<1> DEFINE f == h.buf
<1> USE DEF IInv
<1>1. /\ doing["user"] = None /\ held' = held \ {h}
      /\ UNCHANGED <<ctlVars, driver, bufVars, pollVars, poll, cmd, proc, broken>>
      /\ f \in Bufs /\ (h = Bundle(f) \/ h = Hal(f))
    BY DEF UserDone, Types, Bundle, Hal
<1>2. Live /\ ~Off /\ active /\ ctl # "streamon" /\ session \in Nat
    BY DEF UserDone, Sessions, Off, Types
<1>3. /\ doing' = [doing EXCEPT !["user"] = Own(f)]
      /\ Own(f) \in Frame /\ Own(f) # None /\ Own(f).of = session
    BY <1>1, <1>2, Owned DEF UserDone, Qbuf, Own
<1>4. /\ doing'["user"] = Own(f) /\ \A v \in Workers \ {"user"} : doing'[v] = doing[v]
      /\ "user" \in Workers /\ "cmd" \in Workers
    BY <1>3 DEF Types, Workers
<1>5. Types'
    <2>1. doing' \in [Workers -> Frame \cup {None}] /\ held' \subseteq [via : {"bundle", "hal"}, buf : Bufs]
        BY <1>1, <1>3 DEF Types
    <2> QED
        BY <1>1, <2>1 DEF Types, ctlVars, bufVars, pollVars
<1>6. buf_lock # "user"
    BY <1>1, <1>4, StreamAssumption DEF LockOK
<1>7. Sessions' /\ Frames' /\ CmdOK' /\ LockOK'
    <2>1. Sessions' /\ CmdOK'
        BY <1>1, <1>2, <1>4 DEF Sessions, Off, Live, CmdOK, ctlVars
    <2>2. LockOK'
        BY <1>1, <1>2, <1>4, <1>6 DEF LockOK, Types, Off, Live, ctlVars, bufVars
    <2>3. Frames'
        BY <1>1, <1>2, <1>3, <1>4 DEF Frames, ctlVars
    <2> QED
        BY <2>1, <2>2, <2>3
<1>8. CountOK'
    BY <1>1 DEF CountOK, ctlVars, bufVars, pollVars
<1>9. ASSUME NEW b \in Bufs PROVE BufOK(b)'
    <2>1. /\ BufOK(b) /\ Own(b)' = Own(b) /\ Own(b) # None /\ (Own(f) = Own(b) <=> f = b)
          /\ Own(b)' \in Frame
        BY <1>1, <1>2, Owned DEF Own, ctlVars
    <2>2. /\ Holders(b) = Refs(held, cmd, proc.mDataQ, doing, buf_lock, Own(b), b)
          /\ Holders(b)' = Refs(held', cmd, proc.mDataQ, doing', buf_lock, Own(b), b)
          /\ Times(cmd.queue, b) \in Nat /\ Times(proc.mDataQ, Own(b)) \in Nat
        BY <1>1, <1>5, <2>1, HoldersAre, HoldersBecome DEF bufVars
    <2>3. /\ Bundle(b) # Hal(b)
          /\ Bundle(b) \in held' <=> Bundle(b) \in held /\ h # Bundle(b)
          /\ Hal(b) \in held' <=> Hal(b) \in held /\ h # Hal(b)
          /\ h = Bundle(b) \/ h = Hal(b) <=> f = b
        BY <1>1 DEF Bundle, Hal
    <2>4. Holders(b)' = Holders(b)
        <3>1. OthersGiving(doing', buf_lock, Own(b), "user") = OthersGiving(doing, buf_lock, Own(b), "user")
            BY <1>4, OthersSame
        <3>2. /\ Giving(doing, buf_lock, Own(b), "user") = 0
              /\ Giving(doing', buf_lock, Own(b), "user") = IF f = b THEN 1 ELSE 0
            BY <1>1, <1>4, <1>6, <2>1 DEF Giving
        <3>3. (IF Bundle(b) \in held' THEN 1 ELSE 0) + (IF Hal(b) \in held' THEN 1 ELSE 0)
                = (IF Bundle(b) \in held THEN 1 ELSE 0) + (IF Hal(b) \in held THEN 1 ELSE 0)
                    - (IF f = b THEN 1 ELSE 0)
            BY <2>3
        <3> DEFINE here == (IF Bundle(b) \in held THEN 1 ELSE 0) + (IF Hal(b) \in held THEN 1 ELSE 0)
                   then == (IF Bundle(b) \in held' THEN 1 ELSE 0) + (IF Hal(b) \in held' THEN 1 ELSE 0)
                   c1 == IF cmd.buf = b THEN 1 ELSE 0
                   c2 == IF cmd.buf = b /\ cmd.pc = "enqueue" THEN 1 ELSE 0
                   o == OthersGiving(doing, buf_lock, Own(b), "user")
                   t1 == Times(cmd.queue, b)
                   t2 == Times(proc.mDataQ, Own(b))
                   one == IF f = b THEN 1 ELSE 0
        <3>4. Holders(b) = here + t1 + c1 + c2 + t2 + (0 + o)
            BY <1>4, <2>2, <3>2, RefsSplit
        <3>5. Holders(b)' = then + t1 + c1 + c2 + t2 + (one + o)
            BY <1>4, <2>2, <3>1, <3>2, RefsSplit
        <3>6. /\ o \in Nat /\ c1 \in Nat /\ c2 \in Nat /\ here \in Nat /\ then \in Nat
              /\ t1 \in Nat /\ t2 \in Nat /\ one \in Nat
            BY <2>2 DEF OthersGiving, Giving
        <3>7. then = here - one
            BY <3>3
        <3> HIDE DEF here, then, c1, c2, o, t1, t2, one
        <3> QED
            BY <3>4, <3>5, <3>6, <3>7
    <2>5. OnTheWay(b)' <= OnTheWay(b)
        BY <1>1, <2>1, <2>2, <2>3 DEF OnTheWay, Once, Hal
    <2>6. OnTheWay(b) \in Int /\ OnTheWay(b)' \in Int
        BY <1>1, <2>1, <2>2 DEF OnTheWay, Once
    <2>7. WithDriver(b)' = WithDriver(b)
        <3>1. buf_lock # None => doing'[buf_lock] = doing[buf_lock]
            BY <1>4, <1>6 DEF Types
        <3> QED
            BY <1>1, <3>1 DEF WithDriver, InHand, Once, ctlVars, bufVars
    <2> QED
        BY <1>1, <2>1, <2>4, <2>5, <2>6, <2>7 DEF BufOK, bufVars
<1> QED
    BY <1>5, <1>7, <1>8, <1>9

-----------------------------------------------------------------------------
(* The cmd thread, going on                                                *)

LEMMA CmdCallOK == IInv /\ CmdCall => IInv'
<1> SUFFICES ASSUME IInv, CmdCall PROVE IInv'
    OBVIOUS
<1> DEFINE f == cmd.buf
           to == IF m_bActive THEN "enqueue" ELSE "done"
<1> USE DEF IInv
<1>1. /\ cmd.pc = "call" /\ buf_lock = None /\ doing["cmd"] = None /\ f \in Bufs
      /\ cmd' = [cmd EXCEPT !.pc = to]
      /\ cmd'.pc = to /\ cmd'.buf = f /\ cmd'.queue = cmd.queue
      /\ buf_refcnt' = [buf_refcnt EXCEPT ![f] = @ + 1]
      /\ UNCHANGED <<ctlVars, driver, queued_buffer_count, buf_lock, refused, pollVars, poll, proc,
                   held, broken>>
    BY DEF CmdCall, LockFree, CmdOK, Types
<1>2. Live /\ ~Off /\ active /\ ctl # "streamon" /\ session \in Nat /\ "cmd" \in Workers /\ m_bActive \in BOOLEAN
    BY <1>1 DEF Sessions, Off, NoCmd, Types, Workers
<1>3. Own(f) \in Frame /\ Own(f) # None /\ Own(f).of = session
    BY <1>1, <1>2, Owned
<1>4. doing' = IF m_bActive THEN doing ELSE [doing EXCEPT !["cmd"] = Own(f)]
    BY <1>2 DEF CmdCall, Qbuf, Own
<1>5. /\ doing'["cmd"] = (IF m_bActive THEN None ELSE Own(f))
      /\ \A v \in Workers \ {"cmd"} : doing'[v] = doing[v]
      /\ doing' \in [Workers -> Frame \cup {None}]
    BY <1>1, <1>2, <1>3, <1>4 DEF Types
<1>6. Types'
    <2>1. /\ cmd' \in [pc : {"off", "wait", "call", "enqueue", "done", "exited"}, buf : Bufs \cup {None},
                queue : Seq(Bufs \cup {"EXIT"}), running : BOOLEAN]
        BY <1>1, <1>2 DEF Types
    <2>2. buf_refcnt' \in [Bufs -> Nat]
        BY <1>1 DEF Types
    <2> QED
        BY <1>1, <1>5, <2>1, <2>2 DEF Types, ctlVars, pollVars
<1>7. Sessions' /\ Frames' /\ CmdOK' /\ LockOK'
    <2>1. Sessions' /\ LockOK'
        BY <1>1, <1>2 DEF Sessions, Off, Live, LockOK, ctlVars
    <2>2. CmdOK'
        BY <1>1, <1>5, StreamAssumption DEF CmdOK
    <2>3. Frames'
        BY <1>1, <1>2, <1>3, <1>5 DEF Frames, ctlVars
    <2> QED
        BY <2>1, <2>2, <2>3
<1>8. CountOK'
    BY <1>1 DEF CountOK, ctlVars, pollVars
<1>9. ASSUME NEW b \in Bufs PROVE BufOK(b)'
    <2>1. /\ BufOK(b) /\ Own(b)' = Own(b) /\ Own(b) # None /\ (Own(f) = Own(b) <=> f = b)
        BY <1>1, <1>2, Owned DEF Own, ctlVars
    <2>2. /\ Holders(b) = Refs(held, cmd, proc.mDataQ, doing, buf_lock, Own(b), b)
          /\ Holders(b)' = Refs(held, cmd', proc.mDataQ, doing', buf_lock, Own(b), b)
          /\ Times(cmd.queue, b) \in Nat /\ Times(proc.mDataQ, Own(b)) \in Nat
          /\ Times(driver.ready, b) \in Nat
        BY <1>1, <1>6, <2>1, HoldersAre, HoldersBecome
    <2> DEFINE here == (IF Bundle(b) \in held THEN 1 ELSE 0) + (IF Hal(b) \in held THEN 1 ELSE 0)
               one == IF f = b THEN 1 ELSE 0
               c2 == IF f = b /\ to = "enqueue" THEN 1 ELSE 0
               g == Giving(doing', buf_lock, Own(b), "cmd")
               o == OthersGiving(doing, buf_lock, Own(b), "cmd")
               t1 == Times(cmd.queue, b)
               t2 == Times(proc.mDataQ, Own(b))
    <2>3. Holders(b) = here + t1 + one + 0 + t2 + (0 + o)
        <3>1. Giving(doing, buf_lock, Own(b), "cmd") = 0
            BY <1>1, <2>1 DEF Giving
        <3>2. ~(cmd.buf = b /\ cmd.pc = "enqueue")
            BY <1>1
        <3> QED
            BY <1>2, <2>2, <3>1, <3>2, RefsSplit
    <2>4. Holders(b)' = here + t1 + one + c2 + t2 + (g + o)
        <3>1. OthersGiving(doing', buf_lock, Own(b), "cmd") = o
            BY <1>2, <1>5, OthersSame
        <3>2. Holders(b)' = here + Times(cmd'.queue, b) + (IF cmd'.buf = b THEN 1 ELSE 0)
                + (IF cmd'.buf = b /\ cmd'.pc = "enqueue" THEN 1 ELSE 0) + t2
                + (g + OthersGiving(doing', buf_lock, Own(b), "cmd"))
            <4>1. Times(cmd'.queue, b) \in Nat
                BY <1>1, <2>2
            <4> QED
                BY <1>2, <2>2, <4>1, RefsSplit
        <3> QED
            BY <1>1, <3>1, <3>2
    <2>5. c2 + g = one
        BY <1>1, <1>2, <1>5, <2>1, StreamAssumption DEF Giving
    <2>6. /\ here \in Nat /\ one \in Nat /\ c2 \in Nat /\ g \in Nat /\ o \in Nat
          /\ t1 \in Nat /\ t2 \in Nat
        BY <2>2 DEF Giving, OthersGiving
    <2>7. buf_refcnt'[b] = buf_refcnt[b] + one /\ buf_refcnt[b] \in Nat
        BY <1>1 DEF Types
    <2>8. buf_refcnt[b] = Holders(b) /\ (f = b => buf_refcnt[b] # 0)
        <3>1. f = b => one = 1
            OBVIOUS
        <3> HIDE DEF here, one, c2, g, o, t1, t2
        <3> QED
            BY <2>1, <2>3, <2>6, <3>1 DEF BufOK
    <2>9. buf_refcnt'[b] = Holders(b)'
        <3> HIDE DEF here, one, c2, g, o, t1, t2
        <3> QED
            BY <2>3, <2>4, <2>5, <2>6, <2>7, <2>8
    <2>10. OnTheWay(b)' <= OnTheWay(b) /\ OnTheWay(b) \in Int /\ OnTheWay(b)' \in Int
        BY <1>1, <2>1, <2>2 DEF OnTheWay, Once
    <2>11. WithDriver(b)' = WithDriver(b)
        BY <1>1 DEF WithDriver, InHand, Once, ctlVars
    <2>12. WithDriver(b)' <= Once(buf_refcnt'[b] = 0)
        <3>1. WithDriver(b) <= Once(buf_refcnt[b] = 0)
            BY <2>1 DEF BufOK
        <3>2. WithDriver(b) \in Nat
            BY <2>2 DEF WithDriver, Once
        <3>3. (buf_refcnt'[b] = 0) <=> (buf_refcnt[b] = 0)
            BY <2>7, <2>8
        <3> QED
            BY <2>11, <3>1, <3>3 DEF Once
    <2> QED
        BY <2>1, <2>9, <2>10, <2>12 DEF BufOK
<1> QED
    BY <1>2, <1>6, <1>7, <1>8, <1>9

LEMMA CmdEnqueueOK == IInv /\ CmdEnqueue => IInv'
<1> SUFFICES ASSUME IInv, CmdEnqueue PROVE IInv'
    OBVIOUS
<1> DEFINE f == cmd.buf
<1> USE DEF IInv
<1>1. /\ cmd.pc = "enqueue" /\ doing["cmd"] = None /\ f \in Bufs
      /\ cmd' = [cmd EXCEPT !.pc = "done"]
      /\ cmd'.pc = "done" /\ cmd'.buf = f /\ cmd'.queue = cmd.queue
      /\ proc' = [proc EXCEPT !.mDataQ = Append(@, Own(f)), !.jobs = @ + 1]
      /\ proc'.mDataQ = Append(proc.mDataQ, Own(f))
      /\ UNCHANGED <<ctlVars, driver, bufVars, pollVars, poll, held, doing, broken>>
    BY DEF CmdEnqueue, CmdOK, Types, Own
<1>2. Live /\ ~Off /\ active /\ ctl # "streamon" /\ session \in Nat
    BY <1>1 DEF Sessions, Off, NoCmd, Types
<1>3. Own(f) \in Frame /\ Own(f).of = session /\ proc.mDataQ \in Seq(Frame)
    BY <1>1, <1>2, Owned DEF Types
<1>4. /\ proc'.mDataQ \in Seq(Frame)
      /\ \A b \in Bufs : Times(proc'.mDataQ, Own(b))
                           = Times(proc.mDataQ, Own(b)) + (IF Own(f) = Own(b) THEN 1 ELSE 0)
    BY <1>1, <1>3, TimesAppended
<1>5. Types'
    <2>1. /\ cmd' \in [pc : {"off", "wait", "call", "enqueue", "done", "exited"}, buf : Bufs \cup {None},
                queue : Seq(Bufs \cup {"EXIT"}), running : BOOLEAN]
        BY <1>1 DEF Types
    <2>2. proc' \in [runs : BOOLEAN, jobs : Nat, exit : BOOLEAN, mDataQ : Seq(Frame)]
        <3>1. proc.jobs + 1 \in Nat /\ Append(proc.mDataQ, Own(f)) \in Seq(Frame)
            BY <1>1, <1>4 DEF Types
        <3>2. proc' = [proc EXCEPT !.mDataQ = Append(proc.mDataQ, Own(f)), !.jobs = proc.jobs + 1]
            BY <1>1
        <3> QED
            BY <3>1, <3>2 DEF Types
    <2> QED
        BY <1>1, <2>1, <2>2 DEF Types, ctlVars, bufVars, pollVars
<1>6. Sessions' /\ Frames' /\ CmdOK' /\ LockOK'
    <2>1. Sessions' /\ LockOK' /\ CmdOK'
        BY <1>1, <1>2, StreamAssumption DEF Sessions, Off, Live, LockOK, CmdOK, ctlVars, bufVars
    <2>2. \A i \in DOMAIN proc'.mDataQ : proc'.mDataQ[i].of <= session
        <3>1. \A i \in 1 .. Len(proc.mDataQ) : proc.mDataQ[i].of <= session
            BY <1>3, LenProperties DEF Frames
        <3>2. DOMAIN proc'.mDataQ = 1 .. Len(proc.mDataQ) + 1 /\ Len(proc.mDataQ) \in Nat
            BY <1>1, <1>3, <1>4, AppendProperties, LenProperties
        <3>3. /\ \A i \in 1 .. Len(proc.mDataQ) : proc'.mDataQ[i] = proc.mDataQ[i]
              /\ proc'.mDataQ[Len(proc.mDataQ) + 1] = Own(f)
            BY <1>1, <1>3, AppendProperties
        <3>4. session <= session
            BY <1>2
        <3> QED
            BY <1>3, <3>1, <3>2, <3>3, <3>4
    <2>3. Frames'
        BY <1>1, <1>2, <2>2 DEF Frames, ctlVars
    <2> QED
        BY <2>1, <2>3
<1>7. CountOK'
    BY <1>1 DEF CountOK, ctlVars, bufVars, pollVars
<1>8. ASSUME NEW b \in Bufs PROVE BufOK(b)'
    <2>1. /\ BufOK(b) /\ Own(b)' = Own(b) /\ (Own(f) = Own(b) <=> f = b)
        BY <1>1, <1>2, Owned DEF Own, ctlVars
    <2>2. /\ Holders(b) = Refs(held, cmd, proc.mDataQ, doing, buf_lock, Own(b), b)
          /\ Holders(b)' = Refs(held, cmd', proc'.mDataQ, doing, buf_lock, Own(b), b)
          /\ Times(cmd.queue, b) \in Nat /\ Times(proc.mDataQ, Own(b)) \in Nat
        BY <1>1, <1>5, <2>1, HoldersAre, HoldersBecome DEF bufVars
    <2>3. Times(proc'.mDataQ, Own(b)) = Times(proc.mDataQ, Own(b)) + (IF f = b THEN 1 ELSE 0)
        BY <1>4, <2>1
    <2> DEFINE g == Giving(doing, buf_lock, Own(b), "cmd") + Giving(doing, buf_lock, Own(b), "proc")
                     + Giving(doing, buf_lock, Own(b), "user")
               here == (IF Bundle(b) \in held THEN 1 ELSE 0) + (IF Hal(b) \in held THEN 1 ELSE 0)
               one == IF f = b THEN 1 ELSE 0
               t1 == Times(cmd.queue, b)
               t2 == Times(proc.mDataQ, Own(b))
    <2>4. Holders(b) = here + t1 + one + one + t2 + g /\ Holders(b)' = here + t1 + one + 0 + (t2 + one) + g
        BY <1>1, <2>2, <2>3 DEF Refs
    <2>5. here \in Nat /\ t1 \in Nat /\ one \in Nat /\ t2 \in Nat /\ g \in Nat
        BY <2>2 DEF Giving
    <2>6. Holders(b)' = Holders(b)
        <3> HIDE DEF here, t1, one, t2, g
        <3> QED
            BY <2>4, <2>5
    <2>7. OnTheWay(b)' = OnTheWay(b)
        <3> DEFINE hal == Once([via |-> "hal", buf |-> b] \in held)
        <3>1. OnTheWay(b) = hal + t1 + one + t2
            BY <1>1 DEF OnTheWay, Once
        <3>2. OnTheWay(b)' = hal + t1 + 0 + (t2 + one)
            BY <1>1, <2>1, <2>3 DEF OnTheWay, Once
        <3>3. hal \in Nat
            BY DEF Once
        <3> HIDE DEF hal, t1, one, t2
        <3> QED
            BY <2>5, <3>1, <3>2, <3>3
    <2>8. WithDriver(b)' = WithDriver(b)
        BY <1>1 DEF WithDriver, InHand, Once, ctlVars, bufVars
    <2> QED
        BY <1>1, <2>1, <2>6, <2>7, <2>8 DEF BufOK, bufVars
<1> QED
    BY <1>5, <1>6, <1>7, <1>8

LEMMA CmdDoneOK == IInv /\ CmdDone => IInv'
<1> SUFFICES ASSUME IInv, CmdDone PROVE IInv'
    OBVIOUS
<1> DEFINE f == cmd.buf
<1> USE DEF IInv
<1>1. /\ cmd.pc = "done" /\ doing["cmd"] = None /\ f \in Bufs
      /\ cmd' = [cmd EXCEPT !.pc = "wait", !.buf = None]
      /\ cmd'.pc = "wait" /\ cmd'.buf = None /\ cmd'.queue = cmd.queue
      /\ doing' = [doing EXCEPT !["cmd"] = Own(f)]
      /\ UNCHANGED <<ctlVars, driver, bufVars, pollVars, poll, proc, held, broken>>
    BY DEF CmdDone, CmdOK, Types, Own
<1>2. Live /\ ~Off /\ active /\ ctl # "streamon" /\ session \in Nat /\ "cmd" \in Workers
    BY <1>1 DEF Sessions, Off, NoCmd, Types, Workers
<1>3. Own(f) \in Frame /\ Own(f) # None /\ Own(f).of = session
    BY <1>1, <1>2, Owned
<1>4. /\ doing'["cmd"] = Own(f)
      /\ \A v \in Workers \ {"cmd"} : doing'[v] = doing[v]
      /\ doing' \in [Workers -> Frame \cup {None}]
    BY <1>1, <1>2, <1>3 DEF Types
<1>5. buf_lock # "cmd"
    BY <1>1, <1>2, StreamAssumption DEF LockOK
<1>6. Types'
    <2>1. /\ cmd' \in [pc : {"off", "wait", "call", "enqueue", "done", "exited"}, buf : Bufs \cup {None},
                queue : Seq(Bufs \cup {"EXIT"}), running : BOOLEAN]
        BY <1>1 DEF Types
    <2> QED
        BY <1>1, <1>4, <2>1 DEF Types, ctlVars, bufVars, pollVars
<1>7. Sessions' /\ Frames' /\ CmdOK' /\ LockOK'
    <2>1. Sessions' /\ CmdOK'
        BY <1>1, <1>2 DEF Sessions, Off, Live, CmdOK, ctlVars
    <2>2. LockOK'
        BY <1>1, <1>2, <1>4, <1>5 DEF LockOK, Types, Off, Live, ctlVars, bufVars
    <2>3. Frames'
        BY <1>1, <1>2, <1>3, <1>4 DEF Frames, ctlVars
    <2> QED
        BY <2>1, <2>2, <2>3
<1>8. CountOK'
    BY <1>1 DEF CountOK, ctlVars, bufVars, pollVars
<1>9. ASSUME NEW b \in Bufs PROVE BufOK(b)'
    <2>1. /\ BufOK(b) /\ Own(b)' = Own(b) /\ Own(b) # None /\ (Own(f) = Own(b) <=> f = b)
          /\ None # b
        BY <1>1, <1>2, Owned, StreamAssumption DEF Own, ctlVars
    <2>2. /\ Holders(b) = Refs(held, cmd, proc.mDataQ, doing, buf_lock, Own(b), b)
          /\ Holders(b)' = Refs(held, cmd', proc.mDataQ, doing', buf_lock, Own(b), b)
          /\ Times(cmd.queue, b) \in Nat /\ Times(proc.mDataQ, Own(b)) \in Nat
        BY <1>1, <1>6, <2>1, HoldersAre, HoldersBecome DEF bufVars
    <2> DEFINE here == (IF Bundle(b) \in held THEN 1 ELSE 0) + (IF Hal(b) \in held THEN 1 ELSE 0)
               one == IF f = b THEN 1 ELSE 0
               o == OthersGiving(doing, buf_lock, Own(b), "cmd")
               t1 == Times(cmd.queue, b)
               t2 == Times(proc.mDataQ, Own(b))
    <2>3. Holders(b) = here + t1 + one + 0 + t2 + (0 + o)
        <3>1. Giving(doing, buf_lock, Own(b), "cmd") = 0
            BY <1>1, <2>1 DEF Giving
        <3>2. ~(cmd.buf = b /\ cmd.pc = "enqueue")
            BY <1>1
        <3> QED
            BY <1>2, <2>2, <3>1, <3>2, RefsSplit
    <2>4. Holders(b)' = here + t1 + 0 + 0 + t2 + (one + o)
        <3>1. OthersGiving(doing', buf_lock, Own(b), "cmd") = o
            BY <1>2, <1>4, OthersSame
        <3>2. Giving(doing', buf_lock, Own(b), "cmd") = one
            BY <1>4, <1>5, <2>1 DEF Giving
        <3>3. Holders(b)' = here + Times(cmd'.queue, b) + (IF cmd'.buf = b THEN 1 ELSE 0)
                + (IF cmd'.buf = b /\ cmd'.pc = "enqueue" THEN 1 ELSE 0) + t2
                + (Giving(doing', buf_lock, Own(b), "cmd") + OthersGiving(doing', buf_lock, Own(b), "cmd"))
            <4>1. Times(cmd'.queue, b) \in Nat
                BY <1>1, <2>2
            <4> QED
                BY <1>2, <2>2, <4>1, RefsSplit
        <3> QED
            BY <1>1, <2>1, <3>1, <3>2, <3>3
    <2>5. here \in Nat /\ one \in Nat /\ o \in Nat /\ t1 \in Nat /\ t2 \in Nat
        BY <2>2 DEF Giving, OthersGiving
    <2>6. Holders(b)' = Holders(b)
        <3> HIDE DEF here, t1, one, t2, o
        <3> QED
            BY <2>3, <2>4, <2>5
    <2>7. OnTheWay(b)' = OnTheWay(b)
        BY <1>1, <2>1, <2>2 DEF OnTheWay, Once
    <2>8. WithDriver(b)' = WithDriver(b)
        <3>1. buf_lock # None => doing'[buf_lock] = doing[buf_lock]
            BY <1>4, <1>5 DEF Types
        <3> QED
            BY <1>1, <3>1 DEF WithDriver, InHand, Once, ctlVars, bufVars
    <2> QED
        BY <1>1, <2>1, <2>6, <2>7, <2>8 DEF BufOK, bufVars
<1> QED
    BY <1>6, <1>7, <1>8, <1>9

-----------------------------------------------------------------------------
(* The proc thread                                                         *)

\* The first frame of mDataQ, and the others.
LEMMA FirstFrame ==
    ASSUME Types, Frames, proc.mDataQ # <<>>
    PROVE  /\ Head(proc.mDataQ) \in Frame /\ Head(proc.mDataQ).of \in Nat
           /\ Head(proc.mDataQ).of <= session
           /\ ctl = "streamon" => Head(proc.mDataQ).of < session
           /\ Tail(proc.mDataQ) \in Seq(Frame)
           /\ \A i \in DOMAIN Tail(proc.mDataQ) :
                 /\ Tail(proc.mDataQ)[i].of <= session
                 /\ ctl = "streamon" => Tail(proc.mDataQ)[i].of < session
           /\ \A b \in Bufs :
                 /\ Times(Tail(proc.mDataQ), Own(b)) \in Nat
                 /\ Times(proc.mDataQ, Own(b)) =
                      Times(Tail(proc.mDataQ), Own(b)) + (IF Head(proc.mDataQ) = Own(b) THEN 1 ELSE 0)
<1> DEFINE q == proc.mDataQ
           t == Tail(q)
           Past(of) == of <= session /\ (ctl = "streamon" => of < session)
<1>1. q \in Seq(Frame) /\ q # <<>>
    BY DEF Types
<1>2. /\ Head(q) \in Frame /\ t \in Seq(Frame)
      /\ \A b \in Bufs : /\ Times(t, Own(b)) \in Nat
                         /\ Times(q, Own(b)) = Times(t, Own(b)) + (IF Head(q) = Own(b) THEN 1 ELSE 0)
    <2> HIDE DEF q
    <2> QED
        BY <1>1, TimesTaken
<1>3. \A i \in DOMAIN q : Past(q[i].of)
    BY DEF Frames
<1>4. Past(Head(q).of) /\ \A i \in DOMAIN t : Past(t[i].of)
    <2> HIDE DEF q, Past
    <2>1. /\ Len(q) \in Nat /\ Len(t) = Len(q) - 1 /\ DOMAIN q = 1 .. Len(q) /\ DOMAIN t = 1 .. Len(t)
          /\ Len(q) # 0 /\ Head(q) = q[1] /\ \A i \in 1 .. Len(t) : t[i] = q[i + 1]
        BY <1>1, <1>2, HeadTailProperties, LenProperties, EmptySeq
    <2>2. 1 \in DOMAIN q /\ \A i \in DOMAIN t : i + 1 \in DOMAIN q
        BY <2>1
    <2> QED
        BY <1>3, <2>1, <2>2
<1>5. Head(q).of \in Nat
    BY <1>2 DEF Frame
<1> QED
    BY <1>2, <1>4, <1>5

\* A frame of an earlier session is nowhere.
LEMMA StaleTaken ==
    ASSUME IInv, Types', NEW b \in Bufs, BufOK(b),
           proc.mDataQ # <<>>, Head(proc.mDataQ).of < session,
           proc'.mDataQ = Tail(proc.mDataQ),
           UNCHANGED <<session, driver, bufVars, poll, cmd, held, doing>>
    PROVE  BufOK(b)'
<1> USE DEF IInv
<1>1. session \in Nat /\ Own(b)' = Own(b) /\ Own(b).of = session
    BY Owned DEF Types, Own
<1>2. Times(proc.mDataQ, Own(b)) = Times(proc'.mDataQ, Own(b))
    <2>1. Head(proc.mDataQ) # Own(b)
        BY <1>1, FirstFrame
    <2> QED
        BY <2>1, FirstFrame
<1>3. Holders(b)' = Holders(b) /\ OnTheWay(b)' = OnTheWay(b)
    BY <1>1, <1>2 DEF Holders, OnTheWay, Once, bufVars
<1>4. WithDriver(b)' = WithDriver(b)
    BY DEF WithDriver, InHand, Once, bufVars
<1> QED
    BY <1>3, <1>4 DEF BufOK, Once, bufVars

LEMMA ProcJobOK == IInv /\ ProcJob => IInv'
<1> SUFFICES ASSUME IInv, ProcJob PROVE IInv'
    OBVIOUS
<1> DEFINE q == proc.mDataQ
           f == Head(q).buf
<1> USE DEF IInv
<1>1. /\ proc.runs /\ ~proc.exit
      /\ proc'.runs = proc.runs /\ proc'.exit = proc.exit
      /\ proc' \in [runs : BOOLEAN, jobs : Nat, exit : BOOLEAN, mDataQ : Seq(Frame)]
      /\ proc'.mDataQ = (IF q = <<>> THEN q ELSE Tail(q))
      /\ UNCHANGED <<ctlVars, driver, bufVars, pollVars, poll, cmd, doing>>
    <2>1. q # <<>> => Tail(q) \in Seq(Frame)
        BY FirstFrame
    <2>2. proc.jobs - 1 \in Nat
        <3>1. proc.jobs \in Nat /\ proc.jobs > 0
            BY DEF ProcJob, Types
        <3> QED
            BY <3>1
    <2>3. proc' = [proc EXCEPT !.jobs = proc.jobs - 1, !.mDataQ = IF q = <<>> THEN q ELSE Tail(q)]
        BY DEF ProcJob
    <2>4. proc \in [runs : BOOLEAN, jobs : Nat, exit : BOOLEAN, mDataQ : Seq(Frame)]
        BY DEF Types
    <2>5. proc' \in [runs : BOOLEAN, jobs : Nat, exit : BOOLEAN, mDataQ : Seq(Frame)]
        BY <2>1, <2>2, <2>3, <2>4
    <2> QED
        BY <2>3, <2>4, <2>5 DEF ProcJob
<1>2. Live
    BY <1>1 DEF Sessions
<1>3. CmdOK' /\ LockOK' /\ Frames'
    <2>1. CmdOK' /\ LockOK'
        BY <1>1 DEF CmdOK, LockOK, Off, Live, ctlVars, bufVars
    <2>2. Frames'
        BY <1>1, FirstFrame DEF Frames, ctlVars
    <2> QED
        BY <2>1, <2>2
<1>4. CASE q = <<>>
    <2>1. UNCHANGED <<held, broken>> /\ proc'.mDataQ = proc.mDataQ
        BY <1>1, <1>4 DEF ProcJob
    <2>2. Types' /\ Sessions' /\ CountOK'
        BY <1>1, <1>2, <2>1 DEF Types, Sessions, CountOK, Off, Live, ctlVars, bufVars, pollVars
    <2>3. ASSUME NEW b \in Bufs PROVE BufOK(b)'
        BY <1>1, <1>2, <2>1, BufSame DEF ctlVars, bufVars
    <2> QED
        BY <1>3, <2>2, <2>3
<1>5. CASE q # <<>> /\ Head(q).of < session
    <2>1. broken' = "stale frame" /\ held' = held /\ proc'.mDataQ = Tail(q)
        BY <1>1, <1>5 DEF ProcJob
    <2>2. Types' /\ Sessions' /\ CountOK'
        <3>1. Types'
            <4>1. held' = held
                BY <2>1
            <4> QED
                BY <1>1, <4>1 DEF Types, ctlVars, bufVars, pollVars
        <3>2. Sessions'
            BY <1>1, <1>2, <2>1 DEF Sessions, Off, Live, ctlVars
        <3>3. CountOK'
            BY <1>1, <2>1 DEF CountOK, pollVars
        <3> QED
            BY <3>1, <3>2, <3>3
    <2>3. ASSUME NEW b \in Bufs PROVE BufOK(b)'
        BY <1>1, <1>2, <1>5, <2>1, <2>2, StaleTaken DEF ctlVars
    <2> QED
        BY <1>3, <2>2, <2>3
<1>6. CASE q # <<>> /\ ~(Head(q).of < session)
    <2>1. /\ held' = held \cup {Hal(f)} /\ broken' = broken /\ proc'.mDataQ = Tail(q)
          /\ Head(q) \in Frame /\ f \in Bufs /\ session \in Nat
        BY <1>1, <1>6, FirstFrame DEF ProcJob, Hal, Frame, Types
    <2>2. Head(q) = Own(f) /\ ctl # "streamon"
        BY <1>6, <2>1, FirstFrame, Owned
    <2>3. Types'
        <3>1. held' \subseteq [via : {"bundle", "hal"}, buf : Bufs]
            BY <2>1 DEF Types, Hal
        <3> QED
            BY <1>1, <3>1 DEF Types, ctlVars, bufVars, pollVars
    <2>4. Sessions' /\ CountOK'
        BY <1>1, <1>2, <2>1 DEF Sessions, CountOK, Off, Live, ctlVars, bufVars, pollVars
    <2>5. ASSUME NEW b \in Bufs PROVE BufOK(b)'
        <3>1. BufOK(b) /\ Own(b)' = Own(b) /\ (Own(f) = Own(b) <=> f = b)
            BY <1>1, <1>2, <2>1, Owned DEF Own, ctlVars
        <3>2. /\ Holders(b) = Refs(held, cmd, q, doing, buf_lock, Own(b), b)
              /\ Holders(b)' = Refs(held', cmd, proc'.mDataQ, doing, buf_lock, Own(b), b)
              /\ Times(cmd.queue, b) \in Nat
            BY <1>1, <2>3, <3>1, HoldersAre, HoldersBecome DEF bufVars
        <3>3. /\ Times(proc'.mDataQ, Own(b)) \in Nat
              /\ Times(q, Own(b)) = Times(proc'.mDataQ, Own(b)) + (IF f = b THEN 1 ELSE 0)
            BY <1>6, <2>1, <2>2, <3>1, FirstFrame
        <3>4. f = b => Hal(b) \notin held
            <4> DEFINE onCall == IF cmd.buf = b /\ cmd.pc \in {"call", "enqueue"} THEN 1 ELSE 0
                       h == IF Hal(b) \in held THEN 1 ELSE 0
                       t1 == Times(cmd.queue, b)
                       t2 == Times(proc'.mDataQ, Own(b))
                       one == IF f = b THEN 1 ELSE 0
            <4>1. OnTheWay(b) = h + t1 + onCall + (t2 + one)
                BY <3>3 DEF OnTheWay, Once, Hal
            <4>2. OnTheWay(b) <= 1
                BY <3>1 DEF BufOK
            <4>3. h \in Nat /\ t1 \in Nat /\ onCall \in Nat /\ t2 \in Nat
                BY <3>2, <3>3
            <4>4. one = 1 => h = 0
                <5> HIDE DEF h, t1, onCall, t2, one
                <5> QED
                    BY <4>1, <4>2, <4>3
            <4> QED
                BY <4>4
        <3>5. /\ (Bundle(b) \in held') = (Bundle(b) \in held)
              /\ (Hal(b) \in held') = (Hal(b) \in held \/ f = b)
            BY <2>1 DEF Bundle, Hal
        <3> DEFINE bun == IF Bundle(b) \in held THEN 1 ELSE 0
                   h == IF Hal(b) \in held THEN 1 ELSE 0
                   one == IF f = b THEN 1 ELSE 0
                   c1 == IF cmd.buf = b THEN 1 ELSE 0
                   c2 == IF cmd.buf = b /\ cmd.pc = "enqueue" THEN 1 ELSE 0
                   on == IF cmd.buf = b /\ cmd.pc \in {"call", "enqueue"} THEN 1 ELSE 0
                   t1 == Times(cmd.queue, b)
                   t2 == Times(proc'.mDataQ, Own(b))
                   g == Giving(doing, buf_lock, Own(b), "cmd") + Giving(doing, buf_lock, Own(b), "proc")
                          + Giving(doing, buf_lock, Own(b), "user")
        <3>6. (IF Hal(b) \in held' THEN 1 ELSE 0) = h + one
            BY <3>4, <3>5
        <3>7. Holders(b) = (bun + h) + t1 + c1 + c2 + (t2 + one) + g
            BY <3>2, <3>3 DEF Refs
        <3>8. Holders(b)' = (bun + (h + one)) + t1 + c1 + c2 + t2 + g
            BY <3>2, <3>5, <3>6 DEF Refs
        <3>9. /\ OnTheWay(b) = h + t1 + on + (t2 + one)
              /\ OnTheWay(b)' = (h + one) + t1 + on + t2
            BY <1>1, <3>1, <3>3, <3>6 DEF OnTheWay, Once, Hal
        <3>10. /\ bun \in Nat /\ h \in Nat /\ one \in Nat /\ c1 \in Nat /\ c2 \in Nat /\ on \in Nat
               /\ t1 \in Nat /\ t2 \in Nat /\ g \in Nat
            BY <3>2, <3>3 DEF Giving
        <3>11. Holders(b)' = Holders(b) /\ OnTheWay(b)' = OnTheWay(b)
            <4> HIDE DEF bun, h, one, c1, c2, on, t1, t2, g
            <4> QED
                BY <3>7, <3>8, <3>9, <3>10
        <3>12. WithDriver(b)' = WithDriver(b)
            BY <1>1 DEF WithDriver, InHand, Once, ctlVars, bufVars
        <3> QED
            BY <1>1, <3>1, <3>11, <3>12 DEF BufOK, Once, bufVars
    <2> QED
        BY <1>3, <2>3, <2>4, <2>5
<1> QED
    BY <1>4, <1>5, <1>6

LEMMA ProcFlushOK == IInv /\ ProcFlush => IInv'
<1> SUFFICES ASSUME IInv, ProcFlush PROVE IInv'
    OBVIOUS
<1> DEFINE q == proc.mDataQ
           f == Head(q).buf
<1> USE DEF IInv
<1>1. /\ q # <<>> /\ doing["proc"] = None
      /\ proc'.runs = proc.runs /\ proc'.exit = proc.exit
      /\ proc' \in [runs : BOOLEAN, jobs : Nat, exit : BOOLEAN, mDataQ : Seq(Frame)]
      /\ proc'.mDataQ = Tail(q)
      /\ UNCHANGED <<ctlVars, driver, bufVars, pollVars, poll, cmd, held>>
    <2>1. Tail(q) \in Seq(Frame)
        BY FirstFrame DEF ProcFlush
    <2>2. proc' = [proc EXCEPT !.mDataQ = Tail(q)]
        BY DEF ProcFlush
    <2>3. proc \in [runs : BOOLEAN, jobs : Nat, exit : BOOLEAN, mDataQ : Seq(Frame)]
        BY DEF Types
    <2>4. proc' \in [runs : BOOLEAN, jobs : Nat, exit : BOOLEAN, mDataQ : Seq(Frame)]
        BY <2>1, <2>2, <2>3
    <2> QED
        BY <2>2, <2>3, <2>4 DEF ProcFlush
<1>2. \A i \in DOMAIN proc'.mDataQ :
         /\ proc'.mDataQ[i].of <= session
         /\ ctl = "streamon" => proc'.mDataQ[i].of < session
    BY <1>1, FirstFrame
<1>3. CASE Head(q).of < session
    <2>1. broken' = "stale frame" /\ doing' = doing
        BY <1>3 DEF ProcFlush
    <2>2. Types'
        <3>1. doing' = doing
            BY <2>1
        <3> QED
            BY <1>1, <3>1 DEF Types, ctlVars, bufVars, pollVars
    <2>3. Sessions' /\ CmdOK' /\ LockOK'
        BY <1>1, <2>1 DEF Sessions, CmdOK, LockOK, Off, Live, ctlVars, bufVars
    <2>4. Frames'
        BY <1>1, <1>2, <2>1 DEF Frames, ctlVars
    <2>5. CountOK'
        BY <1>1, <2>1 DEF CountOK, pollVars
    <2>6. ASSUME Live, NEW b \in Bufs PROVE BufOK(b)'
        BY <1>1, <1>3, <2>1, <2>2, <2>6, StaleTaken DEF ctlVars
    <2>7. Live' = Live
        BY <1>1 DEF Live, ctlVars
    <2> QED
        BY <2>2, <2>3, <2>4, <2>5, <2>6, <2>7
<1>4. CASE ~(Head(q).of < session)
    <2>1. /\ Head(q) \in Frame /\ f \in Bufs /\ session \in Nat /\ broken' = broken
          /\ "proc" \in Workers
        BY <1>1, <1>4, FirstFrame DEF ProcFlush, Frame, Types, Workers
    <2>2. Head(q) = Own(f) /\ ctl # "streamon"
        BY <1>1, <1>4, <2>1, FirstFrame, Owned
    <2>3. Own(f) \in Frame /\ Own(f) # None /\ Own(f).of = session
        BY <2>1, Owned
    <2>4. active <=> Live
        BY <2>2 DEF Sessions, Off
    <2>5. doing' = IF active THEN [doing EXCEPT !["proc"] = Own(f)] ELSE doing
        BY <1>4 DEF ProcFlush, Qbuf, Own
    <2>6. /\ doing'["proc"] = (IF active THEN Own(f) ELSE None)
          /\ \A v \in Workers \ {"proc"} : doing'[v] = doing[v]
          /\ doing' \in [Workers -> Frame \cup {None}]
        BY <1>1, <2>1, <2>3, <2>5 DEF Types
    <2>7. buf_lock # "proc"
        BY <1>1, <2>1, StreamAssumption DEF LockOK
    <2>8. Types'
        BY <1>1, <2>1, <2>6 DEF Types, ctlVars, bufVars, pollVars
    <2>9. Sessions' /\ CmdOK' /\ LockOK'
        <3>1. Sessions'
            BY <1>1 DEF Sessions, Off, Live, ctlVars
        <3>2. CmdOK'
            BY <1>1, <2>6 DEF CmdOK, Workers
        <3>3. LockOK'
            BY <1>1, <2>6, <2>7 DEF LockOK, Types, Off, Live, ctlVars, bufVars
        <3> QED
            BY <3>1, <3>2, <3>3
    <2>10. Frames'
        <3>1. session <= session
            BY <2>1
        <3>2. \A w \in Workers : doing'[w] # None =>
                  doing'[w].of <= session /\ (ctl = "streamon" => doing'[w].of < session)
            BY <1>1, <2>2, <2>3, <2>6, <3>1 DEF Frames
        <3> QED
            BY <1>1, <1>2, <3>2 DEF Frames, ctlVars
    <2>11. CountOK'
        BY <1>1, <2>1 DEF CountOK, ctlVars, bufVars, pollVars
    <2>12. ASSUME Live, NEW b \in Bufs PROVE BufOK(b)'
        <3>1. /\ BufOK(b) /\ Own(b)' = Own(b) /\ Own(b) # None /\ (Own(f) = Own(b) <=> f = b)
            BY <1>1, <2>1, <2>12, Owned DEF Own, ctlVars
        <3>2. /\ Holders(b) = Refs(held, cmd, q, doing, buf_lock, Own(b), b)
              /\ Holders(b)' = Refs(held, cmd, proc'.mDataQ, doing', buf_lock, Own(b), b)
              /\ Times(cmd.queue, b) \in Nat
            BY <1>1, <2>8, <3>1, HoldersAre, HoldersBecome DEF bufVars
        <3>3. /\ Times(proc'.mDataQ, Own(b)) \in Nat
              /\ Times(q, Own(b)) = Times(proc'.mDataQ, Own(b)) + (IF f = b THEN 1 ELSE 0)
            BY <1>1, <2>2, <3>1, FirstFrame
        <3> DEFINE here == (IF Bundle(b) \in held THEN 1 ELSE 0) + (IF Hal(b) \in held THEN 1 ELSE 0)
                   one == IF f = b THEN 1 ELSE 0
                   c1 == IF cmd.buf = b THEN 1 ELSE 0
                   c2 == IF cmd.buf = b /\ cmd.pc = "enqueue" THEN 1 ELSE 0
                   t1 == Times(cmd.queue, b)
                   t2 == Times(proc'.mDataQ, Own(b))
                   o == OthersGiving(doing, buf_lock, Own(b), "proc")
        <3>4. Holders(b) = here + t1 + c1 + c2 + (t2 + one) + (0 + o)
            <4>1. Giving(doing, buf_lock, Own(b), "proc") = 0
                BY <1>1, <3>1 DEF Giving
            <4>2. Times(q, Own(b)) \in Nat
                BY <3>3
            <4> HIDE DEF q
            <4> QED
                BY <2>1, <3>2, <3>3, <4>1, <4>2, RefsSplit
        <3>5. Holders(b)' = here + t1 + c1 + c2 + t2 + (one + o)
            <4>1. OthersGiving(doing', buf_lock, Own(b), "proc") = o
                BY <2>1, <2>6, OthersSame
            <4>2. Giving(doing', buf_lock, Own(b), "proc") = one
                BY <2>4, <2>6, <2>7, <2>12, <3>1 DEF Giving
            <4>3. Holders(b)' = here + t1 + c1 + c2 + t2
                    + (Giving(doing', buf_lock, Own(b), "proc") + OthersGiving(doing', buf_lock, Own(b), "proc"))
                BY <2>1, <3>2, <3>3, RefsSplit
            <4> QED
                BY <4>1, <4>2, <4>3
        <3>6. /\ here \in Nat /\ one \in Nat /\ c1 \in Nat /\ c2 \in Nat /\ t1 \in Nat /\ t2 \in Nat
              /\ o \in Nat
            BY <3>2, <3>3 DEF Giving, OthersGiving
        <3>7. Holders(b)' = Holders(b)
            <4> HIDE DEF here, one, c1, c2, t1, t2, o
            <4> QED
                BY <3>4, <3>5, <3>6
        <3>8. OnTheWay(b)' <= OnTheWay(b) /\ OnTheWay(b) \in Int /\ OnTheWay(b)' \in Int
            <4> DEFINE s == Once([via |-> "hal", buf |-> b] \in held) + Times(cmd.queue, b)
                            + Once(cmd.buf = b /\ cmd.pc \in {"call", "enqueue"})
            <4>1. s \in Nat
                BY <3>2 DEF Once
            <4>2. OnTheWay(b) = s + (t2 + one) /\ OnTheWay(b)' = s + t2
                BY <1>1, <3>1, <3>3 DEF OnTheWay
            <4> HIDE DEF s, t2, one
            <4> QED
                BY <3>6, <4>1, <4>2
        <3>9. WithDriver(b)' = WithDriver(b)
            <4>1. buf_lock # None => doing'[buf_lock] = doing[buf_lock]
                BY <2>6, <2>7 DEF Types
            <4> QED
                BY <1>1, <4>1 DEF WithDriver, InHand, Once, ctlVars, bufVars
        <3>10. OnTheWay(b)' <= 1
            BY <3>1, <3>8 DEF BufOK
        <3> QED
            BY <1>1, <3>1, <3>7, <3>9, <3>10 DEF BufOK, Once, bufVars
    <2>13. Live' = Live
        BY <1>1 DEF Live, ctlVars
    <2> QED
        BY <2>8, <2>9, <2>10, <2>11, <2>12, <2>13
<1> QED
    BY <1>3, <1>4

-----------------------------------------------------------------------------
(* The theorems                                                            *)

LEMMA InitOK == Init => IInv
<1> SUFFICES ASSUME Init PROVE IInv
    OBVIOUS
<1>1. Types
    <2>1. \A S : <<>> \in Seq(S)
        BY EmptySeq
    <2>2. driver \in [queued : SUBSET Bufs, ready : Seq(Bufs), on : BOOLEAN] /\ pipe \in Seq(BOOLEAN)
        BY <2>1 DEF Init, NoDriver
    <2>3. cmd \in [pc : {"off", "wait", "call", "enqueue", "done", "exited"}, buf : Bufs \cup {None},
                queue : Seq(Bufs \cup {"EXIT"}), running : BOOLEAN]
        BY <2>1 DEF Init, NoCmd
    <2>4. proc \in [runs : BOOLEAN, jobs : Nat, exit : BOOLEAN, mDataQ : Seq(Frame)]
        BY <2>1 DEF Init
    <2>5. /\ poll \in [pc : {"poll", "notify", "count", "hand"}, buf : Bufs \cup {None}, of : Nat]
          /\ buf_refcnt \in [Bufs -> Nat] /\ doing \in [Workers -> Frame \cup {None}]
        BY DEF Init
    <2>6. {active, m_bActive, entry, polled} \subseteq BOOLEAN
        BY DEF Init
    <2>7. /\ session \in Nat /\ queued_buffer_count \in Int /\ refused \in Nat
          /\ held \subseteq [via : {"bundle", "hal"}, buf : Bufs] /\ buf_lock \in Workers \cup {None}
        BY DEF Init
    <2>8. ctl \in {"stopped", "streamon", "active", "del", "streamoff", "release", "join", "exited"}
        BY DEF Init
    <2> QED
        BY <2>2, <2>3, <2>4, <2>5, <2>6, <2>7, <2>8 DEF Types
<1>2. Sessions /\ ~Live
    BY DEF Init, Sessions, Live, Off, NoDriver
<1>3. Frames
    <2>1. proc.mDataQ = <<>> /\ DOMAIN proc.mDataQ = {}
        BY DEF Init
    <2>2. poll.pc = "poll" /\ \A w \in Workers : doing[w] = None
        BY DEF Init
    <2> QED
        BY <2>1, <2>2 DEF Frames
<1>4. CmdOK /\ LockOK /\ CountOK
    BY DEF Init, CmdOK, LockOK, CountOK, NoCmd
<1> QED
    BY <1>1, <1>2, <1>3, <1>4 DEF IInv

LEMMA StutterOK == IInv /\ UNCHANGED vars => IInv'
<1> SUFFICES ASSUME IInv, UNCHANGED vars PROVE IInv'
    OBVIOUS
<1> USE DEF IInv
<1>1. UNCHANGED <<ctlVars, driver, bufVars, pollVars, poll, cmd, proc, held, doing, broken>>
    BY DEF vars
<1>2. Types'
    BY <1>1 DEF Types, ctlVars, bufVars, pollVars
<1>3. Sessions' /\ Frames' /\ CmdOK' /\ LockOK'
    BY <1>1 DEF Sessions, Frames, CmdOK, LockOK, Off, Live, ctlVars, bufVars
<1>4. CountOK'
    BY <1>1 DEF CountOK, ctlVars, bufVars, pollVars
<1>5. ASSUME Live', NEW b \in Bufs PROVE BufOK(b)'
    BY <1>1, <1>5, BufSame DEF Live, ctlVars, bufVars
<1> QED
    BY <1>2, <1>3, <1>4, <1>5

(* The five threads, in any order the locks allow, keep the references,    *)
(* the counters and the places of the buffers in step.                     *)
THEOREM Invariance == Spec => []IInv
<1>1. IInv /\ [Next]_vars => IInv'
    <2> SUFFICES ASSUME IInv, Next PROVE IInv'
        BY StutterOK
    <2>0. broken = "none"
        BY DEF Next
    <2>1. CASE Control
        BY <2>1, StartOK, StartFailsOK, RegFailsOK, StreamOnOK, StopOK, StopPollingOK, StreamOffOK,
           ReleaseCmdOK, UnregisterOK, ProcJoinedOK DEF Control
    <2>2. CASE PollThread
        BY <2>0, <2>2, ProcPipeOK, PollDataOK, DqbufOK, CountFrameOK, HandFrameOK DEF PollThread
    <2>3. CASE CmdThread
        BY <2>0, <2>3, CmdTakeOK, CmdExitOK, CmdCallOK, CmdEnqueueOK, CmdDoneOK DEF CmdThread
    <2>4. CASE ProcThread
        BY <2>4, ProcJobOK, ProcFlushOK, ProcExitOK DEF ProcThread
    <2>5. CASE Fill
        BY <2>5, FillOK
    <2>6. ASSUME NEW w \in Workers, GiveBack(w) PROVE IInv'
        BY <2>0, <2>6, BufDoneOK, InvalidateFailsOK, QbufIoctlOK DEF GiveBack
    <2>7. ASSUME NEW h \in held, UserDone(h) PROVE IInv'
        BY <2>7, UserDoneOK
    <2> QED
        BY <2>1, <2>2, <2>3, <2>4, <2>5, <2>6, <2>7 DEF Next
<1> QED
    BY InitOK, <1>1, PTL DEF Spec

(* buf_refcnt of mm_stream is the number of places a frame is at, so       *)
(* mm_stream_buf_done gives a buffer to the driver after the last of its   *)
(* users, and no sooner.                                                   *)
THEOREM ReferencesAreHolders == Spec => []RefcountIsHolders
<1>1. IInv => RefcountIsHolders
    BY DEF IInv, RefcountIsHolders, Sessions, Off, BufOK
<1> QED
    BY <1>1, Invariance, PTL

(* mm_stream_data_notify and mm_stream_qbuf count the driver's buffers and *)
(* those it refused, and nothing else, whatever fails; they add and delete *)
(* the fd of the stream when this count leaves 0 and comes back to it, and *)
(* the poll thread learns of each.                                         *)
THEOREM PollingFollowsQueue == Spec => []PolledIffQueued
<1>1. IInv => PolledIffQueued
    <2> SUFFICES ASSUME IInv, ctl \in {"active", "del"}, LockFree, Sound
                 PROVE  /\ queued_buffer_count =
                             Cardinality(driver.queued) + Len(driver.ready)
                             + Once(poll.pc = "count") + refused
                        /\ entry <=> queued_buffer_count > 0
                        /\ polled # entry => pipe # <<>>
        BY DEF PolledIffQueued
    <2> DEFINE queued == Cardinality(driver.queued)
               ready == Len(driver.ready)
               reading == Once(poll.pc = "count")
    <2>1. /\ queued_buffer_count = queued + ready + reading + 0 + refused
          /\ entry <=> queued_buffer_count > 0
          /\ polled # entry => pipe # <<>>
        <3>1. CountOK /\ broken = "none" /\ buf_lock = None
            BY DEF IInv, Sound, LockFree
        <3>2. poll.pc = "count" => poll.of = session
            BY DEF Sound, Over
        <3> QED
            BY <3>1, <3>2 DEF CountOK, Once
    <2>2. queued \in Nat /\ ready \in Nat /\ reading \in Nat /\ refused \in Nat
        <3>1. driver.queued \subseteq Bufs /\ driver.ready \in Seq(Bufs) /\ refused \in Nat
            BY DEF IInv, Types
        <3> QED
            BY <3>1, StreamAssumption, FS_Subset, FS_CardinalityType, LenProperties DEF Once
    <2> HIDE DEF queued, ready, reading
    <2>3. queued_buffer_count = queued + ready + reading + refused
        BY <2>1, <2>2
    <2> QED
        BY <2>1, <2>3 DEF queued, ready, reading
<1> QED
    BY <1>1, Invariance, PTL
=============================================================================
