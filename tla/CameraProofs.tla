---------------------------- MODULE CameraProofs ----------------------------
(***************************************************************************)
(* The invariants of CameraApi, for every application, every length of a   *)
(* picture and every queue bound.  The handlers are made of operations,    *)
(* and what an operation may do to the camera is one of a few relations    *)
(* between the camera before and after it.                                 *)
(***************************************************************************)
EXTENDS CameraApi, TLAPS

DoneQueued(h) == Contains(h.evtQ, "SNAPSHOT_DONE")

\* The state and the modes are left alone.
Kept(h, g) ==
    /\ g.state = h.state
    /\ g.zsl = h.zsl /\ g.zslNew = h.zslNew
    /\ g.hint = h.hint /\ g.hintNew = h.hintNew
    /\ g.hintKey = h.hintKey /\ g.tmpHint = h.tmpHint
    /\ DoneQueued(h) => DoneQueued(g)

VideoOn(h) == h.ch["VIDEO"] = "on"

\* Besides, no preview channel is made, and the video channel streams as
\* before.
Calm(h, g) ==
    /\ HwOK(g) /\ Kept(h, g)
    /\ VideoOn(g) <=> VideoOn(h)
    /\ \A c \in {"ZSL", "PREVIEW"} : h.ch[c] = "none" => g.ch[c] = "none"

\* Every channel of the preview is gone.
Cleared(h, g) ==
    /\ HwOK(g) /\ Kept(h, g)
    /\ NoPreview(g) /\ ~ VideoOn(g)

\* The result of an operation.
Result(r) == r = [hw |-> r.hw, ok |-> r.ok] /\ r.ok \in BOOLEAN

LEMMA Made ==
    ASSUME NEW r, NEW x, NEW b \in BOOLEAN, r = [hw |-> x, ok |-> b]
    PROVE  r.hw = x /\ r.ok = b /\ Result(r)
BY DEF Result

LEMMA OtherHw ==
    ASSUME NEW r, Result(r), NEW x
    PROVE  [r EXCEPT !.hw = x] = [hw |-> x, ok |-> r.ok]
BY DEF Result

LEMMA CalmItself == ASSUME NEW h, HwOK(h) PROVE Calm(h, h)
BY DEF Calm, Kept

LEMMA CalmTwice ==
    ASSUME NEW h, NEW g, NEW k, Calm(h, g), Calm(g, k)
    PROVE  Calm(h, k)
BY DEF Calm, Kept

LEMMA CalmCleared ==
    ASSUME NEW h, NEW g, NEW k, Calm(h, g), Cleared(g, k)
    PROVE  Cleared(h, k)
BY DEF Calm, Cleared, Kept

-----------------------------------------------------------------------------
(* Channels                                                                *)

\* g is h but for what channel c is, and is the whole object.
Changed(h, g, c, x) ==
    /\ HwOK(g) /\ Kept(h, g) /\ g.long = h.long
    /\ g.ch = [h.ch EXCEPT ![c] = x]

SetChannel(h, c, x, n) == [h EXCEPT !.ch[c] = x, !.due[c] = n]

LEMMA ChannelSet ==
    ASSUME NEW h, HwOK(h), NEW c \in Channels, NEW x \in {"none", "idle", "on"}, NEW n
    PROVE  Changed(h, SetChannel(h, c, x, n), c, x)
<1> DEFINE g == SetChannel(h, c, x, n)
<1>1. Kept(h, g) /\ g.long = h.long /\ g.evtQ = h.evtQ
  BY DEF HwOK, Kept, DoneQueued, Opened, Record, SetChannel
<1>2. g.ch = [h.ch EXCEPT ![c] = x]
  BY DEF HwOK, Opened, Record, SetChannel
<1>3. Record(g)
  BY DEF HwOK, Opened, Record, SetChannel
<1> HIDE DEF g
<1>4. HwOK(g)
  BY <1>1, <1>2, <1>3 DEF HwOK, Kept
<1> QED  BY <1>1, <1>2, <1>4 DEF g, Changed

LEMMA Deleted ==
    ASSUME NEW h, HwOK(h), NEW c \in Channels
    PROVE  Changed(h, delChannel(h, c), c, "none")
<1>1. delChannel(h, c) = SetChannel(h, c, "none", 0)
  BY DEF delChannel, SetChannel
<1> QED  BY <1>1, ChannelSet

LEMMA Stopped ==
    ASSUME NEW h, HwOK(h), NEW c \in Channels
    PROVE  Changed(h, stopChannel(h, c), c, IF h.ch[c] = "on" THEN "idle" ELSE h.ch[c])
<1> DEFINE x == IF h.ch[c] = "on" THEN "idle" ELSE h.ch[c]
<1>1. x \in {"none", "idle", "on"}
  BY DEF HwOK
<1>2. stopChannel(h, c) = SetChannel(h, c, x, 0)
  BY DEF stopChannel, SetChannel
<1> HIDE DEF x
<1>3. Changed(h, stopChannel(h, c), c, x)
  BY <1>1, <1>2, ChannelSet
<1> QED  BY <1>3 DEF x

\* A channel that starts was there.
LEMMA Started ==
    ASSUME NEW h, HwOK(h), NEW c \in Channels, NEW r \in startChannel(h, c)
    PROVE  /\ Result(r)
           /\ \/ r.ok = FALSE /\ r.hw = h
              \/ r.ok = TRUE /\ h.ch[c] # "none" /\ Changed(h, r.hw, c, "on")
<1> DEFINE owed == IF c = "SNAPSHOT" \/ (c = "CAPTURE" /\ ~h.long) THEN Burst ELSE 0
           g == SetChannel(h, c, "on", owed)
<1> HIDE DEF owed
<1>1. Changed(h, g, c, "on")
  BY ChannelSet
<1>2. startChannel(h, c) = IF h.ch[c] = "none" THEN Fails(h) ELSE Either(h, g)
  BY DEF startChannel, SetChannel, owed
<1> HIDE DEF g
<1>3. \/ r = [hw |-> h, ok |-> FALSE]
      \/ r = [hw |-> g, ok |-> TRUE] /\ h.ch[c] # "none"
  BY <1>2 DEF Fails, Either, Works
<1>4. CASE r = [hw |-> h, ok |-> FALSE]
  BY <1>4, Made
<1>5. CASE r = [hw |-> g, ok |-> TRUE] /\ h.ch[c] # "none"
  BY <1>1, <1>5, Made
<1> QED  BY <1>3, <1>4, <1>5

\* A change of a channel is calm when it makes no preview channel and does
\* not start or stop the video channel.
LEMMA CalmChange ==
    ASSUME NEW h, HwOK(h), NEW g, NEW c \in Channels, NEW x, Changed(h, g, c, x),
           c \in {"ZSL", "PREVIEW"} => h.ch[c] # "none" \/ x = "none",
           c = "VIDEO" => ~ VideoOn(h) /\ x # "on"
    PROVE  Calm(h, g)
<1>1. \A d \in Channels : g.ch[d] = IF d = c THEN x ELSE h.ch[d]
  BY DEF Changed, HwOK
<1>2. VideoOn(g) <=> VideoOn(h)
  BY <1>1 DEF VideoOn, Channels
<1>3. \A d \in {"ZSL", "PREVIEW"} : h.ch[d] = "none" => g.ch[d] = "none"
  BY <1>1 DEF Channels
<1> QED  BY <1>2, <1>3 DEF Calm, Changed

LEMMA CalmOps ==
    ASSUME NEW h, HwOK(h), NEW c \in Channels \ {"VIDEO"}
    PROVE  /\ Calm(h, delChannel(h, c)) /\ Calm(h, stopChannel(h, c))
           /\ \A r \in startChannel(h, c) : Result(r) /\ Calm(h, r.hw)
<1>1. Calm(h, delChannel(h, c))
  BY Deleted, CalmChange
<1>2. Calm(h, stopChannel(h, c))
  <2> DEFINE x == IF h.ch[c] = "on" THEN "idle" ELSE h.ch[c]
  <2>1. Changed(h, stopChannel(h, c), c, x)
    BY Stopped
  <2>2. h.ch[c] = "none" => x = "none"
    OBVIOUS
  <2> HIDE DEF x
  <2> QED  BY <2>1, <2>2, CalmChange
<1>3. ASSUME NEW r \in startChannel(h, c) PROVE Result(r) /\ Calm(h, r.hw)
  <2>1. Result(r)
    BY Started
  <2>2. \/ r.ok = FALSE /\ r.hw = h
        \/ r.ok = TRUE /\ h.ch[c] # "none" /\ Changed(h, r.hw, c, "on")
    BY Started
  <2> QED  BY <2>1, <2>2, CalmItself, CalmChange
<1> QED  BY <1>1, <1>2, <1>3

\* A channel that is added does not stream, but for a preview channel that
\* was there; the ZSL channel takes the place of the preview channel.
LEMMA Added ==
    ASSUME NEW h, HwOK(h), NEW c \in Channels, ~ VideoOn(h), NEW r \in addChannel(h, c)
    PROVE  /\ Result(r) /\ HwOK(r.hw) /\ Kept(h, r.hw) /\ ~ VideoOn(r.hw)
           /\ c \notin {"ZSL", "PREVIEW"} => Calm(h, r.hw)
           /\ c = "PREVIEW" => /\ h.ch["ZSL"] = "none" => r.hw.ch["ZSL"] = "none"
                               /\ ~ r.ok => r.hw.ch["PREVIEW"] = "none"
           /\ c = "ZSL" => /\ r.hw.ch["PREVIEW"] = "none"
                           /\ ~ r.ok => r.hw.ch["ZSL"] = "none"
<1> DEFINE p == IF c = "ZSL" THEN delChannel(delChannel(h, "ZSL"), "PREVIEW") ELSE delChannel(h, c)
           g == [p EXCEPT !.ch[c] = "idle"]
<1>1. /\ HwOK(p) /\ Kept(h, p) /\ p.ch[c] = "none" /\ ~ VideoOn(p)
      /\ \A d \in {"ZSL", "PREVIEW"} : h.ch[d] = "none" => p.ch[d] = "none"
      /\ c = "ZSL" => p.ch["PREVIEW"] = "none"
  <2>1. CASE c = "ZSL"
    <3> DEFINE q == delChannel(h, "ZSL")
    <3>1. Changed(h, q, "ZSL", "none")
      BY <2>1, Deleted
    <3> HIDE DEF q
    <3>2. Changed(q, delChannel(q, "PREVIEW"), "PREVIEW", "none")
      BY <3>1, Deleted DEF Changed, Channels
    <3>3. p = delChannel(q, "PREVIEW")
      BY <2>1 DEF q
    <3> HIDE DEF p
    <3> QED  BY <2>1, <3>1, <3>2, <3>3 DEF Changed, Kept, VideoOn, HwOK, Channels
  <2>2. CASE c # "ZSL"
    <3>1. Changed(h, p, c, "none")
      BY <2>2, Deleted
    <3> HIDE DEF p
    <3> QED  BY <2>2, <3>1 DEF Changed, VideoOn, HwOK, Channels
  <2> QED  BY <2>1, <2>2
<1>2. addChannel(h, c) = IF c = "PREVIEW" /\ h.ch[c] # "none" THEN Works(h) ELSE Either(p, g)
  BY DEF addChannel
<1> HIDE DEF p
<1>3. Changed(p, g, c, "idle")
  <2>2. Kept(p, g) /\ g.long = p.long /\ g.evtQ = p.evtQ
    BY <1>1 DEF HwOK, Kept, DoneQueued, Opened, Record
  <2>3. g.ch = [p.ch EXCEPT ![c] = "idle"]
    BY <1>1 DEF HwOK, Opened, Record
  <2>4. Record(g)
    BY <1>1 DEF HwOK, Opened, Record
  <2> HIDE DEF g
  <2> QED  BY <1>1, <2>2, <2>3, <2>4 DEF HwOK, Kept, Changed
<1> HIDE DEF g
<1>4. \/ r = [hw |-> h, ok |-> TRUE] /\ c = "PREVIEW"
      \/ r = [hw |-> p, ok |-> FALSE]
      \/ r = [hw |-> g, ok |-> TRUE]
  BY <1>2 DEF Works, Fails, Either
<1>5. CASE r = [hw |-> h, ok |-> TRUE] /\ c = "PREVIEW"
  BY <1>5, CalmItself DEF Calm, Result
<1>6. CASE r = [hw |-> p, ok |-> FALSE]
  <2>1. r.hw = p /\ r.ok = FALSE /\ Result(r)
    BY <1>6 DEF Result
  <2>2. Calm(h, p)
    BY <1>1 DEF Calm
  <2> QED  BY <1>1, <2>1, <2>2
<1>7. CASE r = [hw |-> g, ok |-> TRUE]
  <2>1. r.hw = g /\ r.ok = TRUE /\ Result(r)
    BY <1>7 DEF Result
  <2>2. HwOK(g) /\ Kept(h, g)
    BY <1>1, <1>3 DEF Changed, Kept
  <2>3. \A d \in Channels : g.ch[d] = IF d = c THEN "idle" ELSE p.ch[d]
    BY <1>1, <1>3 DEF Changed, HwOK
  <2>4. ~ VideoOn(g)
    BY <1>1, <2>3 DEF VideoOn, Channels
  <2>5. c \notin {"ZSL", "PREVIEW"} => Calm(h, g)
    BY <1>1, <2>2, <2>3, <2>4 DEF Calm, Channels
  <2>6. c = "PREVIEW" => (h.ch["ZSL"] = "none" => g.ch["ZSL"] = "none")
    BY <1>1, <2>3 DEF Channels
  <2>7. c = "ZSL" => g.ch["PREVIEW"] = "none"
    BY <1>1, <2>3 DEF Channels
  <2> QED  BY <2>1, <2>2, <2>4, <2>5, <2>6, <2>7
<1> QED  BY <1>4, <1>5, <1>6, <1>7

LEMMA Unprepared ==
    ASSUME NEW h, HwOK(h)
    PROVE  /\ Cleared(h, unpreparePreview(h)) /\ Cleared(h, stopPreview(h))
           /\ \A c \in {"PREVIEW", "ZSL", "CAPTURE"} :
                Calm(h, delChannel(stopChannel(h, c), c))
<1>1. ASSUME NEW k, HwOK(k) PROVE Cleared(k, unpreparePreview(k))
  <2> DEFINE z == delChannel(k, "ZSL")
             p == delChannel(z, "PREVIEW")
             v == delChannel(p, "VIDEO")
             g == delChannel(v, "SNAPSHOT")
  <2>1. Changed(k, z, "ZSL", "none")
    BY <1>1, Deleted DEF Channels
  <2> HIDE DEF z
  <2>2. Changed(z, p, "PREVIEW", "none")
    BY <2>1, Deleted DEF Channels, Changed
  <2> HIDE DEF p
  <2>3. Changed(p, v, "VIDEO", "none")
    BY <2>2, Deleted DEF Channels, Changed
  <2> HIDE DEF v
  <2>4. Changed(v, g, "SNAPSHOT", "none")
    BY <2>3, Deleted DEF Channels, Changed
  <2>5. unpreparePreview(k) = g
    BY DEF unpreparePreview, z, p, v
  <2> HIDE DEF g
  <2>6. Kept(k, g) /\ HwOK(g)
    BY <2>1, <2>2, <2>3, <2>4 DEF Changed, Kept
  <2>7. g.ch["ZSL"] = "none" /\ g.ch["PREVIEW"] = "none" /\ g.ch["VIDEO"] = "none"
    BY <1>1, <2>1, <2>2, <2>3, <2>4 DEF Changed, HwOK, Channels
  <2> QED  BY <2>5, <2>6, <2>7 DEF Cleared, NoPreview, VideoOn
<1>2. Cleared(h, stopPreview(h))
  <2> DEFINE z == stopChannel(h, "ZSL")
             p == stopChannel(z, "PREVIEW")
  <2>1. Calm(h, z)
    BY CalmOps DEF Channels
  <2> HIDE DEF z
  <2>2. Calm(z, p)
    BY <2>1, CalmOps DEF Channels, Calm
  <2>3. stopPreview(h) = unpreparePreview(p)
    BY DEF stopPreview, z
  <2> HIDE DEF p
  <2> QED  BY <1>1, <2>1, <2>2, <2>3, CalmTwice, CalmCleared DEF Calm
<1>3. ASSUME NEW c \in {"PREVIEW", "ZSL", "CAPTURE"}
      PROVE  Calm(h, delChannel(stopChannel(h, c), c))
  <2>1. Calm(h, stopChannel(h, c))
    BY CalmOps DEF Channels
  <2>2. Calm(stopChannel(h, c), delChannel(stopChannel(h, c), c))
    BY <2>1, CalmOps DEF Channels, Calm
  <2> QED  BY <2>1, <2>2, CalmTwice
<1> QED  BY <1>1, <1>2, <1>3

-----------------------------------------------------------------------------
(* Preview and recording.  Where there is no preview, what is prepared is  *)
(* the channel of the modes, and nothing remains of a failure.             *)
Prepared(h, g, ok) ==
    /\ HwOK(g) /\ Kept(h, g) /\ ~ VideoOn(g)
    /\ NoPreview(h) => ChannelFits(g) /\ (~ ok => NoPreview(g))

\* The snapshot and the video channel come and go with the preview channel
\* of a recording.
LEMMA PreparedForRecording ==
    ASSUME NEW h, HwOK(h), ~ VideoOn(h), h.hint,
           NEW r \in AndThen(addChannel(h, "SNAPSHOT"),
                             LAMBDA s : AndThen(addChannel(s, "VIDEO"),
                             LAMBDA v : addChannel(v, "PREVIEW")))
    PROVE  Result(r) /\ Prepared(h, r.hw, r.ok)
<1>1. PICK s \in addChannel(h, "SNAPSHOT") :
        IF s.ok THEN r \in AndThen(addChannel(s.hw, "VIDEO"), LAMBDA v : addChannel(v, "PREVIEW"))
                ELSE r = s
  BY DEF AndThen
<1>2. Result(s) /\ Calm(h, s.hw) /\ ~ VideoOn(s.hw)
  BY Added DEF Channels
<1>3. ASSUME NEW g, Calm(h, g), ~ VideoOn(g) PROVE Prepared(h, g, FALSE)
  BY <1>3 DEF Calm, Prepared, NoPreview, ChannelFits
<1>4. CASE ~ s.ok
  BY <1>1, <1>2, <1>3, <1>4 DEF Result
<1>5. CASE s.ok
  <2>1. PICK v \in addChannel(s.hw, "VIDEO") :
          IF v.ok THEN r \in addChannel(v.hw, "PREVIEW") ELSE r = v
    BY <1>1, <1>5 DEF AndThen
  <2>2. Result(v) /\ Calm(s.hw, v.hw) /\ ~ VideoOn(v.hw)
    BY <1>2, Added DEF Channels, Calm
  <2>3. Calm(h, v.hw)
    BY <1>2, <2>2, CalmTwice
  <2>4. CASE ~ v.ok
    BY <2>1, <2>2, <2>3, <1>3, <2>4 DEF Result
  <2>5. CASE v.ok
    <3>1. r \in addChannel(v.hw, "PREVIEW")
      BY <2>1, <2>5
    <3>2. /\ Result(r) /\ HwOK(r.hw) /\ Kept(v.hw, r.hw) /\ ~ VideoOn(r.hw)
          /\ v.hw.ch["ZSL"] = "none" => r.hw.ch["ZSL"] = "none"
          /\ ~ r.ok => r.hw.ch["PREVIEW"] = "none"
      BY <2>2, <3>1, Added DEF Channels, Calm
    <3>3. Kept(h, r.hw)
      BY <2>3, <3>2 DEF Calm, Kept
    <3>4. r.hw.hint
      BY <3>3 DEF Kept
    <3> QED  BY <2>3, <3>2, <3>3, <3>4 DEF Calm, Prepared, NoPreview, ChannelFits, PreviewChannel
  <2> QED  BY <2>4, <2>5
<1> QED  BY <1>4, <1>5

LEMMA PreparedPreview ==
    ASSUME NEW h, HwOK(h), ~ VideoOn(h), NEW r \in preparePreview(h)
    PROVE  Result(r) /\ Prepared(h, r.hw, r.ok)
<1>1. CASE h.hint
  <2> DEFINE R == AndThen(addChannel(h, "SNAPSHOT"),
                          LAMBDA s : AndThen(addChannel(s, "VIDEO"),
                          LAMBDA v : addChannel(v, "PREVIEW")))
  <2>1. PICK q \in R : r = IF q.ok THEN q
                           ELSE [q EXCEPT !.hw = delChannel(delChannel(q.hw, "SNAPSHOT"), "VIDEO")]
    BY <1>1 DEF preparePreview, OnFail
  <2>2. Result(q) /\ Prepared(h, q.hw, q.ok)
    BY <1>1, PreparedForRecording
  <2> HIDE DEF R
  <2>3. CASE q.ok
    BY <2>1, <2>2, <2>3
  <2>4. CASE ~ q.ok
    <3> DEFINE s == delChannel(q.hw, "SNAPSHOT")
               v == delChannel(s, "VIDEO")
    <3>1. r.hw = v /\ r.ok = FALSE /\ Result(r)
      <4>1. r = [hw |-> v, ok |-> q.ok] /\ q.ok = FALSE
        BY <2>1, <2>2, <2>4, OtherHw DEF Result
      <4> HIDE DEF v
      <4> QED  BY <4>1 DEF Result
    <3>2. Calm(q.hw, s)
      BY <2>2, CalmOps DEF Prepared, Channels
    <3> HIDE DEF s
    <3>3. Changed(s, v, "VIDEO", "none")
      BY <3>2, Deleted DEF Calm, Channels
    <3> HIDE DEF v
    <3>4. Calm(s, v)
      BY <2>2, <3>2, <3>3, CalmChange DEF Prepared, Calm, Channels
    <3>5. Calm(q.hw, v)
      BY <3>2, <3>4, CalmTwice
    <3>6. Kept(h, v) /\ HwOK(v) /\ ~ VideoOn(v)
      BY <2>2, <3>5 DEF Prepared, Calm, Kept
    <3>7. NoPreview(h) => NoPreview(v)
      BY <2>2, <2>4, <3>5 DEF Prepared, Calm, NoPreview
    <3> QED  BY <3>1, <3>6, <3>7 DEF Prepared, NoPreview, ChannelFits
  <2> QED  BY <2>3, <2>4
<1>2. CASE ~ h.hint
  <2>1. r \in addChannel(h, PreviewChannel(h))
    BY <1>2 DEF preparePreview
  <2>2. CASE h.zsl
    <3>1. r \in addChannel(h, "ZSL")
      BY <1>2, <2>1, <2>2 DEF PreviewChannel
    <3>2. /\ Result(r) /\ HwOK(r.hw) /\ Kept(h, r.hw) /\ ~ VideoOn(r.hw)
          /\ r.hw.ch["PREVIEW"] = "none"
          /\ ~ r.ok => r.hw.ch["ZSL"] = "none"
      BY <3>1, Added DEF Channels
    <3>3. r.hw.zsl /\ ~ r.hw.hint
      BY <1>2, <2>2, <3>2 DEF Kept
    <3> QED  BY <3>2, <3>3 DEF Prepared, NoPreview, ChannelFits, PreviewChannel
  <2>3. CASE ~ h.zsl
    <3>1. r \in addChannel(h, "PREVIEW")
      BY <2>1, <2>3 DEF PreviewChannel
    <3>2. /\ Result(r) /\ HwOK(r.hw) /\ Kept(h, r.hw) /\ ~ VideoOn(r.hw)
          /\ h.ch["ZSL"] = "none" => r.hw.ch["ZSL"] = "none"
          /\ ~ r.ok => r.hw.ch["PREVIEW"] = "none"
      BY <3>1, Added DEF Channels
    <3>3. ~ r.hw.zsl
      BY <2>3, <3>2 DEF Kept
    <3> QED  BY <3>2, <3>3 DEF Prepared, NoPreview, ChannelFits, PreviewChannel
  <2> QED  BY <2>2, <2>3
<1> QED  BY <1>1, <1>2

LEMMA StartedPreview ==
    ASSUME NEW h, HwOK(h), NEW r \in startPreview(h)
    PROVE  Result(r) /\ Calm(h, r.hw)
BY CalmOps DEF startPreview, PreviewChannel, Channels

\* The handlers' own sequence does what preparing does, and clears away
\* what does not start.
LEMMA PreparedAndStarted ==
    ASSUME NEW h, HwOK(h), ~ VideoOn(h), NEW r \in PrepareAndStart(h)
    PROVE  Result(r) /\ Prepared(h, r.hw, r.ok)
<1>1. PICK p \in preparePreview(h) :
        IF p.ok THEN r \in OnFail(startPreview(p.hw), unpreparePreview) ELSE r = p
  BY DEF PrepareAndStart, AndThen
<1>2. Result(p) /\ Prepared(h, p.hw, p.ok)
  BY PreparedPreview
<1>3. CASE ~ p.ok
  BY <1>1, <1>2, <1>3
<1>4. CASE p.ok
  <2>1. PICK s \in startPreview(p.hw) :
          r = IF s.ok THEN s ELSE [s EXCEPT !.hw = unpreparePreview(s.hw)]
    BY <1>1, <1>4 DEF OnFail
  <2>2. Result(s) /\ Calm(p.hw, s.hw)
    BY <1>2, StartedPreview DEF Prepared
  <2>3. CASE s.ok
    BY <1>2, <1>4, <2>1, <2>2, <2>3
       DEF Calm, Prepared, Kept, NoPreview, ChannelFits, PreviewChannel, Result
  <2>4. CASE ~ s.ok
    <3> DEFINE u == unpreparePreview(s.hw)
    <3>1. Cleared(p.hw, u)
      BY <2>2, Unprepared, CalmCleared DEF Calm
    <3> HIDE DEF u
    <3>2. r = [hw |-> u, ok |-> FALSE]
      BY <2>1, <2>2, <2>4, OtherHw DEF Result, u
    <3>3. r.hw = u /\ r.ok = FALSE /\ Result(r)
      BY <3>2 DEF Result
    <3> QED  BY <1>2, <3>1, <3>3 DEF Cleared, Prepared, Kept, NoPreview, ChannelFits
  <2> QED  BY <2>3, <2>4
<1> QED  BY <1>3, <1>4

-----------------------------------------------------------------------------
(* Pictures: calm, all of it.                                              *)

\* What leaves the state, the modes, the channels and the events alone.
Aside(h, g) ==
    /\ Record(g) /\ g.long \in BOOLEAN
    /\ g.state = h.state /\ g.zsl = h.zsl /\ g.zslNew = h.zslNew
    /\ g.hint = h.hint /\ g.hintNew = h.hintNew
    /\ g.hintKey = h.hintKey /\ g.tmpHint = h.tmpHint
    /\ g.ch = h.ch /\ g.evtQ = h.evtQ

LEMMA CalmAside ==
    ASSUME NEW h, HwOK(h), NEW g, Aside(h, g)
    PROVE  Calm(h, g)
BY DEF Calm, HwOK, Kept, DoneQueued, VideoOn, Aside

LEMMA CalmFields ==
    ASSUME NEW h, HwOK(h), NEW x
    PROVE  /\ Calm(h, PostStarted(h)) /\ Calm(h, PostStop(h))
           /\ \A c \in Channels : Calm(h, Requested(h, c))
           /\ Calm(h, [h EXCEPT !.due["ZSL"] = 0])
           /\ Calm(h, [h EXCEPT !.job = x]) /\ Calm(h, [h EXCEPT !.live = x])
           /\ Calm(h, [h EXCEPT !.window = x])
           /\ Calm(h, [h EXCEPT !.dataQ = x])
           /\ x \in BOOLEAN => Calm(h, [h EXCEPT !.long = x])
<1> USE DEF HwOK, Record, Opened, Aside
<1>1. Aside(h, PostStarted(h))
  BY DEF PostStarted
<1>2. Aside(h, PostStop(h))
  BY DEF PostStop
<1>3. \A c \in Channels : Aside(h, Requested(h, c))
  BY DEF Requested
<1>4. Aside(h, [h EXCEPT !.due["ZSL"] = 0])
  OBVIOUS
<1>5. Aside(h, [h EXCEPT !.job = x])
  OBVIOUS
<1>6. Aside(h, [h EXCEPT !.live = x])
  OBVIOUS
<1>7. Aside(h, [h EXCEPT !.window = x])
  OBVIOUS
<1>8. Aside(h, [h EXCEPT !.dataQ = x])
  OBVIOUS
<1>9. x \in BOOLEAN => Aside(h, [h EXCEPT !.long = x])
  OBVIOUS
<1> HIDE DEF HwOK, Record, Opened, Aside
<1> QED  BY <1>1, <1>2, <1>3, <1>4, <1>5, <1>6, <1>7, <1>8, <1>9, CalmAside

LEMMA CalmLongShot ==
    ASSUME NEW h, HwOK(h), NEW r \in longShot(h)
    PROVE  Result(r) /\ Calm(h, r.hw)
<1> DEFINE c == IF h.zsl THEN "ZSL" ELSE "CAPTURE"
           g == Requested(h, c)
<1>1. Calm(h, g)
  BY CalmFields DEF Channels
<1>2. r \in Fails(h) \cup Either(h, g)
  BY DEF longShot
<1> HIDE DEF g
<1>3. r = [hw |-> h, ok |-> FALSE] \/ r = [hw |-> g, ok |-> TRUE]
  BY <1>2 DEF Fails, Either, Works
<1>4. Result(r) /\ (r.hw = h \/ r.hw = g)
  BY <1>3, Made
<1> QED  BY <1>1, <1>4, CalmItself

LEMMA CalmAdvanced ==
    ASSUME NEW h, HwOK(h), NEW r \in startAdvancedCapture(h)
    PROVE  Result(r) /\ Calm(h, r.hw)
<1>1. r = [hw |-> h, ok |-> FALSE] \/ r = [hw |-> h, ok |-> TRUE]
  BY DEF startAdvancedCapture, Either, Works, Fails
<1>2. Result(r) /\ r.hw = h
  BY <1>1, Made
<1> QED  BY <1>2, CalmItself

LEMMA CalmPostStart ==
    ASSUME NEW h, HwOK(h), NEW r \in PostStart(h)
    PROVE  Result(r) /\ Calm(h, r.hw)
<1> DEFINE g == PostStarted(h)
<1>1. Calm(h, g)
  BY CalmFields
<1>2. r \in Either(h, g) \cup Fails(g)
  BY DEF PostStart
<1> HIDE DEF g
<1>3. Result(r) /\ (r.hw = h \/ r.hw = g)
  <2>1. \/ r = [hw |-> h, ok |-> FALSE]
        \/ r = [hw |-> g, ok |-> TRUE]
        \/ r = [hw |-> g, ok |-> FALSE]
    BY <1>2 DEF Fails, Either, Works
  <2> QED  BY <2>1, Made
<1> QED  BY <1>1, <1>3, CalmItself

LEMMA CalmZslPicture ==
    ASSUME NEW h, HwOK(h), NEW r \in takeZslPicture(h)
    PROVE  Result(r) /\ Calm(h, r.hw)
<1>1. CASE h.ch["ZSL"] = "none"
  <2>1. r = [hw |-> h, ok |-> FALSE]
    BY <1>1 DEF takeZslPicture, Fails
  <2>2. r.hw = h /\ Result(r)
    BY <2>1, Made
  <2> QED  BY <2>2, CalmItself
<1>2. CASE h.ch["ZSL"] # "none"
  <2>1. PICK a \in AndThen(PostStart(h), startAdvancedCapture) :
          IF a.ok THEN r \in OnFail(Either(a.hw, Requested(a.hw, "ZSL")), PostStop) ELSE r = a
    BY <1>2 DEF takeZslPicture, AndThen
  <2>2. PICK p \in PostStart(h) : IF p.ok THEN a \in startAdvancedCapture(p.hw) ELSE a = p
    BY DEF AndThen
  <2>3. Result(p) /\ Calm(h, p.hw)
    BY CalmPostStart
  <2>4. Result(a) /\ Calm(h, a.hw)
    BY <2>2, <2>3, CalmAdvanced, CalmTwice DEF Calm
  <2>5. CASE ~ a.ok
    BY <2>1, <2>4, <2>5
  <2>6. CASE a.ok
    <3> DEFINE g == Requested(a.hw, "ZSL")
    <3>1. Calm(a.hw, g)
      BY <2>4, CalmFields DEF Calm, Channels
    <3>2. PICK q \in Either(a.hw, g) : r = IF q.ok THEN q ELSE [q EXCEPT !.hw = PostStop(q.hw)]
      BY <2>1, <2>6 DEF OnFail
    <3> HIDE DEF g
    <3>3. q = [hw |-> a.hw, ok |-> FALSE] \/ q = [hw |-> g, ok |-> TRUE]
      BY DEF Either, Works, Fails
    <3>4. Result(q) /\ (q.hw = a.hw \/ q.hw = g)
      BY <3>3, Made
    <3>5. Calm(h, q.hw)
      BY <2>4, <3>1, <3>4, CalmTwice
    <3>6. Calm(h, PostStop(q.hw))
      BY <3>5, CalmFields, CalmTwice DEF Calm
    <3>7. CASE q.ok
      BY <3>2, <3>4, <3>5, <3>7
    <3>8. CASE ~ q.ok
      <4>1. r = [hw |-> PostStop(q.hw), ok |-> q.ok] /\ q.ok \in BOOLEAN
        BY <3>2, <3>4, <3>8, OtherHw DEF Result
      <4> QED  BY <3>6, <4>1, Made
    <3> QED  BY <3>7, <3>8
  <2> QED  BY <2>5, <2>6
<1> QED  BY <1>1, <1>2

\* What fails takes the capture channel away.
LEMMA CalmGivenUp ==
    ASSUME NEW h, NEW r, Result(r), Calm(h, r.hw), NEW s,
           s = IF r.ok THEN r ELSE [r EXCEPT !.hw = delChannel(r.hw, "CAPTURE")]
    PROVE  Result(s) /\ Calm(h, s.hw)
<1>1. CASE r.ok
  BY <1>1
<1>2. CASE ~ r.ok
  <2>1. s = [hw |-> delChannel(r.hw, "CAPTURE"), ok |-> r.ok] /\ r.ok \in BOOLEAN
    BY <1>2, OtherHw DEF Result
  <2>2. Calm(h, delChannel(r.hw, "CAPTURE"))
    BY CalmOps, CalmTwice DEF Calm, Channels
  <2> QED  BY <2>1, <2>2, Made
<1> QED  BY <1>1, <1>2

\* The preview is gone, whether the picture is taken or not.
LEMMA CalmStillPicture ==
    ASSUME NEW h, HwOK(h), ~ VideoOn(h), NEW r \in takeStillPicture(h)
    PROVE  Result(r) /\ Calm(h, r.hw) /\ r.hw.ch["PREVIEW"] = "none"
<1> DEFINE start(p)  == OnFail(startChannel(p, "CAPTURE"), LAMBDA f : delChannel(f, "CAPTURE"))
           defer(p)  == startAdvancedCapture([p EXCEPT !.job = TRUE])
           burst(p)  == IF p.long
                        THEN OnFail(longShot(p), LAMBDA f : delChannel(f, "CAPTURE"))
                        ELSE Works(p)
           k == delChannel(stopChannel(h, "PREVIEW"), "PREVIEW")
<1>1. Calm(h, k)
  BY Unprepared
<1>2. k.ch["PREVIEW"] = "none"
  <2> DEFINE s == stopChannel(h, "PREVIEW")
  <2>1. HwOK(s)
    BY CalmOps DEF Channels, Calm
  <2> HIDE DEF s
  <2>2. Changed(s, delChannel(s, "PREVIEW"), "PREVIEW", "none")
    BY <2>1, Deleted DEF Channels
  <2>3. k = delChannel(s, "PREVIEW")
    BY DEF s
  <2> HIDE DEF k
  <2> QED  BY <2>1, <2>2, <2>3 DEF Channels, Changed, HwOK
<1>3. r \in AndThen(AndThen(AndThen(addChannel(k, "CAPTURE"), start), defer), burst)
  BY DEF takeStillPicture
<1> HIDE DEF k
<1>4. PICK d \in AndThen(AndThen(addChannel(k, "CAPTURE"), start), defer) :
        IF d.ok THEN r \in burst(d.hw) ELSE r = d
  BY <1>3 DEF AndThen
<1>5. PICK s \in AndThen(addChannel(k, "CAPTURE"), start) :
        IF s.ok THEN d \in defer(s.hw) ELSE d = s
  BY DEF AndThen
<1>6. PICK a \in addChannel(k, "CAPTURE") : IF a.ok THEN s \in start(a.hw) ELSE s = a
  BY DEF AndThen
<1>7. Result(a) /\ Calm(k, a.hw)
  BY <1>1, Added DEF Calm, Channels
<1>8. Result(s) /\ Calm(k, s.hw)
  <2>1. CASE ~ a.ok
    BY <1>6, <1>7, <2>1
  <2>2. CASE a.ok
    <3>1. PICK q \in startChannel(a.hw, "CAPTURE") :
            s = IF q.ok THEN q ELSE [q EXCEPT !.hw = delChannel(q.hw, "CAPTURE")]
      BY <1>6, <2>2 DEF OnFail
    <3>2. Result(q) /\ Calm(k, q.hw)
      BY <1>7, CalmOps, CalmTwice DEF Calm, Channels
    <3> QED  BY <3>1, <3>2, CalmGivenUp
  <2> QED  BY <2>1, <2>2
<1>9. Result(d) /\ Calm(k, d.hw)
  <2>1. CASE ~ s.ok
    BY <1>5, <1>8, <2>1
  <2>2. CASE s.ok
    <3> DEFINE j == [s.hw EXCEPT !.job = TRUE]
    <3>1. Calm(s.hw, j)
      <4>1. HwOK(s.hw)
        BY <1>8 DEF Calm
      <4> QED  BY <4>1, CalmFields, Zenon
    <3>2. d \in startAdvancedCapture(j)
      BY <1>5, <2>2
    <3> HIDE DEF j
    <3> QED  BY <1>8, <3>1, <3>2, CalmAdvanced, CalmTwice DEF Calm
  <2> QED  BY <2>1, <2>2
<1>10. Result(r) /\ Calm(k, r.hw)
  <2>1. CASE ~ d.ok
    BY <1>4, <1>9, <2>1
  <2>2. CASE d.ok /\ ~ d.hw.long
    <3>1. r = [hw |-> d.hw, ok |-> TRUE]
      BY <1>4, <2>2 DEF Works
    <3> QED  BY <1>9, <3>1, Made
  <2>3. CASE d.ok /\ d.hw.long
    <3>1. PICK q \in longShot(d.hw) :
            r = IF q.ok THEN q ELSE [q EXCEPT !.hw = delChannel(q.hw, "CAPTURE")]
      BY <1>4, <2>3 DEF OnFail
    <3>2. Result(q) /\ Calm(k, q.hw)
      BY <1>9, CalmLongShot, CalmTwice DEF Calm
    <3> QED  BY <3>1, <3>2, CalmGivenUp
  <2> QED  BY <2>1, <2>2, <2>3
<1> QED  BY <1>1, <1>2, <1>10, CalmTwice DEF Calm

LEMMA CalmPicture ==
    ASSUME NEW h, HwOK(h), ~ VideoOn(h), NEW r \in takePicture(h)
    PROVE  Result(r) /\ Calm(h, r.hw) /\ (~ h.zsl => r.hw.ch["PREVIEW"] = "none")
BY CalmZslPicture, CalmStillPicture DEF takePicture

LEMMA CalmCancel ==
    ASSUME NEW h, HwOK(h)
    PROVE  /\ Calm(h, cancelPicture(h)) /\ Calm(h, cancelLiveSnapshot(h))
           /\ Calm(h, stopCaptureChannel(h))
           /\ \A r \in takeLiveSnapshot(h) : Result(r) /\ Calm(h, r.hw)
<1>1. Calm(h, cancelPicture(h))
  <2> DEFINE p == PostStop(h)
  <2>1. Calm(h, p)
    BY CalmFields
  <2>2. cancelPicture(h) = IF h.zsl THEN [p EXCEPT !.due["ZSL"] = 0]
                                    ELSE delChannel(stopChannel(p, "CAPTURE"), "CAPTURE")
    BY DEF cancelPicture
  <2> HIDE DEF p
  <2>3. HwOK(p)
    BY <2>1 DEF Calm
  <2>4. Calm(p, [p EXCEPT !.due["ZSL"] = 0])
    BY <2>3, CalmFields, Zenon
  <2>5. Calm(p, delChannel(stopChannel(p, "CAPTURE"), "CAPTURE"))
    BY <2>3, Unprepared
  <2> QED  BY <2>1, <2>2, <2>4, <2>5, CalmTwice
<1>2. Calm(h, cancelLiveSnapshot(h))
  <2> DEFINE l == [h EXCEPT !.live = "none"]
             p == PostStop(l)
  <2>1. Calm(h, l)
    BY CalmFields, Zenon
  <2>2. cancelLiveSnapshot(h) = stopChannel(p, "SNAPSHOT")
    BY DEF cancelLiveSnapshot
  <2> HIDE DEF l
  <2>3. Calm(l, p)
    BY <2>1, CalmFields DEF Calm
  <2> HIDE DEF p
  <2>4. Calm(p, stopChannel(p, "SNAPSHOT"))
    BY <2>3, CalmOps DEF Calm, Channels
  <2> QED  BY <2>1, <2>2, <2>3, <2>4, CalmTwice
<1>3. Calm(h, stopCaptureChannel(h))
  BY CalmOps DEF stopCaptureChannel, Channels
<1>4. ASSUME NEW r \in takeLiveSnapshot(h) PROVE Result(r) /\ Calm(h, r.hw)
  <2> DEFINE l == [h EXCEPT !.live = "running"]
  <2>1. Calm(h, l)
    BY CalmFields, Zenon
  <2>2. r \in Either(h, l)
    BY <1>4 DEF takeLiveSnapshot
  <2> HIDE DEF l
  <2>3. r = [hw |-> h, ok |-> FALSE] \/ r = [hw |-> l, ok |-> TRUE]
    BY <2>2 DEF Either, Works, Fails
  <2>4. Result(r) /\ (r.hw = h \/ r.hw = l)
    BY <2>3, Made
  <2> QED  BY <2>1, <2>4, CalmItself
<1> QED  BY <1>1, <1>2, <1>3, <1>4

\* An event more.
LEMMA CalmEvent ==
    ASSUME NEW h, HwOK(h), NEW e \in Events
    PROVE  Calm(h, [h EXCEPT !.evtQ = Append(h.evtQ, e)])
<1> DEFINE q == Append(h.evtQ, e)
           g == [h EXCEPT !.evtQ = q]
<1>1. q \in Seq(Events) /\ (DoneQueued(h) => Contains(q, "SNAPSHOT_DONE"))
  BY DEF HwOK, DoneQueued, Contains
<1> HIDE DEF q
<1>2. /\ Record(g) /\ g.long = h.long
      /\ g.state = h.state /\ g.zsl = h.zsl /\ g.zslNew = h.zslNew
      /\ g.hint = h.hint /\ g.hintNew = h.hintNew
      /\ g.hintKey = h.hintKey /\ g.tmpHint = h.tmpHint
      /\ g.ch = h.ch /\ g.evtQ = q
  BY DEF HwOK, Record, Opened
<1> HIDE DEF g
<1>3. Calm(h, g)
  BY <1>1, <1>2 DEF Calm, HwOK, Kept, VideoOn, DoneQueued
<1> QED  BY <1>3 DEF g, q

LEMMA CalmCommand ==
    ASSUME NEW h, HwOK(h), NEW on, NEW r \in sendCommand(h, on)
    PROVE  Result(r) /\ Calm(h, r.hw)
<1>1. CASE on
  <2> DEFINE g == [h EXCEPT !.long = TRUE]
  <2>1. Calm(h, g)
    BY CalmFields, Zenon
  <2>2. r = [hw |-> h, ok |-> FALSE] \/ r = [hw |-> g, ok |-> TRUE]
    BY <1>1 DEF sendCommand, Works, Fails
  <2> HIDE DEF g
  <2>3. Result(r) /\ (r.hw = h \/ r.hw = g)
    BY <2>2, Made
  <2> QED  BY <2>1, <2>3, CalmItself
<1>2. CASE ~ on
  <2> DEFINE c == cancelPicture(h)
             d == [c EXCEPT !.evtQ = Append(c.evtQ, "SNAPSHOT_DONE")]
             p == IF h.long /\ isCaptureRunning(h) THEN d ELSE h
             g == [p EXCEPT !.long = FALSE]
  <2>1. Calm(h, c)
    BY CalmCancel
  <2>2. r = [hw |-> g, ok |-> TRUE]
    BY <1>2 DEF sendCommand, Works
  <2> HIDE DEF c
  <2>3. Calm(c, d)
    BY <2>1, CalmEvent DEF Calm, Events
  <2> HIDE DEF d
  <2>4. Calm(h, p)
    BY <2>1, <2>3, CalmItself, CalmTwice
  <2> HIDE DEF p
  <2>5. Calm(p, g)
    <3>1. HwOK(p)
      BY <2>4 DEF Calm
    <3> QED  BY <3>1, CalmFields, Zenon
  <2> HIDE DEF g
  <2>6. Result(r) /\ r.hw = g
    BY <2>2, Made
  <2> QED  BY <2>4, <2>5, <2>6, CalmTwice
<1> QED  BY <1>1, <1>2

LEMMA CalmJpegNotify ==
    ASSUME NEW h, HwOK(h), NEW r \in processJpegNotify(h)
    PROVE  Calm(h, r.hw)
<1> DEFINE g == [h EXCEPT !.notifyQ = Append(h.notifyQ, "JOB")]
<1>1. Aside(h, g)
  BY DEF Aside, HwOK, Record, Opened
<1>2. Calm(h, g)
  BY <1>1, CalmAside
<1>3. r \in Either(h, g)
  BY DEF processJpegNotify
<1> HIDE DEF g
<1>4. r.hw = h \/ r.hw = g
  BY <1>3 DEF Either, Works, Fails
<1> QED  BY <1>2, <1>4, CalmItself

-----------------------------------------------------------------------------
(* Parameters.                                                             *)
ModesAgree(h) == h.zslNew = h.zsl /\ h.hintNew = h.hint

\* Only the modes change.
Moded(h, g) == HwOK(g) /\ g.state = h.state /\ g.ch = h.ch /\ g.evtQ = h.evtQ

LEMMA StoredModes ==
    ASSUME NEW h, HwOK(h), NEW zsl \in BOOLEAN, NEW hint \in BOOLEAN,
           NEW r \in updateParameters(h, zsl, hint)
    PROVE  /\ Result(r) /\ Moded(h, r.hw) /\ (~ ParamsFail => r.ok)
           /\ r.hw.zsl = h.zsl /\ r.hw.hint = h.hint
           /\ r.hw.zslNew = zsl
           /\ r.hw.hintNew = IF hint # h.hintKey THEN hint ELSE h.hintNew
<1> DEFINE new == IF hint # h.hintKey THEN hint ELSE h.hintNew
           g == [h EXCEPT !.zslNew = zsl, !.hintNew = new, !.tmpHint = (hint # h.hintKey)]
<1>1. r \in IF ParamsFail THEN Either(g, g) ELSE Works(g)
  BY DEF updateParameters
<1>2. new \in BOOLEAN
  BY DEF HwOK
<1> HIDE DEF new
<1>3. /\ Record(g) /\ g.long = h.long /\ g.state = h.state /\ g.ch = h.ch /\ g.evtQ = h.evtQ
      /\ g.zsl = h.zsl /\ g.hint = h.hint /\ g.hintKey = h.hintKey
      /\ g.zslNew = zsl /\ g.hintNew = new /\ g.tmpHint \in BOOLEAN
  BY DEF HwOK, Record, Opened
<1> HIDE DEF g
<1>4. Moded(h, g)
  BY <1>2, <1>3 DEF Moded, HwOK
<1>5. (~ ParamsFail => r = [hw |-> g, ok |-> TRUE]) /\ \E b \in BOOLEAN : r = [hw |-> g, ok |-> b]
  BY <1>1 DEF Either, Works, Fails
<1>6. Result(r) /\ r.hw = g /\ (~ ParamsFail => r.ok)
  BY <1>5, Made
<1> QED  BY <1>3, <1>4, <1>6 DEF new

LEMMA CommittedModes ==
    ASSUME NEW h, HwOK(h), NEW r \in commitParameterChanges(h)
    PROVE  /\ Result(r) /\ Moded(h, r.hw)
           /\ r.hw.zslNew = h.zslNew /\ r.hw.hintNew = h.hintNew
           /\ r.ok => ModesAgree(r.hw)
           /\ ~ r.ok => ParamsFail /\ r.hw = h
<1> DEFINE new == IF h.tmpHint THEN h.hintNew ELSE h.hintKey
           g == [h EXCEPT !.hintKey = new, !.tmpHint = FALSE, !.hint = h.hintNew, !.zsl = h.zslNew]
<1>1. r \in (IF ParamsFail THEN Fails(h) ELSE {}) \cup Works(g)
  BY DEF commitParameterChanges, commitParamChanges
<1>2. new \in BOOLEAN
  BY DEF HwOK
<1> HIDE DEF new
<1>3. /\ Record(g) /\ g.long = h.long /\ g.state = h.state /\ g.ch = h.ch /\ g.evtQ = h.evtQ
      /\ g.zsl = h.zslNew /\ g.hint = h.hintNew /\ g.hintKey = new
      /\ g.zslNew = h.zslNew /\ g.hintNew = h.hintNew /\ g.tmpHint = FALSE
  BY DEF HwOK, Record, Opened
<1> HIDE DEF g
<1>4. Moded(h, g) /\ ModesAgree(g)
  BY <1>2, <1>3 DEF Moded, HwOK, ModesAgree
<1>5. r = [hw |-> g, ok |-> TRUE] \/ (ParamsFail /\ r = [hw |-> h, ok |-> FALSE])
  BY <1>1 DEF Works, Fails
<1>6. Moded(h, h)
  BY DEF Moded
<1>7. CASE r = [hw |-> g, ok |-> TRUE]
  <2>1. Result(r) /\ r.hw = g /\ r.ok
    BY <1>7, Made
  <2> QED  BY <1>3, <1>4, <2>1
<1>8. CASE ParamsFail /\ r = [hw |-> h, ok |-> FALSE]
  <2>1. Result(r) /\ r.hw = h /\ ~ r.ok
    BY <1>8, Made
  <2> QED  BY <1>6, <1>8, <2>1
<1> QED  BY <1>5, <1>7, <1>8

\* Stored and committed at once: what needs no restart changes no mode.
LEMMA SetModes ==
    ASSUME NEW h, HwOK(h), NEW zsl \in BOOLEAN, NEW hint \in BOOLEAN,
           NEW u \in updateParameters(h, zsl, hint), NEW r,
           u.ok => r \in commitParameterChanges(u.hw),
           ~ u.ok => r = u
    PROVE  /\ Result(r) /\ Moded(h, r.hw)
           /\ ~ ParamsFail => ModesAgree(r.hw)
           /\ ~ ParamsFail /\ ModesAgree(h) /\ ~ NeedRestart(h, zsl, hint)
                => r.hw.zsl = h.zsl /\ r.hw.hint = h.hint
<1>1. /\ Result(u) /\ Moded(h, u.hw) /\ (~ ParamsFail => u.ok)
      /\ u.hw.zsl = h.zsl /\ u.hw.hint = h.hint /\ u.hw.zslNew = zsl
      /\ u.hw.hintNew = IF hint # h.hintKey THEN hint ELSE h.hintNew
  BY StoredModes
<1>2. CASE ~ u.ok
  BY <1>1, <1>2
<1>3. CASE u.ok
  <2>1. /\ Result(r) /\ Moded(u.hw, r.hw)
        /\ r.hw.zslNew = u.hw.zslNew /\ r.hw.hintNew = u.hw.hintNew
        /\ r.ok => ModesAgree(r.hw)
        /\ ~ r.ok => ParamsFail /\ r.hw = u.hw
    BY <1>1, <1>3, CommittedModes DEF Moded
  <2>2. ~ ParamsFail => ModesAgree(r.hw)
    BY <2>1 DEF Result
  <2>3. ~ ParamsFail /\ ModesAgree(h) /\ ~ NeedRestart(h, zsl, hint)
          => r.hw.zsl = h.zsl /\ r.hw.hint = h.hint
    BY <1>1, <2>1, <2>2 DEF NeedRestart, ModesAgree
  <2> QED  BY <1>1, <2>1, <2>2, <2>3 DEF Moded
<1> QED  BY <1>2, <1>3

\* What a request for a recording leaves: the video channel streams if it
\* was granted.
Recorded(h, g, ok) ==
    /\ HwOK(g) /\ g.state = h.state /\ (DoneQueued(h) => DoneQueued(g))
    /\ VideoOn(g) <=> ok
    /\ Steady /\ ModesAgree(h) /\ ChannelFits(h) => ModesAgree(g) /\ ChannelFits(g)

LEMMA VideoStarted ==
    ASSUME NEW h, HwOK(h), ~ VideoOn(h), NEW r \in startChannel(h, "VIDEO")
    PROVE  Result(r) /\ Recorded(h, r.hw, r.ok)
<1>1. /\ Result(r)
      /\ \/ r.ok = FALSE /\ r.hw = h
         \/ r.ok = TRUE /\ Changed(h, r.hw, "VIDEO", "on")
  BY Started DEF Channels
<1>2. CASE r.ok = FALSE
  BY <1>1, <1>2 DEF Recorded
<1>3. CASE r.ok = TRUE
  <2>1. Changed(h, r.hw, "VIDEO", "on")
    BY <1>1, <1>3
  <2>2. VideoOn(r.hw)
    BY <2>1 DEF Changed, HwOK, Channels, VideoOn
  <2>3. ChannelFits(h) => ChannelFits(r.hw)
    BY <2>1 DEF Changed, HwOK, Channels, ChannelFits, PreviewChannel, Kept
  <2>4. ModesAgree(h) => ModesAgree(r.hw)
    BY <2>1 DEF Changed, Kept, ModesAgree
  <2> QED  BY <1>1, <1>3, <2>1, <2>2, <2>3, <2>4 DEF Changed, Kept, Recorded
<1> QED  BY <1>1, <1>2, <1>3 DEF Result

LEMMA RecordingStarted ==
    ASSUME NEW h, HwOK(h), ~ VideoOn(h), NEW r \in startRecording(h)
    PROVE  Result(r) /\ Recorded(h, r.hw, r.ok)
<1>1. CASE h.hint
  BY <1>1, VideoStarted DEF startRecording
<1>2. CASE ~ h.hint
  <2> DEFINE k == stopPreview(h)
             m == [k EXCEPT !.tmpHint = FALSE, !.hintNew = TRUE]
             W == Whatever(commitParameterChanges(m), preparePreview)
             S == AndThen(W, LAMBDA p : startChannel(p, "PREVIEW"))
  <2>1. PICK s \in S : IF s.ok THEN r \in startChannel(s.hw, "VIDEO") ELSE r = s
    BY <1>2 DEF startRecording, updateRecordingHintValue, AndThen
  <2>2. PICK p \in W : IF p.ok THEN s \in startChannel(p.hw, "PREVIEW") ELSE s = p
    BY DEF AndThen
  <2>3. PICK c \in commitParameterChanges(m) : p \in preparePreview(c.hw)
    BY DEF Whatever
  <2> HIDE DEF W, S
  <2>4. Cleared(h, k)
    BY Unprepared
  <2> HIDE DEF k
  <2>5. /\ Moded(k, m) /\ m.zslNew = k.zslNew /\ m.zsl = k.zsl /\ m.hintNew = TRUE
    <3>1. /\ Record(m) /\ m.long = k.long /\ m.state = k.state /\ m.ch = k.ch /\ m.evtQ = k.evtQ
          /\ m.zsl = k.zsl /\ m.hint = k.hint /\ m.hintKey = k.hintKey
          /\ m.zslNew = k.zslNew /\ m.hintNew = TRUE /\ m.tmpHint = FALSE
      BY <2>4 DEF Cleared, HwOK, Record, Opened
    <3> HIDE DEF m
    <3> QED  BY <2>4, <3>1 DEF Cleared, Moded, HwOK
  <2> HIDE DEF m
  <2>6. /\ Result(c) /\ Moded(m, c.hw)
        /\ ~ ParamsFail => ModesAgree(c.hw)
    BY <2>5, CommittedModes DEF Moded, Result
  <2>7. HwOK(c.hw) /\ ~ VideoOn(c.hw) /\ NoPreview(c.hw)
    BY <2>4, <2>5, <2>6 DEF Cleared, Moded, VideoOn, NoPreview
  <2>8. Result(p) /\ Prepared(c.hw, p.hw, p.ok)
    BY <2>3, <2>7, PreparedPreview
  <2>9. Result(s) /\ HwOK(s.hw) /\ Kept(c.hw, s.hw) /\ ~ VideoOn(s.hw) /\ ChannelFits(s.hw)
    <3>1. CASE ~ p.ok
      BY <2>2, <2>7, <2>8, <3>1 DEF Prepared
    <3>2. CASE p.ok
      <4>1. Result(s) /\ Calm(p.hw, s.hw)
        BY <2>2, <2>8, <3>2, CalmOps DEF Prepared, Channels
      <4> QED  BY <2>7, <2>8, <4>1 DEF Prepared, Calm, Kept, ChannelFits, PreviewChannel
    <3> QED  BY <3>1, <3>2
  <2>10. /\ s.hw.state = h.state /\ (DoneQueued(h) => DoneQueued(s.hw))
         /\ ~ ParamsFail => ModesAgree(s.hw)
    BY <2>4, <2>5, <2>6, <2>9 DEF Cleared, Moded, Kept, ModesAgree, DoneQueued
  <2>11. CASE ~ s.ok
    BY <2>1, <2>9, <2>10, <2>11 DEF Recorded, Steady
  <2>12. CASE s.ok
    <3>1. Result(r) /\ Recorded(s.hw, r.hw, r.ok)
      BY <2>1, <2>9, <2>12, VideoStarted
    <3> QED  BY <2>9, <2>10, <3>1 DEF Recorded, Steady
  <2> QED  BY <2>11, <2>12
<1> QED  BY <1>1, <1>2

LEMMA RecordingStopped ==
    ASSUME NEW h, HwOK(h)
    PROVE  /\ HwOK(stopRecording(h)) /\ Kept(h, stopRecording(h)) /\ ~ VideoOn(stopRecording(h))
           /\ ChannelFits(h) => ChannelFits(stopRecording(h))
<1> DEFINE x == IF h.ch["VIDEO"] = "on" THEN "idle" ELSE h.ch["VIDEO"]
           g == stopRecording(h)
<1>1. Changed(h, g, "VIDEO", x) /\ x # "on"
  BY Stopped DEF stopRecording, Channels
<1> HIDE DEF x, g
<1>2. \A c \in Channels : g.ch[c] = IF c = "VIDEO" THEN x ELSE h.ch[c]
  BY <1>1 DEF Changed, HwOK
<1> QED  BY <1>1, <1>2 DEF Changed, VideoOn, Channels, ChannelFits, PreviewChannel, Kept, g

LEMMA Released ==
    ASSUME NEW h, HwOK(h)
    PROVE  Cleared(h, release(h))
<1> DEFINE g == release(h)
<1>1. /\ Record(g) /\ g.long = h.long /\ Kept(h, g) /\ g.evtQ = h.evtQ
      /\ g.ch = [c \in Channels |-> "none"]
  BY DEF release, HwOK, Record, Opened, Kept, DoneQueued
<1> HIDE DEF g
<1>2. HwOK(g)
  BY <1>1 DEF HwOK, Kept
<1>3. Cleared(h, g)
  BY <1>1, <1>2 DEF Cleared, NoPreview, VideoOn, Channels
<1> QED  BY <1>3 DEF g

-----------------------------------------------------------------------------
(* Handlers.  Their answers, and the state they go to.                     *)
LEMMA Answered ==
    ASSUME NEW R, NEW o \in Answer(R)
    PROVE  o.to = "api" /\ \E r \in R : o.hw = r.hw
BY DEF Answer

LEMMA ServedOf ==
    ASSUME NEW h, NEW o, o \in Served(h) \cup Refused(h)
    PROVE  o.to = "api" /\ o.hw = h
BY Answered DEF Served, Refused, Works, Fails

LEMMA ThenOf ==
    ASSUME NEW R, \A r \in R : Result(r), NEW worked, NEW failed, NEW q \in Then(R, worked, failed)
    PROVE  Result(q) /\ \E r \in R : q.hw = Goto(r.hw, IF r.ok THEN worked ELSE failed)
<1>1. PICK r \in R : q = [r EXCEPT !.hw = Goto(r.hw, IF r.ok THEN worked ELSE failed)]
  BY DEF Then
<1> DEFINE g == Goto(r.hw, IF r.ok THEN worked ELSE failed)
<1>2. q = [hw |-> g, ok |-> r.ok] /\ r.ok \in BOOLEAN
  BY <1>1, OtherHw DEF Result
<1> HIDE DEF g
<1>3. q.hw = g /\ Result(q)
  BY <1>2, Made
<1> QED  BY <1>3 DEF g

LEMMA WentTo ==
    ASSUME NEW h, HwOK(h), NEW s \in States
    PROVE  LET g == Goto(h, s)
           IN  /\ HwOK(g) /\ g.state = s /\ g.ch = h.ch /\ g.evtQ = h.evtQ
               /\ g.zsl = h.zsl /\ g.zslNew = h.zslNew /\ g.hint = h.hint
               /\ g.hintNew = h.hintNew /\ g.hintKey = h.hintKey
<1> DEFINE g == Goto(h, s)
<1>1. /\ Record(g) /\ g.state = s /\ g.ch = h.ch /\ g.evtQ = h.evtQ /\ g.long = h.long
      /\ g.zsl = h.zsl /\ g.zslNew = h.zslNew /\ g.hint = h.hint
      /\ g.hintNew = h.hintNew /\ g.hintKey = h.hintKey /\ g.tmpHint = h.tmpHint
  BY DEF Goto, HwOK, Record, Opened
<1> HIDE DEF g
<1>2. HwOK(g)
  BY <1>1 DEF HwOK
<1> QED  BY <1>1, <1>2 DEF g

-----------------------------------------------------------------------------
(* What a handler may do.  An event that may be handled while a request of *)
(* the caller waits leaves what that request was weighed by.               *)
Meek(e) == e.evt \in Harmless \cup HalEvents

Good(h, e, g) ==
    /\ CameraOK(g) /\ (DoneQueued(h) => DoneQueued(g))
    /\ Meek(e) => /\ g.zslNew = h.zslNew /\ g.hint = h.hint /\ g.hintKey = h.hintKey
                  /\ g.state = "PIC_TAKING" => h.state = "PIC_TAKING"
                  /\ g.state \in Recording => h.state \in Recording

LEMMA GoodCalm ==
    ASSUME NEW h, CameraOK(h), NEW e, NEW g, Calm(h, g)
    PROVE  Good(h, e, g)
<1>1. HwOK(g) /\ VideoOK(g)
  BY DEF CameraOK, Calm, Kept, VideoOn, VideoOK
<1>2. Steady => ModesOK(g)
  BY DEF CameraOK, Calm, Kept, ModesOK, NoPreview, ChannelFits, PreviewChannel
<1> QED  BY <1>1, <1>2 DEF Good, CameraOK, Calm, Kept

LEMMA GoodGoto ==
    ASSUME NEW h, CameraOK(h), NEW e, NEW k, HwOK(k), Kept(h, k), NEW s \in States,
           VideoOn(k) <=> s \in Recording,
           Steady => ChannelFits(k),
           Steady /\ s \in {"PREVIEW_STOPPED", "PIC_TAKING"} => NoPreview(k),
           Meek(e) /\ s = "PIC_TAKING" => h.state = "PIC_TAKING",
           Meek(e) /\ s \in Recording => h.state \in Recording
    PROVE  Good(h, e, Goto(k, s))
<1> DEFINE g == Goto(k, s)
<1>1. /\ HwOK(g) /\ g.state = s /\ g.ch = k.ch /\ g.evtQ = k.evtQ
      /\ g.zsl = k.zsl /\ g.zslNew = k.zslNew /\ g.hint = k.hint
      /\ g.hintNew = k.hintNew /\ g.hintKey = k.hintKey
  BY WentTo
<1> HIDE DEF g
<1>2. VideoOK(g)
  BY <1>1 DEF VideoOK, VideoOn
<1>3. Steady => ModesOK(g)
  <2>1. Steady => g.zslNew = g.zsl /\ g.hintNew = g.hint
    BY <1>1 DEF CameraOK, ModesOK, Kept
  <2>2. Steady => ChannelFits(g)
    BY <1>1 DEF ChannelFits, PreviewChannel
  <2>3. Steady => (g.state \in {"PREVIEW_STOPPED", "PIC_TAKING"} => NoPreview(g))
    BY <1>1 DEF NoPreview
  <2> QED  BY <2>1, <2>2, <2>3 DEF ModesOK
<1>4. Good(h, e, g)
  BY <1>1, <1>2, <1>3 DEF Good, CameraOK, Kept, DoneQueued
<1> QED  BY <1>4 DEF g

LEMMA GoodCalmGoto ==
    ASSUME NEW h, CameraOK(h), NEW e, NEW k, Calm(h, k), NEW s \in States,
           h.state \in Recording <=> s \in Recording,
           Steady /\ s \in {"PREVIEW_STOPPED", "PIC_TAKING"} => NoPreview(k),
           Meek(e) /\ s = "PIC_TAKING" => h.state = "PIC_TAKING"
    PROVE  Good(h, e, Goto(k, s))
<1>1. VideoOn(k) <=> s \in Recording
  BY DEF CameraOK, VideoOK, Calm, VideoOn
<1>2. Steady => ChannelFits(k)
  BY DEF CameraOK, ModesOK, ChannelFits, PreviewChannel, Calm, Kept
<1> QED  BY <1>1, <1>2, GoodGoto DEF Calm

LEMMA GoodClearedGoto ==
    ASSUME NEW h, CameraOK(h), NEW e, NEW k, Cleared(h, k),
           NEW s \in States \ (Recording \cup {"PIC_TAKING"})
    PROVE  Good(h, e, Goto(k, s))
BY GoodGoto DEF Cleared, ChannelFits, NoPreview

LEMMA GoodPreparedGoto ==
    ASSUME NEW h, CameraOK(h), Steady => NoPreview(h), NEW e, NEW k, NEW ok,
           Prepared(h, k, ok), NEW s \in States \ (Recording \cup {"PIC_TAKING"}),
           s = "PREVIEW_STOPPED" => ~ ok
    PROVE  Good(h, e, Goto(k, s))
BY GoodGoto DEF Prepared

\* New modes that agree, where the preview channel is still the right one.
LEMMA GoodModes ==
    ASSUME NEW h, CameraOK(h), NEW e, ~ Meek(e), NEW g, Moded(h, g),
           Steady => ModesAgree(g),
           Steady => ChannelFits(g)
    PROVE  Good(h, e, g)
<1>1. VideoOK(g)
  BY DEF CameraOK, VideoOK, Moded
<1>2. Steady => ModesOK(g)
  BY DEF CameraOK, ModesOK, Moded, ModesAgree, NoPreview
<1> QED  BY <1>1, <1>2 DEF Good, CameraOK, Moded, DoneQueued

\* SET_PARAMS without a restart of the preview: there is none, or the
\* channel stays the one of the modes.
LEMMA GoodSet ==
    ASSUME NEW h, CameraOK(h), NEW e \in AnyReq, e.evt = "SET_PARAMS",
           Steady => NoPreview(h) \/ ~ NeedRestart(h, e.on, e.hint),
           NEW u \in updateParameters(h, e.on, e.hint), NEW r,
           u.ok => r \in commitParameterChanges(u.hw),
           ~ u.ok => r = u
    PROVE  Good(h, e, r.hw)
<1>1. e.on \in BOOLEAN /\ e.hint \in BOOLEAN
  BY DEF AnyReq
<1>2. /\ Result(r) /\ Moded(h, r.hw)
      /\ ~ ParamsFail => ModesAgree(r.hw)
      /\ ~ ParamsFail /\ ModesAgree(h) /\ ~ NeedRestart(h, e.on, e.hint)
           => r.hw.zsl = h.zsl /\ r.hw.hint = h.hint
  BY <1>1, SetModes DEF CameraOK
<1>3. Steady => ChannelFits(r.hw)
  <2>1. CASE NoPreview(h)
    BY <1>2, <2>1 DEF Moded, NoPreview, ChannelFits
  <2>2. CASE ~ NeedRestart(h, e.on, e.hint)
    BY <1>2, <2>2 DEF Moded, CameraOK, ModesOK, ModesAgree, ChannelFits, PreviewChannel, Steady
  <2> QED  BY <2>1, <2>2
<1>4. ~ Meek(e)
  BY DEF Meek, Harmless, HalEvents, Events
<1> QED  BY <1>2, <1>3, <1>4, GoodModes DEF Steady

\* A preview that is stopped, prepared with other modes, and perhaps
\* started.
Reprepared(h, g, ok) ==
    /\ HwOK(g) /\ g.state = h.state /\ (DoneQueued(h) => DoneQueued(g))
    /\ ~ VideoOn(g) /\ ChannelFits(g)
    /\ Steady => ModesAgree(g)
    /\ ~ ok => NoPreview(g)

LEMMA PreparedAgain ==
    ASSUME NEW h, HwOK(h), NEW u, Moded(h, u), NEW k, Cleared(u, k),
           NEW c \in commitParameterChanges(k),
           NEW p \in preparePreview(c.hw) \cup PrepareAndStart(c.hw)
    PROVE  Result(p) /\ Reprepared(h, p.hw, p.ok)
<1>1. /\ Result(c) /\ Moded(k, c.hw)
      /\ ~ ParamsFail => ModesAgree(c.hw)
  BY CommittedModes DEF Result, Cleared
<1>2. HwOK(c.hw) /\ ~ VideoOn(c.hw) /\ NoPreview(c.hw)
  BY <1>1 DEF Moded, VideoOn, NoPreview, Cleared
<1>3. Result(p) /\ Prepared(c.hw, p.hw, p.ok)
  BY <1>2, PreparedPreview, PreparedAndStarted
<1>4. p.hw.state = h.state /\ (DoneQueued(h) => DoneQueued(p.hw))
  BY <1>1, <1>3 DEF Prepared, Kept, Moded, Cleared, DoneQueued
<1>5. ~ ParamsFail => ModesAgree(p.hw)
  BY <1>1, <1>3 DEF Prepared, Kept, ModesAgree
<1> QED  BY <1>2, <1>3, <1>4, <1>5 DEF Prepared, Reprepared, Steady

LEMMA GoodReprepared ==
    ASSUME NEW h, CameraOK(h), NEW e, ~ Meek(e), NEW k, NEW ok, Reprepared(h, k, ok),
           NEW s \in States \ Recording,
           s \in {"PREVIEW_STOPPED", "PIC_TAKING"} => ~ ok
    PROVE  Good(h, e, Goto(k, s))
<1> DEFINE g == Goto(k, s)
<1>1. /\ HwOK(g) /\ g.state = s /\ g.ch = k.ch /\ g.evtQ = k.evtQ
      /\ g.zsl = k.zsl /\ g.zslNew = k.zslNew /\ g.hint = k.hint
      /\ g.hintNew = k.hintNew /\ g.hintKey = k.hintKey
  BY WentTo DEF Reprepared
<1> HIDE DEF g
<1>2. VideoOK(g)
  BY <1>1 DEF VideoOK, VideoOn, Reprepared
<1>3. Steady => ModesOK(g)
  BY <1>1 DEF ModesOK, ModesAgree, ChannelFits, PreviewChannel, NoPreview, Reprepared
<1>4. Good(h, e, g)
  BY <1>1, <1>2, <1>3 DEF Good, CameraOK, Reprepared, DoneQueued
<1> QED  BY <1>4 DEF g

LEMMA GoodRestart ==
    ASSUME NEW h, CameraOK(h), h.state \notin Recording \cup {"PREVIEW_STOPPED", "PIC_TAKING"},
           NEW e, ~ Meek(e), NEW u, Moded(h, u),
           NEW failed \in States \ Recording, NEW r \in RestartPreview(u, failed)
    PROVE  Good(h, e, r.hw)
<1> DEFINE k == stopPreview(u)
           W == Whatever(commitParameterChanges(k), PrepareAndStart)
<1>1. \A p \in W : \E c \in commitParameterChanges(k) : p \in PrepareAndStart(c.hw)
  BY DEF Whatever
<1>2. r \in Then(W, u.state, failed)
  BY DEF RestartPreview
<1>3. Cleared(u, k)
  BY Unprepared DEF Moded
<1> HIDE DEF k, W
<1>4. \A p \in W : Result(p) /\ Reprepared(h, p.hw, p.ok)
  BY <1>1, <1>3, PreparedAgain DEF CameraOK
<1>5. PICK p \in W : r.hw = Goto(p.hw, IF p.ok THEN h.state ELSE failed)
  BY <1>2, <1>4, ThenOf DEF Moded
<1>6. (IF p.ok THEN h.state ELSE failed) \in States \ Recording
  BY DEF CameraOK, HwOK
<1> QED  BY <1>4, <1>5, <1>6, GoodReprepared

-----------------------------------------------------------------------------
(* The handlers of each state are good.                                    *)
LEMMA GoodStopped ==
    ASSUME NEW h, CameraOK(h), h.state = "PREVIEW_STOPPED", NEW e \in AnyReq,
           NEW o \in StoppedParams(h, e) \cup StoppedCalls(h, e)
    PROVE  Good(h, e, o.hw)
<1> DEFINE P == preparePreview(h)
           S == PrepareAndStart(h)
           w == [h EXCEPT !.window = e.on]
           R == AndThen(updateParameters(h, e.on, e.hint), commitParameterChanges)
<1>1. \/ o \in Served(w)
      \/ o \in Answer(R) /\ e.evt = "SET_PARAMS"
      \/ o \in Answer(Then(P, "PREVIEW_READY", h.state))
      \/ o \in Answer(Then(S, "PREVIEWING", h.state))
      \/ o \in Served(release(h))
      \/ o \in Answer(sendCommand(h, e.on))
      \/ o \in Served(h) \cup Refused(h)
  BY DEF StoppedParams, StoppedCalls
<1>2. Calm(h, w)
  BY CalmFields, Zenon DEF CameraOK
<1> HIDE DEF w
<1>3. \A r \in R : \E u \in updateParameters(h, e.on, e.hint) :
        /\ u.ok => r \in commitParameterChanges(u.hw)
        /\ ~ u.ok => r = u
  BY DEF AndThen
<1> HIDE DEF R
<1>4. HwOK(h) /\ ~ VideoOn(h) /\ (Steady => NoPreview(h))
  BY DEF CameraOK, VideoOK, VideoOn, Recording, ModesOK
<1>5. \A p \in P \cup S : Result(p) /\ Prepared(h, p.hw, p.ok)
  BY <1>4, PreparedPreview, PreparedAndStarted
<1> HIDE DEF P, S
<1>6. CASE o \in Served(w)
  BY <1>2, <1>6, ServedOf, GoodCalm
<1>7. CASE o \in Answer(R) /\ e.evt = "SET_PARAMS"
  BY <1>3, <1>4, <1>7, Answered, GoodSet
<1>8. CASE o \in Answer(Then(P, "PREVIEW_READY", h.state))
  <2>1. PICK p \in P : o.hw = Goto(p.hw, IF p.ok THEN "PREVIEW_READY" ELSE "PREVIEW_STOPPED")
    BY <1>5, <1>8, Answered, ThenOf
  <2> QED  BY <1>4, <1>5, <2>1, GoodPreparedGoto DEF States, Recording
<1>9. CASE o \in Answer(Then(S, "PREVIEWING", h.state))
  <2>1. PICK p \in S : o.hw = Goto(p.hw, IF p.ok THEN "PREVIEWING" ELSE "PREVIEW_STOPPED")
    BY <1>5, <1>9, Answered, ThenOf
  <2> QED  BY <1>4, <1>5, <2>1, GoodPreparedGoto DEF States, Recording
<1>10. CASE o \in Served(release(h))
  <2>1. o.hw = release(h) /\ Cleared(h, o.hw)
    BY <1>4, <1>10, ServedOf, Released
  <2> QED  BY <1>4, <2>1 DEF Good, CameraOK, Cleared, Kept, VideoOK, VideoOn, ModesOK,
                             NoPreview, ChannelFits, PreviewChannel, Recording
<1>11. CASE o \in Answer(sendCommand(h, e.on))
  BY <1>4, <1>11, Answered, CalmCommand, GoodCalm
<1>12. CASE o \in Served(h) \cup Refused(h)
  BY <1>4, <1>12, ServedOf, CalmItself, GoodCalm
<1> QED  BY <1>1, <1>6, <1>7, <1>8, <1>9, <1>10, <1>11, <1>12

LEMMA GoodReady ==
    ASSUME NEW h, CameraOK(h), h.state = "PREVIEW_READY", NEW e \in AnyReq,
           NEW o \in ReadyParams(h, e) \cup ReadyCalls(h, e)
    PROVE  Good(h, e, o.hw)
<1> DEFINE w == [h EXCEPT !.window = e.on]
           W == OnFail(startPreview(w), unpreparePreview)
           restart == NeedRestart(h, e.on, e.hint)
           again(u) == Whatever(commitParameterChanges(unpreparePreview(u)), preparePreview)
           R == AndThen(updateParameters(h, e.on, e.hint),
                        LAMBDA u : IF restart THEN Then(again(u), h.state, "PREVIEW_STOPPED")
                                              ELSE commitParameterChanges(u))
<1>1. \/ o \in Answer(Then(W, "PREVIEWING", "PREVIEW_STOPPED"))
      \/ o \in Served(w)
      \/ o \in Answer(R) /\ e.evt = "SET_PARAMS"
      \/ o \in Served(Goto(unpreparePreview(h), "PREVIEW_STOPPED"))
      \/ o \in Answer(sendCommand(h, e.on))
      \/ o \in Served(h) \cup Refused(h)
  BY DEF ReadyParams, ReadyCalls
<1>2. HwOK(h) /\ ~ VideoOn(h) /\ h.state \notin Recording
  BY DEF CameraOK, VideoOK, VideoOn, Recording
<1>3. Calm(h, w)
  BY <1>2, CalmFields, Zenon
<1>4. \A r \in W : \E s \in startPreview(w) :
        r = IF s.ok THEN s ELSE [s EXCEPT !.hw = unpreparePreview(s.hw)]
  BY DEF OnFail
<1>5. \A r \in R : \E u \in updateParameters(h, e.on, e.hint) :
        /\ u.ok => r \in IF restart THEN Then(again(u.hw), h.state, "PREVIEW_STOPPED")
                                    ELSE commitParameterChanges(u.hw)
        /\ ~ u.ok => r = u
  BY DEF AndThen
<1> HIDE DEF w, W, R
<1>6. CASE o \in Answer(Then(W, "PREVIEWING", "PREVIEW_STOPPED"))
  <2>1. \A r \in W : Result(r) /\ (IF r.ok THEN Calm(h, r.hw) ELSE Cleared(h, r.hw))
    <3>1. SUFFICES ASSUME NEW r \in W
                   PROVE  Result(r) /\ (IF r.ok THEN Calm(h, r.hw) ELSE Cleared(h, r.hw))
      OBVIOUS
    <3>2. PICK s \in startPreview(w) :
            r = IF s.ok THEN s ELSE [s EXCEPT !.hw = unpreparePreview(s.hw)]
      BY <1>4
    <3>3. Result(s) /\ Calm(h, s.hw)
      BY <1>3, StartedPreview, CalmTwice DEF Calm
    <3>4. CASE s.ok
      BY <3>2, <3>3, <3>4
    <3>5. CASE ~ s.ok
      <4>1. r = [hw |-> unpreparePreview(s.hw), ok |-> s.ok] /\ s.ok \in BOOLEAN
        BY <3>2, <3>3, <3>5, OtherHw DEF Result
      <4>2. Cleared(h, unpreparePreview(s.hw))
        BY <3>3, Unprepared, CalmCleared DEF Calm
      <4> QED  BY <3>5, <4>1, <4>2, Made
    <3> QED  BY <3>4, <3>5
  <2>2. PICK r \in W : o.hw = Goto(r.hw, IF r.ok THEN "PREVIEWING" ELSE "PREVIEW_STOPPED")
    BY <1>6, <2>1, Answered, ThenOf
  <2> QED  BY <1>2, <2>1, <2>2, GoodCalmGoto, GoodClearedGoto DEF States, Recording
<1>7. CASE o \in Served(w)
  BY <1>3, <1>7, ServedOf, GoodCalm
<1>8. CASE o \in Answer(R) /\ e.evt = "SET_PARAMS"
  <2>1. PICK r \in R : o.hw = r.hw
    BY <1>8, Answered
  <2>2. PICK u \in updateParameters(h, e.on, e.hint) :
          /\ u.ok => r \in IF restart THEN Then(again(u.hw), h.state, "PREVIEW_STOPPED")
                                      ELSE commitParameterChanges(u.hw)
          /\ ~ u.ok => r = u
    BY <1>5
  <2>3. CASE ~ restart \/ ~ u.ok
    <3>1. Result(u) /\ Moded(h, u.hw) /\ (~ ParamsFail => u.ok)
      BY <1>2, StoredModes DEF AnyReq
    <3>2. CASE ~ restart
      BY <1>8, <2>1, <2>2, <3>2, GoodSet
    <3>3. CASE ~ u.ok
      <4>1. ~ Meek(e) /\ ~ Steady
        BY <1>8, <3>1, <3>3 DEF Meek, Harmless, HalEvents, Events, Steady
      <4> QED  BY <2>1, <2>2, <3>1, <3>3, <4>1, GoodModes
    <3> QED  BY <2>3, <3>2, <3>3
  <2>4. CASE restart /\ u.ok
    <3> DEFINE k == unpreparePreview(u.hw)
               A == Whatever(commitParameterChanges(k), preparePreview)
    <3>1. Result(u) /\ Moded(h, u.hw)
      BY <1>2, StoredModes DEF AnyReq
    <3>2. Cleared(u.hw, k)
      BY <3>1, Unprepared DEF Moded
    <3>3. r \in Then(A, h.state, "PREVIEW_STOPPED")
      BY <2>2, <2>4
    <3> HIDE DEF k
    <3>4. \A p \in A : \E c \in commitParameterChanges(k) : p \in preparePreview(c.hw)
      BY DEF Whatever
    <3> HIDE DEF A
    <3>5. \A p \in A : Result(p) /\ Reprepared(h, p.hw, p.ok)
      BY <1>2, <3>1, <3>2, <3>4, PreparedAgain
    <3>6. PICK p \in A : r.hw = Goto(p.hw, IF p.ok THEN "PREVIEW_READY" ELSE "PREVIEW_STOPPED")
      BY <3>3, <3>5, ThenOf
    <3>7. ~ Meek(e)
      BY <1>8 DEF Meek, Harmless, HalEvents, Events
    <3> QED  BY <2>1, <3>5, <3>6, <3>7, GoodReprepared DEF States, Recording
  <2> QED  BY <2>3, <2>4
<1>9. CASE o \in Served(Goto(unpreparePreview(h), "PREVIEW_STOPPED"))
  BY <1>2, <1>9, ServedOf, Unprepared, GoodClearedGoto DEF States, Recording
<1>10. CASE o \in Answer(sendCommand(h, e.on))
  BY <1>2, <1>10, Answered, CalmCommand, GoodCalm
<1>11. CASE o \in Served(h) \cup Refused(h)
  BY <1>2, <1>11, ServedOf, CalmItself, GoodCalm
<1> QED  BY <1>1, <1>6, <1>7, <1>8, <1>9, <1>10, <1>11

LEMMA GoodRecorded ==
    ASSUME NEW h, CameraOK(h), NEW e, ~ Meek(e), NEW k, NEW ok, Recorded(h, k, ok),
           NEW s \in States \ {"PREVIEW_STOPPED", "PIC_TAKING"},
           ok <=> s \in Recording
    PROVE  Good(h, e, Goto(k, s))
<1> DEFINE g == Goto(k, s)
<1>1. /\ HwOK(g) /\ g.state = s /\ g.ch = k.ch /\ g.evtQ = k.evtQ
      /\ g.zsl = k.zsl /\ g.zslNew = k.zslNew /\ g.hint = k.hint
      /\ g.hintNew = k.hintNew /\ g.hintKey = k.hintKey
  BY WentTo DEF Recorded
<1> HIDE DEF g
<1>2. VideoOK(g)
  BY <1>1 DEF VideoOK, VideoOn, Recorded
<1>3. Steady => ModesOK(g)
  <2>1. Steady => ModesAgree(k) /\ ChannelFits(k)
    BY DEF CameraOK, ModesOK, ModesAgree, Recorded
  <2> QED  BY <1>1, <2>1 DEF ModesOK, ModesAgree, ChannelFits, PreviewChannel
<1>4. Good(h, e, g)
  BY <1>1, <1>2, <1>3 DEF Good, CameraOK, Recorded, DoneQueued
<1> QED  BY <1>4 DEF g

\* SET_PARAMS of a running preview, with or without a restart.
LEMMA GoodRestartingSet ==
    ASSUME NEW h, CameraOK(h), h.state \notin Recording \cup {"PREVIEW_STOPPED", "PIC_TAKING"},
           NEW e \in AnyReq, e.evt = "SET_PARAMS", NEW failed \in States \ Recording,
           NEW u \in updateParameters(h, e.on, e.hint), NEW r,
           u.ok => r \in IF NeedRestart(h, e.on, e.hint)
                         THEN RestartPreview(u.hw, failed)
                         ELSE commitParameterChanges(u.hw),
           ~ u.ok => r = u
    PROVE  Good(h, e, r.hw)
<1> DEFINE restart == NeedRestart(h, e.on, e.hint)
<1>1. Result(u) /\ Moded(h, u.hw) /\ (~ ParamsFail => u.ok)
  BY StoredModes DEF AnyReq, CameraOK
<1>2. ~ Meek(e)
  BY DEF Meek, Harmless, HalEvents, Events
<1>3. CASE ~ restart
  BY <1>3, GoodSet
<1>4. CASE ~ u.ok
  BY <1>1, <1>2, <1>4, GoodModes DEF Steady
<1>5. CASE restart /\ u.ok
  BY <1>1, <1>2, <1>5, GoodRestart
<1> QED  BY <1>3, <1>4, <1>5

LEMMA GoodTakePicture ==
    ASSUME NEW h, CameraOK(h), h.state = "PREVIEWING", NEW e, ~ Meek(e),
           NEW q \in PreviewingTakePicture(h)
    PROVE  Good(h, e, q.hw)
<1>1. HwOK(h) /\ ~ VideoOn(h) /\ h.state \notin Recording
  BY DEF CameraOK, VideoOK, VideoOn, Recording
<1>2. \A r \in takeLiveSnapshot(h) \cup takePicture(h) : Result(r) /\ Calm(h, r.hw)
  BY <1>1, CalmCancel, CalmPicture
<1>3. CASE h.hint \/ h.zsl \/ h.long
  <2>1. PICK r \in takeLiveSnapshot(h) \cup takePicture(h) :
          q.hw = Goto(r.hw, IF r.ok THEN "PREVIEW_PIC_TAKING" ELSE "PREVIEWING")
    <3>1. \/ q \in Then(takeLiveSnapshot(h), "PREVIEW_PIC_TAKING", "PREVIEWING")
          \/ q \in Then(takePicture(h), "PREVIEW_PIC_TAKING", "PREVIEWING")
      BY <1>3 DEF PreviewingTakePicture
    <3> QED  BY <1>2, <3>1, ThenOf
  <2> QED  BY <1>1, <1>2, <2>1, GoodCalmGoto DEF States, Recording
<1>4. CASE ~ (h.hint \/ h.zsl \/ h.long)
  <2>1. PICK r \in takePicture(h) :
          q.hw = Goto(r.hw, IF r.ok THEN "PIC_TAKING" ELSE "PREVIEW_STOPPED")
    <3>1. q \in Then(takePicture(h), "PIC_TAKING", "PREVIEW_STOPPED")
      BY <1>4 DEF PreviewingTakePicture
    <3> QED  BY <1>2, <3>1, ThenOf
  <2>2. r.hw.ch["PREVIEW"] = "none"
    BY <1>1, <1>4, CalmPicture
  <2>3. Steady => r.hw.ch["ZSL"] = "none"
    BY <1>2, <1>4 DEF CameraOK, ModesOK, ChannelFits, PreviewChannel, Calm
  <2> QED  BY <1>1, <1>2, <2>1, <2>2, <2>3, GoodCalmGoto DEF States, Recording, NoPreview
<1> QED  BY <1>3, <1>4

LEMMA GoodPreviewing ==
    ASSUME NEW h, CameraOK(h), h.state = "PREVIEWING", NEW e \in AnyReq,
           NEW o \in PreviewingParams(h, e) \cup PreviewingCalls(h, e)
    PROVE  Good(h, e, o.hw)
<1> DEFINE prep == [h EXCEPT !.preparing = TRUE]
           R == AndThen(updateParameters(h, e.on, e.hint),
                        LAMBDA u : IF NeedRestart(h, e.on, e.hint)
                                   THEN RestartPreview(u, "PREVIEW_STOPPED")
                                   ELSE commitParameterChanges(u))
           S == startRecording(h)
<1>1. \/ o \in Answer(R) /\ e.evt = "SET_PARAMS"
      \/ o \in Served(Goto(stopPreview(h), "PREVIEW_STOPPED"))
      \/ o \in Answer(Then(S, "RECORDING", h.state)) /\ e.evt = "START_RECORDING"
      \/ o \in Ignored(Goto(prep, "PREPARE_SNAPSHOT"))
      \/ o \in Answer(PreviewingTakePicture(h)) /\ e.evt = "TAKE_PICTURE"
      \/ o \in Answer(sendCommand(h, e.on))
      \/ o \in Served(h) \cup Refused(h)
  BY DEF PreviewingParams, PreviewingCalls, PreviewingPrepare
<1>2. HwOK(h) /\ ~ VideoOn(h) /\ h.state \notin Recording
  BY DEF CameraOK, VideoOK, VideoOn, Recording
<1>3. Calm(h, prep)
  <2>1. Aside(h, prep)
    BY <1>2 DEF Aside, HwOK, Record, Opened
  <2> QED  BY <1>2, <2>1, CalmAside
<1> HIDE DEF prep
<1>4. \A r \in R : \E u \in updateParameters(h, e.on, e.hint) :
        /\ u.ok => r \in IF NeedRestart(h, e.on, e.hint)
                         THEN RestartPreview(u.hw, "PREVIEW_STOPPED")
                         ELSE commitParameterChanges(u.hw)
        /\ ~ u.ok => r = u
  BY DEF AndThen
<1> HIDE DEF R
<1>5. CASE o \in Answer(R) /\ e.evt = "SET_PARAMS"
  <2>1. PICK r \in R : o.hw = r.hw
    BY <1>5, Answered
  <2> QED  BY <1>2, <1>5, <1>4, <2>1, GoodRestartingSet DEF States, Recording
<1>6. CASE o \in Served(Goto(stopPreview(h), "PREVIEW_STOPPED"))
  BY <1>2, <1>6, ServedOf, Unprepared, GoodClearedGoto DEF States, Recording
<1>7. CASE o \in Answer(Then(S, "RECORDING", h.state)) /\ e.evt = "START_RECORDING"
  <2>1. \A r \in S : Result(r) /\ Recorded(h, r.hw, r.ok)
    BY <1>2, RecordingStarted
  <2> HIDE DEF S
  <2>2. PICK r \in S : o.hw = Goto(r.hw, IF r.ok THEN "RECORDING" ELSE "PREVIEWING")
    BY <1>7, <2>1, Answered, ThenOf
  <2>3. ~ Meek(e)
    BY <1>7 DEF Meek, Harmless, HalEvents, Events
  <2> QED  BY <2>1, <2>2, <2>3, GoodRecorded DEF States, Recording
<1>8. CASE o \in Ignored(Goto(prep, "PREPARE_SNAPSHOT"))
  <2>1. o.hw = Goto(prep, "PREPARE_SNAPSHOT")
    BY <1>8 DEF Ignored
  <2> QED  BY <1>2, <1>3, <2>1, GoodCalmGoto DEF States, Recording
<1>9. CASE o \in Answer(PreviewingTakePicture(h)) /\ e.evt = "TAKE_PICTURE"
  <2>1. ~ Meek(e)
    BY <1>9 DEF Meek, Harmless, HalEvents, Events
  <2> QED  BY <1>9, <2>1, Answered, GoodTakePicture
<1>10. CASE o \in Answer(sendCommand(h, e.on))
  BY <1>2, <1>10, Answered, CalmCommand, GoodCalm
<1>11. CASE o \in Served(h) \cup Refused(h)
  BY <1>2, <1>11, ServedOf, CalmItself, GoodCalm
<1> QED  BY <1>1, <1>5, <1>6, <1>7, <1>8, <1>9, <1>10, <1>11

LEMMA GoodPrepare ==
    ASSUME NEW h, CameraOK(h), NEW e, NEW o \in PrepareCalls(h, e)
    PROVE  Good(h, e, o.hw)
<1>1. o \in Refused(h)
  BY DEF PrepareCalls
<1> QED  BY <1>1, ServedOf, CalmItself, GoodCalm DEF CameraOK

LEMMA GoodPicTaking ==
    ASSUME NEW h, CameraOK(h), h.state = "PIC_TAKING", NEW e \in AnyReq,
           NEW o \in PicTakingParams(h, e) \cup PicTakingCalls(h, e),
           Steady => ParamsOK(h, e)
    PROVE  Good(h, e, o.hw)
<1> DEFINE R == AndThen(updateParameters(h, e.on, e.hint), commitParameterChanges)
           S == stopCaptureChannel(h)
           C == sendCommand(h, FALSE)
           P == AndThen(preparePreview(S), startPreview)
<1>1. \/ o \in Answer(R) /\ e.evt = "SET_PARAMS"
      \/ o \in Served(Goto(cancelPicture(h), "PREVIEW_STOPPED"))
      \/ o \in Answer(Then(C, "PREVIEWING", "PREVIEWING")) /\ e.evt = "SEND_COMMAND"
      \/ o \in Answer(sendCommand(h, TRUE))
      \/ o \in Answer(longShot(h))
      \/ o \in Answer(P) /\ Restart
      \/ o \in Answer(Works(S))
      \/ o \in Served(h) \cup Refused(h)
  BY DEF PicTakingParams, PicTakingCalls, PicTakingStopChannel, Refused
<1>2. /\ HwOK(h) /\ ~ VideoOn(h) /\ h.state \notin Recording
      /\ Steady => NoPreview(h)
  BY DEF CameraOK, VideoOK, VideoOn, Recording, ModesOK
<1>3. \A r \in R : \E u \in updateParameters(h, e.on, e.hint) :
        /\ u.ok => r \in commitParameterChanges(u.hw)
        /\ ~ u.ok => r = u
  BY DEF AndThen
<1>4. Calm(h, S)
  BY <1>2, CalmCancel
<1>5. \A r \in P : \E p \in preparePreview(S) :
        IF p.ok THEN r \in startPreview(p.hw) ELSE r = p
  BY DEF AndThen
<1> HIDE DEF R, S, P
<1>6. CASE o \in Answer(R) /\ e.evt = "SET_PARAMS"
  <2>1. PICK r \in R : o.hw = r.hw
    BY <1>6, Answered
  <2> QED  BY <1>2, <1>3, <1>6, <2>1, GoodSet
<1>7. CASE o \in Served(Goto(cancelPicture(h), "PREVIEW_STOPPED"))
  <2>1. Calm(h, cancelPicture(h))
    BY <1>2, CalmCancel
  <2>2. Steady => NoPreview(cancelPicture(h))
    BY <1>2, <2>1 DEF NoPreview, Calm
  <2> QED  BY <1>2, <1>7, <2>1, <2>2, ServedOf, GoodCalmGoto DEF States, Recording
<1>8. CASE o \in Answer(Then(C, "PREVIEWING", "PREVIEWING")) /\ e.evt = "SEND_COMMAND"
  <2>1. \A r \in C : Result(r) /\ Calm(h, r.hw)
    BY <1>2, CalmCommand
  <2> HIDE DEF C
  <2>2. PICK r \in C : o.hw = Goto(r.hw, "PREVIEWING")
    BY <1>8, <2>1, Answered, ThenOf
  <2> QED  BY <1>2, <2>1, <2>2, GoodCalmGoto DEF States, Recording
<1>9. CASE o \in Answer(sendCommand(h, TRUE))
  <2> DEFINE D == sendCommand(h, TRUE)
  <2>1. \A r \in D : Calm(h, r.hw)
    BY <1>2, CalmCommand
  <2> HIDE DEF D
  <2> QED  BY <1>9, <2>1, Answered, GoodCalm DEF D
<1>10. CASE o \in Answer(longShot(h))
  BY <1>2, <1>10, Answered, CalmLongShot, GoodCalm
<1>11. CASE o \in Answer(P) /\ Restart
  <2>1. PICK r \in P : o.hw = r.hw
    BY <1>11, Answered
  <2>2. PICK p \in preparePreview(S) : IF p.ok THEN r \in startPreview(p.hw) ELSE r = p
    BY <1>5
  <2>3. HwOK(S) /\ ~ VideoOn(S)
    BY <1>2, <1>4 DEF Calm
  <2>4. Result(p) /\ Prepared(S, p.hw, p.ok)
    BY <2>3, PreparedPreview
  <2>5. HwOK(r.hw) /\ Kept(S, r.hw) /\ ~ VideoOn(r.hw)
    <3>1. CASE ~ p.ok
      BY <2>2, <2>4, <3>1 DEF Prepared
    <3>2. CASE p.ok
      <4>1. Calm(p.hw, r.hw)
        BY <2>2, <2>4, <3>2, StartedPreview DEF Prepared
      <4> QED  BY <2>4, <4>1 DEF Prepared, Calm, Kept
    <3> QED  BY <3>1, <3>2
  <2>6. Kept(h, r.hw)
    BY <1>4, <2>5 DEF Calm, Kept
  <2>7. VideoOK(r.hw)
    BY <1>2, <2>5, <2>6 DEF VideoOK, VideoOn, Kept
  <2> QED  BY <1>11, <2>1, <2>5, <2>6, <2>7 DEF Good, CameraOK, Kept, Steady
<1>12. CASE o \in Answer(Works(S))
  <2>1. o.hw = S
    BY <1>12, Answered DEF Works
  <2> QED  BY <1>4, <2>1, GoodCalm
<1>13. CASE o \in Served(h) \cup Refused(h)
  BY <1>2, <1>13, ServedOf, CalmItself, GoodCalm
<1> QED  BY <1>1, <1>6, <1>7, <1>8, <1>9, <1>10, <1>11, <1>12, <1>13

\* SET_PARAMS of a recording.  What is refused has been stored.
LEMMA GoodRecordingSet ==
    ASSUME NEW h, CameraOK(h), h.state \in Recording, NEW e \in AnyReq, e.evt = "SET_PARAMS",
           Steady => ParamsOK(h, e),
           NEW u \in updateParameters(h, e.on, e.hint), NEW r,
           u.ok => r \in CommitUnless(u.hw, NeedRestart(h, e.on, e.hint)),
           ~ u.ok => r = u
    PROVE  Good(h, e, r.hw)
<1>1. Result(u) /\ Moded(h, u.hw) /\ (~ ParamsFail => u.ok)
  BY StoredModes DEF AnyReq, CameraOK
<1>2. ~ Meek(e)
  BY DEF Meek, Harmless, HalEvents, Events
<1>3. CASE ~ u.ok
  BY <1>1, <1>2, <1>3, GoodModes DEF Steady
<1>4. CASE u.ok /\ NeedRestart(h, e.on, e.hint)
  <2>1. r.hw = u.hw
    BY <1>4 DEF CommitUnless, Fails
  <2>2. ~ Steady
    BY <1>4 DEF ParamsOK
  <2> QED  BY <1>1, <1>2, <2>1, <2>2, GoodModes
<1>5. CASE u.ok /\ ~ NeedRestart(h, e.on, e.hint)
  BY <1>5, GoodSet DEF CommitUnless
<1> QED  BY <1>3, <1>4, <1>5

\* The end of a recording, and of the preview with it.
LEMMA RecordingEnded ==
    ASSUME NEW h, CameraOK(h), h.state \in Recording, NEW k, Calm(h, k), NEW e
    PROVE  /\ Good(h, e, Goto(stopRecording(k), "PREVIEWING"))
           /\ Good(h, e, Goto(stopPreview(stopRecording(k)), "PREVIEW_STOPPED"))
<1> DEFINE s == stopRecording(k)
           p == stopPreview(s)
<1>1. HwOK(s) /\ Kept(k, s) /\ ~ VideoOn(s) /\ (ChannelFits(k) => ChannelFits(s))
  BY RecordingStopped DEF Calm
<1> HIDE DEF s
<1>2. Kept(h, s)
  BY <1>1 DEF Calm, Kept
<1>3. Steady => ChannelFits(k)
  BY DEF CameraOK, ModesOK, ChannelFits, PreviewChannel, Calm, Kept
<1>4. Good(h, e, Goto(s, "PREVIEWING"))
  BY <1>1, <1>2, <1>3, GoodGoto DEF States, Recording
<1>5. Cleared(s, p)
  BY <1>1, Unprepared
<1> HIDE DEF p
<1>6. Cleared(h, p)
  BY <1>2, <1>5 DEF Cleared, Kept
<1>7. Good(h, e, Goto(p, "PREVIEW_STOPPED"))
  BY <1>6, GoodClearedGoto DEF States, Recording
<1> QED  BY <1>4, <1>7 DEF s, p

LEMMA GoodRecording ==
    ASSUME NEW h, CameraOK(h), h.state = "RECORDING", NEW e \in AnyReq,
           NEW o \in RecordingParams(h, e) \cup RecordingCalls(h, e),
           Steady => ParamsOK(h, e)
    PROVE  Good(h, e, o.hw)
<1> DEFINE R == AndThen(updateParameters(h, e.on, e.hint),
                        LAMBDA u : CommitUnless(u, NeedRestart(h, e.on, e.hint)))
           L == takeLiveSnapshot(h)
<1>1. \/ o \in Answer(R) /\ e.evt = "SET_PARAMS"
      \/ o \in Answer(Then(L, "VIDEO_PIC_TAKING", "RECORDING"))
      \/ o \in Served(Goto(stopRecording(h), "PREVIEWING"))
      \/ o \in Served(Goto(stopPreview(stopRecording(h)), "PREVIEW_STOPPED"))
      \/ o \in Answer(sendCommand(h, e.on))
      \/ o \in Served(h) \cup Refused(h)
  BY DEF RecordingParams, RecordingCalls
<1>2. HwOK(h) /\ h.state \in Recording
  BY DEF CameraOK, Recording
<1>3. \A r \in R : \E u \in updateParameters(h, e.on, e.hint) :
        /\ u.ok => r \in CommitUnless(u.hw, NeedRestart(h, e.on, e.hint))
        /\ ~ u.ok => r = u
  BY DEF AndThen
<1> HIDE DEF R
<1>4. CASE o \in Answer(R) /\ e.evt = "SET_PARAMS"
  <2>1. PICK r \in R : o.hw = r.hw
    BY <1>4, Answered
  <2> QED  BY <1>2, <1>3, <1>4, <2>1, GoodRecordingSet
<1>5. CASE o \in Answer(Then(L, "VIDEO_PIC_TAKING", "RECORDING"))
  <2>1. \A r \in L : Result(r) /\ Calm(h, r.hw)
    BY <1>2, CalmCancel
  <2> HIDE DEF L
  <2>2. PICK r \in L : o.hw = Goto(r.hw, IF r.ok THEN "VIDEO_PIC_TAKING" ELSE "RECORDING")
    BY <1>5, <2>1, Answered, ThenOf
  <2> QED  BY <1>2, <2>1, <2>2, GoodCalmGoto DEF States, Recording
<1>6. CASE \/ o \in Served(Goto(stopRecording(h), "PREVIEWING"))
           \/ o \in Served(Goto(stopPreview(stopRecording(h)), "PREVIEW_STOPPED"))
  BY <1>2, <1>6, ServedOf, CalmItself, RecordingEnded
<1>7. CASE o \in Answer(sendCommand(h, e.on))
  BY <1>2, <1>7, Answered, CalmCommand, GoodCalm
<1>8. CASE o \in Served(h) \cup Refused(h)
  BY <1>2, <1>8, ServedOf, CalmItself, GoodCalm
<1> QED  BY <1>1, <1>4, <1>5, <1>6, <1>7, <1>8

LEMMA GoodVideoPic ==
    ASSUME NEW h, CameraOK(h), h.state = "VIDEO_PIC_TAKING", NEW e \in AnyReq,
           NEW o \in VideoPicParams(h, e) \cup VideoPicCalls(h, e),
           Steady => ParamsOK(h, e)
    PROVE  Good(h, e, o.hw)
<1> DEFINE R == AndThen(updateParameters(h, e.on, e.hint),
                        LAMBDA u : CommitUnless(u, NeedRestart(h, e.on, e.hint)))
           p == cancelLiveSnapshot(h)
<1>1. \/ o \in Answer(R) /\ e.evt = "SET_PARAMS"
      \/ o \in Served(Goto(p, "RECORDING"))
      \/ o \in Served(Goto(stopRecording(p), "PREVIEWING"))
      \/ o \in Served(Goto(stopPreview(stopRecording(p)), "PREVIEW_STOPPED"))
      \/ o \in Answer(sendCommand(h, e.on))
      \/ o \in Served(h) \cup Refused(h)
  BY DEF VideoPicParams, VideoPicCalls
<1>2. HwOK(h) /\ h.state \in Recording
  BY DEF CameraOK, Recording
<1>3. \A r \in R : \E u \in updateParameters(h, e.on, e.hint) :
        /\ u.ok => r \in CommitUnless(u.hw, NeedRestart(h, e.on, e.hint))
        /\ ~ u.ok => r = u
  BY DEF AndThen
<1>4. Calm(h, p)
  BY <1>2, CalmCancel
<1> HIDE DEF R, p
<1>5. CASE o \in Answer(R) /\ e.evt = "SET_PARAMS"
  <2>1. PICK r \in R : o.hw = r.hw
    BY <1>5, Answered
  <2> QED  BY <1>2, <1>3, <1>5, <2>1, GoodRecordingSet
<1>6. CASE o \in Served(Goto(p, "RECORDING"))
  BY <1>2, <1>4, <1>6, ServedOf, GoodCalmGoto DEF States, Recording
<1>7. CASE \/ o \in Served(Goto(stopRecording(p), "PREVIEWING"))
           \/ o \in Served(Goto(stopPreview(stopRecording(p)), "PREVIEW_STOPPED"))
  BY <1>2, <1>4, <1>7, ServedOf, RecordingEnded
<1>8. CASE o \in Answer(sendCommand(h, e.on))
  BY <1>2, <1>8, Answered, CalmCommand, GoodCalm
<1>9. CASE o \in Served(h) \cup Refused(h)
  BY <1>2, <1>9, ServedOf, CalmItself, GoodCalm
<1> QED  BY <1>1, <1>5, <1>6, <1>7, <1>8, <1>9

LEMMA GoodPreviewPic ==
    ASSUME NEW h, CameraOK(h), h.state = "PREVIEW_PIC_TAKING", NEW e \in AnyReq,
           NEW o \in PreviewPicParams(h, e) \cup PreviewPicCalls(h, e)
    PROVE  Good(h, e, o.hw)
<1> DEFINE R == AndThen(updateParameters(h, e.on, e.hint),
                        LAMBDA u : IF NeedRestart(h, e.on, e.hint)
                                   THEN RestartPreview(u, "PIC_TAKING")
                                   ELSE commitParameterChanges(u))
           S == startRecording(h)
           C == sendCommand(h, FALSE)
           D == sendCommand(h, TRUE)
           p == PreviewPicCancel(h)
           q == IF h.zsl THEN stopChannel(p, "ZSL")
                ELSE IF h.long THEN p ELSE stopChannel(p, "PREVIEW")
<1>1. \/ o \in Answer(R) /\ e.evt = "SET_PARAMS"
      \/ o \in Served(Goto(p, "PREVIEWING"))
      \/ o \in Served(Goto(unpreparePreview(q), "PREVIEW_STOPPED"))
      \/ o \in Answer(Then(S, "VIDEO_PIC_TAKING", h.state)) /\ e.evt = "START_RECORDING"
      \/ o \in Answer(Then(C, "PREVIEWING", "PREVIEWING"))
      \/ o \in Answer(D)
      \/ o \in Answer(longShot(h))
      \/ o \in Served(h) \cup Refused(h)
  BY DEF PreviewPicParams, PreviewPicCalls, PreviewPicStopPreview, Refused
<1>2. HwOK(h) /\ ~ VideoOn(h) /\ h.state \notin Recording
  BY DEF CameraOK, VideoOK, VideoOn, Recording
<1>3. \A r \in R : \E u \in updateParameters(h, e.on, e.hint) :
        /\ u.ok => r \in IF NeedRestart(h, e.on, e.hint)
                         THEN RestartPreview(u.hw, "PIC_TAKING")
                         ELSE commitParameterChanges(u.hw)
        /\ ~ u.ok => r = u
  BY DEF AndThen
<1>4. Calm(h, p)
  BY <1>2, CalmCancel DEF PreviewPicCancel
<1> HIDE DEF R, p
<1>5. CASE o \in Answer(R) /\ e.evt = "SET_PARAMS"
  <2>1. PICK r \in R : o.hw = r.hw
    BY <1>5, Answered
  <2> QED  BY <1>2, <1>3, <1>5, <2>1, GoodRestartingSet DEF States, Recording
<1>6. CASE o \in Served(Goto(p, "PREVIEWING"))
  BY <1>2, <1>4, <1>6, ServedOf, GoodCalmGoto DEF States, Recording
<1>7. CASE o \in Served(Goto(unpreparePreview(q), "PREVIEW_STOPPED"))
  <2>1. Calm(p, q)
    BY <1>4, CalmOps, CalmItself DEF Calm, Channels
  <2> HIDE DEF q
  <2>2. Cleared(h, unpreparePreview(q))
    BY <1>4, <2>1, Unprepared, CalmTwice, CalmCleared DEF Calm
  <2> QED  BY <1>7, <2>2, ServedOf, GoodClearedGoto DEF States, Recording
<1>8. CASE o \in Answer(Then(S, "VIDEO_PIC_TAKING", h.state)) /\ e.evt = "START_RECORDING"
  <2>1. \A r \in S : Result(r) /\ Recorded(h, r.hw, r.ok)
    BY <1>2, RecordingStarted
  <2> HIDE DEF S
  <2>2. PICK r \in S : o.hw = Goto(r.hw, IF r.ok THEN "VIDEO_PIC_TAKING" ELSE "PREVIEW_PIC_TAKING")
    BY <1>8, <2>1, Answered, ThenOf
  <2>3. ~ Meek(e)
    BY <1>8 DEF Meek, Harmless, HalEvents, Events
  <2> QED  BY <2>1, <2>2, <2>3, GoodRecorded DEF States, Recording
<1>9. CASE o \in Answer(Then(C, "PREVIEWING", "PREVIEWING"))
  <2>1. \A r \in C : Result(r) /\ Calm(h, r.hw)
    BY <1>2, CalmCommand
  <2> HIDE DEF C
  <2>2. PICK r \in C : o.hw = Goto(r.hw, "PREVIEWING")
    BY <1>9, <2>1, Answered, ThenOf
  <2> QED  BY <1>2, <2>1, <2>2, GoodCalmGoto DEF States, Recording
<1>10. CASE o \in Answer(D)
  <2>1. \A r \in D : Calm(h, r.hw)
    BY <1>2, CalmCommand
  <2> HIDE DEF D
  <2> QED  BY <1>10, <2>1, Answered, GoodCalm
<1>11. CASE o \in Answer(longShot(h))
  BY <1>2, <1>11, Answered, CalmLongShot, GoodCalm
<1>12. CASE o \in Served(h) \cup Refused(h)
  BY <1>2, <1>12, ServedOf, CalmItself, GoodCalm
<1> QED  BY <1>1, <1>5, <1>6, <1>7, <1>8, <1>9, <1>10, <1>11, <1>12

\* The events of the HAL's own threads, in whatever state.
LEMMA GoodEvents ==
    ASSUME NEW h, CameraOK(h), NEW e, e.evt \in Events, NEW o \in EventOutcomes(h, e)
    PROVE  Good(h, e, o.hw) /\ (e.evt = "SNAPSHOT_DONE" => o.to = "evt")
<1> DEFINE N == {[hw |-> r.hw, ok |-> r.ok, to |-> "none"] : r \in processJpegNotify(h)}
<1>1. \/ o \in Done(PicTakingDone(h)) /\ h.state = "PIC_TAKING"
      \/ o \in Done(VideoPicDone(h)) /\ h.state = "VIDEO_PIC_TAKING"
      \/ o \in Done(PreviewPicDone(h)) /\ h.state = "PREVIEW_PIC_TAKING"
      \/ o \in Done(h)
      \/ o \in N /\ e.evt = "JPEG_EVT_NOTIFY"
      \/ o \in Served(PrepareDone(h)) /\ h.state = "PREPARE_SNAPSHOT" /\ e.evt = "PREP_SNAPSHOT_DONE"
  BY DEF EventOutcomes, Events
<1>2. HwOK(h)
  BY DEF CameraOK
<1>3. \A g : o \in Done(g) => o.hw = g /\ o.to = "evt"
  BY DEF Done
<1>4. CASE o \in Done(PicTakingDone(h)) /\ h.state = "PIC_TAKING"
  <2> DEFINE p == cancelPicture(h)
             s == IF Restart THEN "PREVIEWING" ELSE "PREVIEW_STOPPED"
  <2>1. Calm(h, p)
    BY <1>2, CalmCancel
  <2>2. o.hw = Goto(p, s) /\ o.to = "evt"
    BY <1>3, <1>4 DEF PicTakingDone
  <2> HIDE DEF p
  <2>3. Steady => NoPreview(p)
    BY <1>4, <2>1 DEF CameraOK, ModesOK, NoPreview, Calm
  <2> QED  BY <1>4, <2>1, <2>2, <2>3, GoodCalmGoto DEF States, Recording
<1>5. CASE o \in Done(VideoPicDone(h)) /\ h.state = "VIDEO_PIC_TAKING"
  <2> DEFINE p == cancelLiveSnapshot(h)
  <2>1. Calm(h, p)
    BY <1>2, CalmCancel
  <2>2. o.hw = Goto(p, "RECORDING") /\ o.to = "evt"
    BY <1>3, <1>5 DEF VideoPicDone
  <2> HIDE DEF p
  <2> QED  BY <1>5, <2>1, <2>2, GoodCalmGoto DEF States, Recording
<1>6. CASE o \in Done(PreviewPicDone(h)) /\ h.state = "PREVIEW_PIC_TAKING"
  <2> DEFINE p == PreviewPicCancel(h)
  <2>1. Calm(h, p)
    BY <1>2, CalmCancel DEF PreviewPicCancel
  <2>2. o.hw = Goto(p, "PREVIEWING") /\ o.to = "evt"
    BY <1>3, <1>6 DEF PreviewPicDone
  <2> HIDE DEF p
  <2> QED  BY <1>6, <2>1, <2>2, GoodCalmGoto DEF States, Recording
<1>7. CASE o \in Done(h)
  BY <1>2, <1>3, <1>7, CalmItself, GoodCalm
<1>8. CASE o \in N /\ e.evt = "JPEG_EVT_NOTIFY"
  <2>1. PICK r \in processJpegNotify(h) : o.hw = r.hw
    BY <1>8
  <2> QED  BY <1>2, <1>8, <2>1, CalmJpegNotify, GoodCalm
<1>9. CASE o \in Served(PrepareDone(h)) /\ h.state = "PREPARE_SNAPSHOT" /\ e.evt = "PREP_SNAPSHOT_DONE"
  <2>1. o.hw = Goto(h, "PREVIEWING")
    BY <1>9, ServedOf DEF PrepareDone
  <2> QED  BY <1>2, <1>9, <2>1, CalmItself, GoodCalmGoto DEF States, Recording
<1> QED  BY <1>1, <1>4, <1>5, <1>6, <1>7, <1>8, <1>9

LEMMA GoodCalls ==
    ASSUME NEW h, CameraOK(h), NEW e \in AnyReq, Steady => ParamsOK(h, e),
           NEW o \in ApiOutcomes(h, e)
    PROVE  Good(h, e, o.hw)
<1>1. h.state \in States
  BY DEF CameraOK, HwOK
<1> QED  BY <1>1, GoodStopped, GoodReady, GoodPreviewing, GoodPrepare, GoodPicTaking,
            GoodRecording, GoodVideoPic, GoodPreviewPic DEF ApiOutcomes, States

LEMMA GoodOutcomes ==
    ASSUME NEW h, CameraOK(h), NEW e \in AnyReq, Steady => ParamsOK(h, e),
           NEW o \in Outcomes(h, e)
    PROVE  Good(h, e, o.hw) /\ (e.evt = "SNAPSHOT_DONE" => o.to = "evt")
<1>1. CASE e.evt \in Events /\ o \in EventOutcomes(h, e)
  BY <1>1, GoodEvents
<1>2. CASE e.evt \notin Events /\ o \in ApiOutcomes(h, e)
  BY <1>2, GoodCalls DEF Events
<1>3. CASE o \in Ignored(h) /\ (IF e.evt \in Events THEN EventOutcomes(h, e) = {}
                                                    ELSE ApiOutcomes(h, e) = {})
  <2>1. o.hw = h
    BY <1>3 DEF Ignored
  <2>2. e.evt # "SNAPSHOT_DONE"
    <3>1. SUFFICES ASSUME e.evt = "SNAPSHOT_DONE" PROVE EventOutcomes(h, e) # {}
      BY <1>3 DEF Events
    <3>2. \A g : Done(g) # {}
      BY DEF Done
    <3> QED  BY <3>1, <3>2 DEF EventOutcomes, isCaptureRunning
  <2>3. Good(h, e, h)
    BY CalmItself, GoodCalm DEF CameraOK
  <2> QED  BY <2>1, <2>2, <2>3
<1>4. LET R == IF e.evt \in Events THEN EventOutcomes(h, e) ELSE ApiOutcomes(h, e)
      IN  o \in R \/ (R = {} /\ o \in Ignored(h))
  BY DEF Outcomes
<1> QED  BY <1>1, <1>2, <1>3, <1>4

-----------------------------------------------------------------------------
(* Steps.                                                                  *)

\* What a request that waits was weighed by is left alone.
Quiet(h, g) ==
    /\ g.zslNew = h.zslNew /\ g.hint = h.hint /\ g.hintKey = h.hintKey
    /\ g.state = "PIC_TAKING" => h.state = "PIC_TAKING"
    /\ g.state \in Recording => h.state \in Recording

LEMMA QuietParams ==
    ASSUME NEW h, NEW g, Quiet(h, g), NEW e, ParamsOK(h, e)
    PROVE  ParamsOK(g, e)
BY DEF Quiet, ParamsOK, NeedRestart

LEMMA QuietCalm ==
    ASSUME NEW h, CameraOK(h), NEW e, NEW g, Calm(h, g)
    PROVE  CameraOK(g) /\ Quiet(h, g) /\ (DoneQueued(h) => DoneQueued(g))
BY GoodCalm DEF Good, Calm, Kept, Quiet

\* A step of a thread of the HAL: the camera is quiet, and it may ask the
\* machine for something itself.
HalNode(n) == n \in AnyNode /\ n.by = "hal" /\ n.req.evt \in HalEvents \ {"SET_PARAMS"}

LEMMA HalStep ==
    ASSUME IInv, CameraOK(hw'), Quiet(hw, hw'), NotifyOK',
           UNCHANGED <<cur, app, answered, slot>>,
           apiQ' = apiQ \/ \E n : HalNode(n) /\ apiQ' = Append(apiQ, n)
    PROVE  IInv'
<1>1. \A n : NodeOK(hw, n) => NodeOK(hw', n)
  BY QuietParams DEF NodeOK
<1>2. CurOK'
  BY <1>1 DEF IInv, CurOK, Awaited
<1>3. AppOK' /\ OwnAnswer'
  BY DEF IInv, AppOK, OwnAnswer
<1>4. CASE apiQ' = apiQ
  <2>1. QueueOK'
    BY <1>1, <1>4 DEF IInv, QueueOK, Awaited
  <2> QED  BY <1>2, <1>3, <2>1 DEF IInv
<1>5. ASSUME NEW n, HalNode(n), apiQ' = Append(apiQ, n) PROVE IInv'
  <2>1. apiQ \in Seq(AnyNode) /\ n \in AnyNode
    BY <1>5 DEF IInv, QueueOK, HalNode
  <2>2. /\ apiQ' \in Seq(AnyNode) /\ Len(apiQ') = Len(apiQ) + 1 /\ apiQ'[Len(apiQ) + 1] = n
        /\ \A i \in 1 .. Len(apiQ) : apiQ'[i] = apiQ[i]
    BY <1>5, <2>1
  <2>3. NodeOK(hw', n) /\ ~ Real(n)
    BY <1>5 DEF HalNode, NodeOK, ParamsOK, Real
  <2>4. \A i \in 1 .. Len(apiQ') : i \in 1 .. Len(apiQ) \/ (i = Len(apiQ) + 1 /\ apiQ'[i] = n)
    BY <2>1, <2>2
  <2>5. \A i \in 1 .. Len(apiQ') : NodeOK(hw', apiQ'[i])
    BY <1>1, <2>2, <2>3, <2>4 DEF IInv, QueueOK
  <2>6. ASSUME NEW i \in 1 .. Len(apiQ'), Real(apiQ'[i])
        PROVE  /\ Awaited(apiQ[i])' /\ ~ Real(cur')
               /\ \A j \in 1 .. Len(apiQ') : Real(apiQ'[j]) => i = j
    <3>1. i \in 1 .. Len(apiQ) /\ Real(apiQ[i]) /\ apiQ'[i] = apiQ[i]
      BY <2>2, <2>3, <2>4, <2>6
    <3>2. /\ Awaited(apiQ[i]) /\ ~ Real(cur)
          /\ \A j \in 1 .. Len(apiQ) : Real(apiQ[j]) => i = j
      BY <3>1 DEF IInv, QueueOK
    <3> QED  BY <2>2, <2>3, <2>4, <3>1, <3>2 DEF Awaited
  <2>7. QueueOK'
    BY <2>2, <2>5, <2>6 DEF QueueOK, Awaited
  <2> QED  BY <1>2, <1>3, <2>7 DEF IInv
<1> QED  BY <1>4, <1>5

\* Such a step that does nothing uncalm, and leaves the notify thread alone.
LEMMA CalmStep ==
    ASSUME IInv, Calm(hw, hw'), UNCHANGED <<cur, app, answered, slot, notify>>,
           apiQ' = apiQ \/ \E n : HalNode(n) /\ apiQ' = Append(apiQ, n)
    PROVE  IInv'
<1>1. CameraOK(hw') /\ Quiet(hw, hw') /\ (DoneQueued(hw) => DoneQueued(hw'))
  BY QuietCalm DEF IInv
<1>2. NotifyOK'
  BY <1>1 DEF IInv, NotifyOK, DoneIsComing, DoneQueued
<1> QED  BY <1>1, <1>2, HalStep

LEMMA JobDoneStep == ASSUME IInv, JobDone PROVE IInv'
<1>1. HwOK(hw)
  BY DEF IInv, CameraOK
<1>2. PICK r \in PostStart(hw) :
        hw' = [(IF r.ok THEN r.hw ELSE delChannel(r.hw, "CAPTURE")) EXCEPT !.job = FALSE]
  BY DEF JobDone
<1> DEFINE h == IF r.ok THEN r.hw ELSE delChannel(r.hw, "CAPTURE")
<1>3. Calm(hw, r.hw)
  BY <1>1, CalmPostStart
<1>4. Calm(r.hw, h)
  BY <1>3, CalmOps, CalmItself DEF Calm, Channels
<1>5. hw' = [h EXCEPT !.job = FALSE]
  BY <1>2
<1> HIDE DEF h
<1>6. HwOK(h)
  BY <1>4 DEF Calm
<1>7. Calm(h, hw')
  BY <1>5, <1>6, CalmFields, Zenon
<1>8. Calm(hw, hw')
  BY <1>3, <1>4, <1>7, CalmTwice
<1> QED  BY <1>8, CalmStep DEF JobDone

LEMMA LiveSnapshotStep == ASSUME IInv, LiveSnapshot PROVE IInv'
<1> DEFINE R == AndThen(PostStart(hw), LAMBDA p : startChannel(p, "SNAPSHOT"))
           n == [req |-> Plain("CANCEL_PICTURE"), by |-> "hal"]
<1>1. HwOK(hw)
  BY DEF IInv, CameraOK
<1>2. PICK r \in R : /\ hw' = [r.hw EXCEPT !.live = "ended"]
                     /\ apiQ' = IF r.ok THEN apiQ ELSE Append(apiQ, n)
  BY DEF LiveSnapshot
<1>3. PICK p \in PostStart(hw) : IF p.ok THEN r \in startChannel(p.hw, "SNAPSHOT") ELSE r = p
  BY DEF AndThen
<1> HIDE DEF R
<1>4. HalNode(n)
  BY DEF HalNode, AnyNode, AnyReq, Plain, Evt, ApiEvents, HalEvents
<1> HIDE DEF n
<1>5. Calm(hw, p.hw)
  BY <1>1, CalmPostStart
<1>6. Calm(hw, r.hw)
  <2>1. HwOK(p.hw)
    BY <1>5 DEF Calm
  <2>2. r = p \/ Calm(p.hw, r.hw)
    BY <1>3, <2>1, CalmOps DEF Channels
  <2> QED  BY <1>5, <2>2, CalmTwice
<1>7. Calm(r.hw, hw')
  <2>1. HwOK(r.hw)
    BY <1>6 DEF Calm
  <2> QED  BY <1>2, <2>1, CalmFields, Zenon
<1>8. Calm(hw, hw')
  BY <1>6, <1>7, CalmTwice
<1> QED  BY <1>2, <1>4, <1>8, CalmStep DEF LiveSnapshot

LEMMA FrameStep == ASSUME IInv, Frame PROVE IInv'
<1>1. HwOK(hw)
  BY DEF IInv, CameraOK
<1>2. CASE hw' = hw
  BY <1>1, <1>2, CalmItself, CalmStep DEF Frame
<1>3. ASSUME NEW c \in Channels,
             hw' = [hw EXCEPT !.due[c] = @ - 1, !.dataQ = Append(@, "JOB")]
      PROVE  IInv'
  <2>1. Aside(hw, hw')
    BY <1>1, <1>3 DEF Aside, HwOK, Record, Opened
  <2> QED  BY <1>1, <2>1, CalmAside, CalmStep DEF Frame
<1> QED  BY <1>2, <1>3 DEF Frame, Channels

LEMMA DataProcStep == ASSUME IInv, DataProc PROVE IInv'
<1> DEFINE h == [hw EXCEPT !.dataQ = Tail(@)]
           n == [req |-> Plain("STOP_CAPTURE_CHANNEL"), by |-> "hal"]
<1>1. HwOK(hw)
  BY DEF IInv, CameraOK
<1>2. hw' \in {h, [h EXCEPT !.dataOn = TRUE], [h EXCEPT !.encoding = @ + 1]}
  BY DEF DataProc
<1>3. Aside(hw, hw')
  BY <1>1, <1>2 DEF Aside, HwOK, Record, Opened
<1>4. apiQ' = apiQ \/ apiQ' = Append(apiQ, n)
  BY DEF DataProc
<1>5. HalNode(n)
  BY DEF HalNode, AnyNode, AnyReq, Plain, Evt, ApiEvents, HalEvents
<1> QED  BY <1>1, <1>3, <1>4, <1>5, CalmAside, CalmStep DEF DataProc

\* The encoder and the daemon answer with an event.
LEMMA AnswerStep == ASSUME IInv, JpegDone \/ PrepSnapshotDone PROVE IInv'
<1> DEFINE e == IF JpegDone THEN "JPEG_EVT_NOTIFY" ELSE "PREP_SNAPSHOT_DONE"
           h == [hw EXCEPT !.evtQ = Append(hw.evtQ, e)]
<1>1. HwOK(hw)
  BY DEF IInv, CameraOK
<1>2. Calm(hw, h)
  BY <1>1, CalmEvent DEF Events
<1>3. hw' = [h EXCEPT !.encoding = hw.encoding - 1] \/ hw' = [h EXCEPT !.preparing = FALSE]
  BY <1>1 DEF JpegDone, PrepSnapshotDone, HwOK, Record, Opened
<1> HIDE DEF h
<1>4. Aside(h, hw')
  BY <1>2, <1>3 DEF Aside, Calm, HwOK, Record, Opened
<1>5. Calm(hw, hw')
  BY <1>2, <1>4, CalmAside, CalmTwice DEF Calm
<1> QED  BY <1>5, CalmStep DEF JpegDone, PrepSnapshotDone

\* The notify thread waits only once it has sent its event.
LEMMA NotifyStep == ASSUME IInv, Notify PROVE IInv'
<1> DEFINE last == ~notify.long /\ notify.expected > 0 /\ notify.rcvd + 1 = notify.expected
           h == [hw EXCEPT !.notifyQ = Tail(@)]
           g == [h EXCEPT !.evtQ = Append(h.evtQ, "SNAPSHOT_DONE")]
<1>1. HwOK(hw) /\ notify.pc = "run"
  BY DEF IInv, CameraOK, Notify
<1>2. \/ \E q : hw' = [h EXCEPT !.notifyQ = q] /\ notify'.pc = "run"
      \/ hw' = h /\ notify'.pc = "run"
      \/ hw' = g
  BY <1>1 DEF Notify, IInv, NotifyOK
<1>3. Aside(hw, h)
  BY <1>1 DEF Aside, HwOK, Record, Opened
<1>4. Calm(hw, h) /\ HwOK(h)
  BY <1>1, <1>3, CalmAside DEF Calm
<1> HIDE DEF h
<1>5. Calm(hw, hw') /\ (notify'.pc = "run" \/ DoneQueued(hw'))
  <2>1. CASE hw' = h /\ notify'.pc = "run"
    BY <1>4, <2>1
  <2>2. ASSUME NEW q, hw' = [h EXCEPT !.notifyQ = q], notify'.pc = "run"
        PROVE  Calm(hw, hw')
    <3>1. Aside(h, hw')
      BY <1>4, <2>2 DEF Aside, HwOK, Record, Opened
    <3> QED  BY <1>4, <3>1, CalmAside, CalmTwice
  <2>3. CASE hw' = g
    <3>1. Calm(h, g)
      BY <1>4, CalmEvent DEF Events
    <3>2. g.evtQ = Append(h.evtQ, "SNAPSHOT_DONE") /\ h.evtQ \in Seq(Events)
      BY <1>4 DEF HwOK, Record, Opened
    <3>3. DoneQueued(g)
      BY <3>2 DEF DoneQueued, Contains, Events
    <3> QED  BY <1>4, <2>3, <3>1, <3>3, CalmTwice
  <2> QED  BY <1>2, <2>1, <2>2, <2>3
<1>6. CameraOK(hw') /\ Quiet(hw, hw')
  BY <1>5, QuietCalm DEF IInv
<1>7. notify' \in [pc : {"run", "done"}, active : BOOLEAN, long : BOOLEAN,
                   expected : 0 .. Burst, rcvd : Nat]
  <2>1. /\ notify \in [pc : {"run", "done"}, active : BOOLEAN, long : BOOLEAN,
                       expected : 0 .. Burst, rcvd : Nat]
        /\ hw.long \in BOOLEAN /\ Burst \in 0 .. Burst
    BY <1>1, CameraAssumption DEF IInv, NotifyOK, HwOK
  <2>2. \/ notify' = notify
        \/ notify' = [notify EXCEPT !.active = TRUE, !.expected = Burst, !.long = hw.long, !.rcvd = 0]
        \/ notify' = [notify EXCEPT !.active = FALSE, !.expected = 0, !.rcvd = 0]
        \/ notify' = [notify EXCEPT !.rcvd = IF notify.long THEN @ ELSE @ + 1,
                                    !.pc = IF last THEN "done" ELSE "run"]
    BY DEF Notify
  <2>3. CASE notify' = notify
    BY <2>1, <2>3
  <2>4. CASE notify' = [notify EXCEPT !.active = TRUE, !.expected = Burst, !.long = hw.long, !.rcvd = 0]
    BY <2>1, <2>4
  <2>5. CASE notify' = [notify EXCEPT !.active = FALSE, !.expected = 0, !.rcvd = 0]
    <3>1. 0 \in 0 .. Burst
      BY CameraAssumption
    <3> QED  BY <2>1, <2>5, <3>1
  <2>6. CASE notify' = [notify EXCEPT !.rcvd = IF notify.long THEN @ ELSE @ + 1,
                                      !.pc = IF last THEN "done" ELSE "run"]
    <3>1. (IF notify.long THEN notify.rcvd ELSE notify.rcvd + 1) \in Nat
      BY <2>1
    <3> HIDE DEF last
    <3>2. (IF last THEN "done" ELSE "run") \in {"run", "done"}
      OBVIOUS
    <3> QED  BY <2>1, <2>6, <3>1, <3>2
  <2> QED  BY <2>2, <2>3, <2>4, <2>5, <2>6
<1>8. NotifyOK'
  BY <1>5, <1>7 DEF NotifyOK, DoneIsComing, DoneQueued
<1> QED  BY <1>6, <1>8, HalStep DEF Notify

-----------------------------------------------------------------------------
(* The application.                                                        *)

\* A new request is put last, when no other of the caller's is pending.
LEMMA AskStep ==
    ASSUME IInv, NEW c, Ask(c), UNCHANGED <<hw, cur, notify>>,
           Head(c) \in AnyReq, AppReq(Head(c)), Steady => ParamsOK(hw, Head(c)),
           Tail(c) \in {<<>>, <<Plain("TAKE_PICTURE")>>},
           ~ Real(cur), \A i \in 1 .. Len(apiQ) : ~ Real(apiQ[i])
    PROVE  IInv'
<1> DEFINE n == [req |-> Head(c), by |-> "app"]
<1>1. /\ apiQ' = Append(apiQ, n)
      /\ app' = [pc |-> "wait", req |-> Head(c), next |-> Tail(c)] /\ answered' = FALSE
  BY DEF Ask
<1>2. n \in AnyNode /\ NodeOK(hw, n) /\ n.req = Head(c)
  BY DEF AnyNode, NodeOK
<1> HIDE DEF n
<1>3. apiQ \in Seq(AnyNode)
  BY DEF IInv, QueueOK
<1>4. /\ apiQ' \in Seq(AnyNode) /\ Len(apiQ') = Len(apiQ) + 1 /\ apiQ'[Len(apiQ) + 1] = n
      /\ \A i \in 1 .. Len(apiQ) : apiQ'[i] = apiQ[i]
  BY <1>1, <1>2, <1>3
<1>5. \A i \in 1 .. Len(apiQ') : i \in 1 .. Len(apiQ) \/ (i = Len(apiQ) + 1 /\ apiQ'[i] = n)
  BY <1>3, <1>4
<1>6. \A i \in 1 .. Len(apiQ') : NodeOK(hw, apiQ'[i])
  BY <1>2, <1>4, <1>5 DEF IInv, QueueOK
<1>7. \A i \in 1 .. Len(apiQ') : Real(apiQ'[i]) => i = Len(apiQ) + 1 /\ apiQ'[i] = n
  BY <1>4, <1>5
<1>8. QueueOK'
  BY <1>1, <1>2, <1>4, <1>6, <1>7 DEF QueueOK, Awaited
<1>9. CurOK' /\ NotifyOK'
  BY DEF IInv, CurOK, NotifyOK, DoneIsComing
<1>10. AppOK' /\ OwnAnswer'
  BY <1>1 DEF AppOK, OwnAnswer
<1> QED  BY <1>8, <1>9, <1>10 DEF IInv

LEMMA CallStep == ASSUME IInv, Call PROVE IInv'
<1>1. PICK c \in Calls : WithCare(Head(c)) /\ Ask(c)
  BY DEF Call
<1>2. ~ Real(cur) /\ \A i \in 1 .. Len(apiQ) : ~ Real(apiQ[i])
  BY DEF Call, IInv, QueueOK, CurOK, Awaited
<1>3. /\ Head(c) \in AnyReq /\ AppReq(Head(c))
      /\ Tail(c) \in {<<>>, <<Plain("TAKE_PICTURE")>>}
  <2>1. \/ \E r \in AnyReq : c = <<r>> /\ AppReq(r)
        \/ c = <<Plain("PREPARE_SNAPSHOT"), Plain("TAKE_PICTURE")>>
    <3> DEFINE A == {<<Plain(e)>> : e \in Used \ (Flagged \cup
                       {"SET_PARAMS", "PREPARE_SNAPSHOT", "STOP_CAPTURE_CHANNEL"})}
               B == {<<[Plain(e) EXCEPT !.on = on]>> : e \in Used \cap Flagged, on \in BOOLEAN}
               C == {<<Evt(e, zsl, hint)>> : e \in Used \cap {"SET_PARAMS"}, zsl, hint \in BOOLEAN}
               D == {<<Plain(e), Plain("TAKE_PICTURE")>> : e \in Used \cap {"PREPARE_SNAPSHOT"}}
    <3>1. c \in A \cup B \cup C \cup D
      BY DEF Calls
    <3> HIDE DEF A, B, C, D
    <3>2. ASSUME NEW x \in Used \ {"PREPARE_SNAPSHOT", "STOP_CAPTURE_CHANNEL"},
                 NEW r \in [evt : {x}, on : BOOLEAN, hint : BOOLEAN]
          PROVE  r \in AnyReq /\ AppReq(r)
      BY <3>2, ApiAssumption DEF AnyReq, AppReq
    <3>3. CASE c \in A
      <4>1. PICK x \in Used \ (Flagged \cup {"SET_PARAMS", "PREPARE_SNAPSHOT", "STOP_CAPTURE_CHANNEL"}) :
              c = <<Plain(x)>>
        BY <3>3 DEF A
      <4>2. Plain(x) \in [evt : {x}, on : BOOLEAN, hint : BOOLEAN]
        BY DEF Plain, Evt
      <4> QED  BY <3>2, <4>1, <4>2
    <3>4. CASE c \in B
      <4>1. PICK x \in Used \cap Flagged, on \in BOOLEAN : c = <<[Plain(x) EXCEPT !.on = on]>>
        BY <3>4 DEF B
      <4> DEFINE r == [Plain(x) EXCEPT !.on = on]
      <4>2. Plain(x) \in [evt : {x}, on : BOOLEAN, hint : BOOLEAN]
        BY DEF Plain, Evt
      <4>3. r \in [evt : {x}, on : BOOLEAN, hint : BOOLEAN]
        BY <4>2
      <4>4. c = <<r>>
        BY <4>1
      <4> HIDE DEF r
      <4> QED  BY <3>2, <4>3, <4>4 DEF Flagged
    <3>5. CASE c \in C
      <4>1. PICK x \in Used \cap {"SET_PARAMS"}, zsl \in BOOLEAN, hint \in BOOLEAN :
              c = <<Evt(x, zsl, hint)>>
        BY <3>5 DEF C
      <4>2. Evt(x, zsl, hint) \in [evt : {x}, on : BOOLEAN, hint : BOOLEAN]
        BY DEF Evt
      <4> QED  BY <3>2, <4>1, <4>2
    <3>6. CASE c \in D
      BY <3>6 DEF D
    <3> QED  BY <3>1, <3>3, <3>4, <3>5, <3>6
  <2>2. CASE \E r \in AnyReq : c = <<r>> /\ AppReq(r)
    BY <2>2
  <2>3. CASE c = <<Plain("PREPARE_SNAPSHOT"), Plain("TAKE_PICTURE")>>
    <3>1. \A x, y : Head(<<x, y>>) = x /\ Tail(<<x, y>>) = <<y>>
      OBVIOUS
    <3>2. Plain("PREPARE_SNAPSHOT") \in AnyReq
      BY DEF AnyReq, Plain, Evt, ApiEvents
    <3>3. AppReq(Plain("PREPARE_SNAPSHOT"))
      BY DEF AppReq, Plain, Evt, ApiEvents
    <3> QED  BY <2>3, <3>1, <3>2, <3>3
  <2> QED  BY <2>1, <2>2, <2>3
<1>4. Steady => ParamsOK(hw, Head(c))
  BY <1>1 DEF Steady, ParamsOK, WithCare
<1> QED  BY <1>1, <1>2, <1>3, <1>4, AskStep DEF Call

LEMMA WaitStep == ASSUME IInv, waitAPIResult PROVE IInv'
<1>1. app.pc = "woken" /\ UNCHANGED <<hw, cur, notify, asleep>>
  BY DEF waitAPIResult
<1>2. slot = app.req.evt =>
        ~ Real(cur) /\ \A i \in 1 .. Len(apiQ) : ~ Real(apiQ[i])
  BY <1>1 DEF IInv, QueueOK, CurOK, OwnAnswer, Awaited, Real, Harmless
<1>3. CASE slot # app.req.evt /\ app' = [app EXCEPT !.pc = "wait"] /\ UNCHANGED <<apiQ, answered, slot>>
  <2>1. app'.req = app.req /\ app'.pc = "wait" /\ app'.next = app.next /\ AppOK'
    BY <1>1, <1>3 DEF IInv, AppOK
  <2>2. QueueOK' /\ CurOK'
    BY <1>1, <1>3, <2>1 DEF IInv, QueueOK, CurOK, Awaited
  <2> QED  BY <1>1, <1>3, <2>1, <2>2 DEF IInv, NotifyOK, DoneIsComing, OwnAnswer
<1>4. CASE slot = app.req.evt /\ app.next # <<>> /\ Ask(app.next)
  <2>1. app.next = <<Plain("TAKE_PICTURE")>>
    BY <1>4 DEF IInv, AppOK
  <2>2. Head(app.next) = Plain("TAKE_PICTURE") /\ Tail(app.next) = <<>>
    BY <2>1
  <2>3. Head(app.next) \in AnyReq /\ Head(app.next).evt = "TAKE_PICTURE"
    <3>1. Plain("TAKE_PICTURE") \in AnyReq
      BY DEF AnyReq, Plain, Evt, ApiEvents
    <3>2. Plain("TAKE_PICTURE").evt = "TAKE_PICTURE"
      BY DEF Plain, Evt
    <3> QED  BY <2>2, <3>1, <3>2
  <2>4. AppReq(Head(app.next)) /\ ParamsOK(hw, Head(app.next))
    BY <2>3 DEF AppReq, ParamsOK, ApiEvents
  <2> QED  BY <1>1, <1>2, <1>4, <2>2, <2>3, <2>4, AskStep
<1>5. CASE slot = app.req.evt /\ app' = Idle /\ answered' = FALSE /\ UNCHANGED apiQ
  <2>1. app'.pc = "idle" /\ AppOK'
    BY <1>5 DEF AppOK, Idle, NoReq, AnyReq, Plain, Evt
  <2>2. QueueOK' /\ CurOK'
    BY <1>1, <1>2, <1>5 DEF IInv, QueueOK, CurOK
  <2> QED  BY <1>1, <2>1, <2>2 DEF IInv, NotifyOK, DoneIsComing, OwnAnswer
<1> QED  BY <1>3, <1>4, <1>5 DEF waitAPIResult

-----------------------------------------------------------------------------
(* The state machine's thread.                                             *)
Pending(q, n) ==
    /\ q \in Seq(AnyNode)
    /\ \A i \in 1 .. Len(q) :
         /\ NodeOK(hw, q[i])
         /\ Real(q[i]) => /\ Awaited(q[i]) /\ ~ Real(n)
                          /\ \A j \in 1 .. Len(q) : Real(q[j]) => i = j

\* The node in work, or the one taken from the queue of requests, or from
\* that of the events.
LEMMA NodeTaken ==
    ASSUME IInv, Work
    PROVE  /\ Node \in AnyNode /\ NodeOK(hw, Node) /\ (Real(Node) => Awaited(Node))
           /\ Pending(apiQTaken, Node)
           /\ cur.req # NoReq => Node = cur
           /\ Node.req # NoReq
<1>1. /\ apiQ \in Seq(AnyNode) /\ Pending(apiQ, cur) /\ cur \in AnyNode
      /\ cur.req # NoReq => NodeOK(hw, cur)
      /\ Real(cur) => Awaited(cur)
  BY DEF IInv, QueueOK, CurOK, Pending
<1>2. CASE cur.req # NoReq
  BY <1>1, <1>2 DEF Node, apiQTaken
<1>3. CASE cur.req = NoReq /\ apiQ # <<>>
  <2>1. Node = apiQ[1] /\ apiQTaken = Tail(apiQ) /\ Len(apiQ) > 0
    BY <1>1, <1>3 DEF Node, apiQTaken
  <2>2. /\ Node \in AnyNode /\ NodeOK(hw, Node) /\ (Real(Node) => Awaited(Node))
    BY <1>1, <2>1 DEF Pending
  <2>3. /\ Tail(apiQ) \in Seq(AnyNode) /\ Len(Tail(apiQ)) = Len(apiQ) - 1
        /\ \A i \in 1 .. Len(Tail(apiQ)) : i + 1 \in 1 .. Len(apiQ) /\ Tail(apiQ)[i] = apiQ[i + 1]
    BY <1>1, <2>1
  <2>4. Pending(apiQTaken, Node)
    BY <1>1, <2>1, <2>3 DEF Pending
  <2>5. Node.req # NoReq
    <3>1. Node.req.evt # "none"
      BY <2>2 DEF NodeOK, AnyNode, AppReq, ApiEvents, HalEvents, Events
    <3> QED  BY <3>1 DEF NoReq, Plain, Evt
  <2> QED  BY <1>3, <2>2, <2>4, <2>5
<1>4. CASE cur.req = NoReq /\ apiQ = <<>>
  <2>1. hw.evtQ \in Seq(Events) /\ hw.evtQ # <<>>
    BY <1>4 DEF IInv, CameraOK, HwOK, Work
  <2>2. Head(hw.evtQ) \in Events
    BY <2>1
  <2>3. Node = [req |-> Plain(Head(hw.evtQ)), by |-> "hal"] /\ apiQTaken = <<>>
    BY <1>4 DEF Node, apiQTaken
  <2>4. Node.by = "hal" /\ Node.req.evt \in Events /\ Node \in AnyNode
    BY <2>2, <2>3 DEF AnyNode, AnyReq, Plain, Evt
  <2>5. NodeOK(hw, Node) /\ ~ Real(Node) /\ Node.req # NoReq
    BY <2>4 DEF NodeOK, HalEvents, ParamsOK, Real, Events, NoReq, Plain, Evt
  <2>6. Pending(apiQTaken, Node)
    BY <2>3 DEF Pending
  <2> QED  BY <1>4, <2>4, <2>5, <2>6
<1> QED  BY <1>2, <1>3, <1>4

LEMMA CameraTaken ==
    ASSUME IInv, Work
    PROVE  /\ CameraOK(Taken) /\ Quiet(hw, Taken) /\ Quiet(Taken, hw)
           /\ DoneQueued(hw) => DoneQueued(Taken) \/ (cur.req = NoReq /\ Node.req.evt = "SNAPSHOT_DONE")
<1> DEFINE q == IF cur.req = NoReq /\ apiQ = <<>> THEN Tail(hw.evtQ) ELSE hw.evtQ
           g == [hw EXCEPT !.evtQ = q]
<1>1. HwOK(hw)
  BY DEF IInv, CameraOK
<1>2. /\ q \in Seq(Events)
      /\ \/ q = hw.evtQ
         \/ /\ cur.req = NoReq /\ apiQ = <<>> /\ hw.evtQ # <<>>
            /\ q = Tail(hw.evtQ)
  BY <1>1 DEF HwOK, Work
<1> HIDE DEF q
<1>3. Taken = g
  BY DEF Taken, q
<1>4. /\ Record(g) /\ g.long = hw.long
      /\ g.state = hw.state /\ g.zsl = hw.zsl /\ g.zslNew = hw.zslNew
      /\ g.hint = hw.hint /\ g.hintNew = hw.hintNew
      /\ g.hintKey = hw.hintKey /\ g.tmpHint = hw.tmpHint
      /\ g.ch = hw.ch /\ g.evtQ = q
  BY <1>1 DEF HwOK, Record, Opened
<1> HIDE DEF g
<1>5. HwOK(g)
  BY <1>1, <1>2, <1>4 DEF HwOK
<1>6. CameraOK(g)
  BY <1>4, <1>5 DEF IInv, CameraOK, VideoOK, ModesOK, NoPreview, ChannelFits, PreviewChannel
<1>7. Quiet(hw, g) /\ Quiet(g, hw)
  BY <1>4 DEF Quiet
<1>8. DoneQueued(hw) => DoneQueued(g) \/ (cur.req = NoReq /\ Node.req.evt = "SNAPSHOT_DONE")
  <2>1. SUFFICES ASSUME DoneQueued(hw), q # hw.evtQ, ~ DoneQueued(g)
                 PROVE  cur.req = NoReq /\ Node.req.evt = "SNAPSHOT_DONE"
    BY <1>4 DEF DoneQueued
  <2>2. /\ cur.req = NoReq /\ apiQ = <<>> /\ hw.evtQ # <<>> /\ q = Tail(hw.evtQ)
        /\ hw.evtQ \in Seq(Events)
    BY <1>1, <1>2, <2>1 DEF HwOK
  <2>3. PICK i \in 1 .. Len(hw.evtQ) : hw.evtQ[i] = "SNAPSHOT_DONE"
    BY <2>1 DEF DoneQueued, Contains
  <2>4. i = 1
    <3>1. SUFFICES ASSUME i # 1 PROVE FALSE
      OBVIOUS
    <3>2. i - 1 \in 1 .. Len(q) /\ q[i - 1] = "SNAPSHOT_DONE"
      BY <2>2, <2>3, <3>1
    <3> QED  BY <1>4, <2>1, <3>2 DEF DoneQueued, Contains
  <2>5. Node.req.evt = Head(hw.evtQ)
    BY <2>2 DEF Node, Plain, Evt
  <2> QED  BY <2>2, <2>3, <2>4, <2>5
<1> QED  BY <1>3, <1>6, <1>7, <1>8

\* A handler begins and has to wait.
LEMMA BlockStep == ASSUME IInv, Block PROVE IInv'
<1>1. /\ cur.req = NoReq /\ cur' = Node /\ hw' = Taken /\ apiQ' = apiQTaken
      /\ UNCHANGED <<app, answered, slot, notify>>
  BY DEF Block
<1>2. /\ Node \in AnyNode /\ NodeOK(hw, Node) /\ (Real(Node) => Awaited(Node))
      /\ Pending(apiQTaken, Node) /\ Node.req # NoReq
  BY NodeTaken DEF Block
<1>3. /\ CameraOK(hw') /\ Quiet(hw, hw')
      /\ DoneQueued(hw) => DoneQueued(hw') \/ (cur.req = NoReq /\ Node.req.evt = "SNAPSHOT_DONE")
  BY <1>1, CameraTaken DEF Block
<1>4. \A n : NodeOK(hw, n) => NodeOK(hw', n)
  BY <1>3, QuietParams DEF NodeOK
<1>5. QueueOK'
  BY <1>1, <1>2, <1>4 DEF QueueOK, Pending, Awaited
<1>6. CurOK'
  BY <1>1, <1>2, <1>4 DEF CurOK, Awaited
<1>7. NotifyOK'
  <2>1. cur.req.evt # "SNAPSHOT_DONE"
    BY <1>1 DEF NoReq, Plain, Evt
  <2> QED  BY <1>1, <1>3, <2>1 DEF IInv, NotifyOK, DoneIsComing, DoneQueued
<1> QED  BY <1>1, <1>3, <1>5, <1>6, <1>7 DEF IInv, AppOK, OwnAnswer

\* A node is handled.  If it is not the request the caller waits for, that
\* request, if it still waits, is as good as before; if it is, there is no
\* other.
LEMMA HandleStep == ASSUME IInv, Handle PROVE IInv'
<1> DEFINE n == Node
           prepared == n.req.evt = "PREP_SNAPSHOT_DONE"
<1>1. PICK o \in Outcomes(Taken, n.req) :
        /\ hw' = o.hw
        /\ IF o.to = "api" THEN signalAPIResult(n) ELSE UNCHANGED <<slot, app, answered>>
        /\ IF o.to = "evt" THEN notify' = [notify EXCEPT !.pc = "run"] ELSE UNCHANGED notify
  BY DEF Handle, signalEvtResult
<1>2. cur' = [req |-> NoReq, by |-> "hal"] /\ apiQ' = apiQTaken
  BY DEF Handle
<1>3. /\ n \in AnyNode /\ NodeOK(hw, n) /\ (Real(n) => Awaited(n))
      /\ Pending(apiQTaken, n) /\ (cur.req # NoReq => n = cur)
  BY NodeTaken DEF Handle
<1>4. /\ CameraOK(Taken) /\ Quiet(hw, Taken) /\ Quiet(Taken, hw)
      /\ DoneQueued(hw) => DoneQueued(Taken) \/ (cur.req = NoReq /\ n.req.evt = "SNAPSHOT_DONE")
  BY CameraTaken DEF Handle
<1> HIDE DEF n
<1>5. Good(Taken, n.req, hw') /\ (n.req.evt = "SNAPSHOT_DONE" => o.to = "evt")
  <2>1. n.req \in AnyReq /\ (Steady => ParamsOK(Taken, n.req))
    BY <1>3, <1>4, QuietParams DEF AnyNode, NodeOK
  <2> QED  BY <1>1, <1>4, <2>1, GoodOutcomes
<1>6. \/ UNCHANGED <<slot, app, answered>>
      \/ /\ app.pc # "idle"
         /\ slot' = IF prepared THEN "PREPARE_SNAPSHOT" ELSE n.req.evt
         /\ app' = [app EXCEPT !.pc = "woken"]
         /\ answered' = (answered \/ (n.by = "app" /\ n.req = app.req)
                                 \/ (prepared /\ app.req.evt = "PREPARE_SNAPSHOT"))
  BY <1>1 DEF signalAPIResult
<1>7. app'.req = app.req /\ (app'.pc = "idle" <=> app.pc = "idle") /\ AppOK'
  BY <1>6 DEF IInv, AppOK
<1>8. CameraOK(hw') /\ (DoneQueued(Taken) => DoneQueued(hw'))
  BY <1>5 DEF Good
<1>9. Meek(n.req) => Quiet(hw, hw')
  BY <1>4, <1>5 DEF Good, Quiet
<1>10. Real(n) \/ Meek(n.req)
  BY <1>3 DEF NodeOK, AnyNode, Real, Meek
<1>11. QueueOK'
  <2>1. ASSUME NEW i \in 1 .. Len(apiQTaken)
        PROVE  NodeOK(hw', apiQTaken[i])
    <3>1. apiQTaken[i] \in AnyNode /\ NodeOK(hw, apiQTaken[i])
      BY <1>3, <2>1 DEF Pending
    <3>2. CASE Quiet(hw, hw')
      BY <3>1, <3>2, QuietParams DEF NodeOK
    <3>3. CASE ~ Quiet(hw, hw')
      <4>1. Real(n)
        BY <1>9, <1>10, <3>3
      <4>2. ~ Real(apiQTaken[i])
        BY <1>3, <2>1, <4>1 DEF Pending
      <4>3. apiQTaken[i].req.evt # "SET_PARAMS"
        BY <3>1, <4>2 DEF NodeOK, Real, AnyNode, HalEvents, Events, Harmless
      <4> QED  BY <3>1, <4>3 DEF NodeOK, ParamsOK
    <3> QED  BY <3>2, <3>3
  <2>2. ASSUME NEW i \in 1 .. Len(apiQTaken), Real(apiQTaken[i])
        PROVE  /\ apiQTaken[i].req = app'.req /\ app'.pc # "idle" /\ ~ answered'
               /\ \A j \in 1 .. Len(apiQTaken) : Real(apiQTaken[j]) => i = j
    <3>1. /\ Awaited(apiQTaken[i]) /\ ~ Real(n)
          /\ \A j \in 1 .. Len(apiQTaken) : Real(apiQTaken[j]) => i = j
      BY <1>3, <2>2 DEF Pending
    <3>2. app.req = apiQTaken[i].req /\ app.req.evt \notin Harmless /\ ~ answered
      BY <2>2, <3>1 DEF Awaited, Real
    <3>3. ~ (n.by = "app" /\ n.req = app.req)
      BY <3>1, <3>2 DEF Real
    <3>4. ~ (prepared /\ app.req.evt = "PREPARE_SNAPSHOT")
      BY <3>2 DEF Harmless
    <3>5. ~ answered'
      BY <1>6, <3>2, <3>3, <3>4, Zenon
    <3> QED  BY <1>7, <3>1, <3>2, <3>5 DEF Awaited
  <2>3. ~ Real(cur')
    BY <1>2 DEF Real
  <2> QED  BY <1>2, <1>3, <2>1, <2>2, <2>3 DEF QueueOK, Pending, Awaited
<1>12. CurOK'
  <2>1. cur' \in AnyNode /\ cur'.req = NoReq /\ ~ Real(cur')
    BY <1>2 DEF AnyNode, AnyReq, NoReq, Plain, Evt, Real
  <2> QED  BY <2>1 DEF CurOK
<1>13. NotifyOK'
  <2>1. notify' \in [pc : {"run", "done"}, active : BOOLEAN, long : BOOLEAN,
                     expected : 0 .. Burst, rcvd : Nat]
    BY <1>1 DEF IInv, NotifyOK
  <2>2. SUFFICES ASSUME notify'.pc = "done" PROVE DoneQueued(hw')
    BY <2>1 DEF NotifyOK, DoneIsComing, DoneQueued
  <2>3. notify' = notify /\ o.to # "evt"
    BY <1>1, <2>1, <2>2 DEF IInv, NotifyOK
  <2>4. n.req.evt # "SNAPSHOT_DONE"
    BY <1>5, <2>3
  <2>5. DoneQueued(hw)
    <3>1. cur.req.evt # "SNAPSHOT_DONE"
      BY <1>3, <2>4 DEF NoReq, Plain, Evt
    <3> QED  BY <2>2, <2>3, <3>1 DEF IInv, NotifyOK, DoneIsComing, DoneQueued
  <2> QED  BY <1>4, <1>8, <2>4, <2>5
<1>14. OwnAnswer'
  <2>1. SUFFICES ASSUME app'.pc = "woken", slot' = app'.req.evt, app'.req.evt # "CANCEL_PICTURE",
                        ~ UNCHANGED <<slot, app, answered>>
                 PROVE  answered'
    BY DEF IInv, OwnAnswer
  <2>2. /\ app.pc # "idle"
        /\ slot' = IF prepared THEN "PREPARE_SNAPSHOT" ELSE n.req.evt
        /\ answered' = (answered \/ (n.by = "app" /\ n.req = app.req)
                                \/ (prepared /\ app.req.evt = "PREPARE_SNAPSHOT"))
    BY <1>6, <2>1
  <2>3. CASE prepared
    BY <1>7, <2>1, <2>2, <2>3
  <2>4. CASE ~ prepared
    <3>1. n.req.evt = app.req.evt /\ AppReq(app.req)
      BY <1>7, <2>1, <2>2, <2>4 DEF IInv, AppOK
    <3>2. n.by = "app"
      BY <1>3, <1>7, <2>1, <3>1 DEF NodeOK, AnyNode, HalEvents, Events, AppReq, ApiEvents
    <3>3. CASE n.req.evt = "PREPARE_SNAPSHOT"
      BY <1>3, <2>2, <3>1, <3>2, <3>3 DEF NodeOK, AppReq
    <3>4. CASE n.req.evt # "PREPARE_SNAPSHOT"
      BY <1>3, <1>7, <2>1, <2>2, <3>1, <3>2, <3>4 DEF Real, Harmless, Awaited
    <3> QED  BY <3>3, <3>4
  <2> QED  BY <2>3, <2>4
<1> QED  BY <1>7, <1>8, <1>11, <1>12, <1>13, <1>14 DEF IInv

-----------------------------------------------------------------------------
LEMMA InitIInv == Init => IInv
<1> SUFFICES ASSUME Init PROVE IInv
  OBVIOUS
<1> USE DEF Init
<1>1. Record(Opened)
  BY DEF Record, Opened
<1>2. HwOK(Opened)
  BY <1>1 DEF HwOK, Opened, States, Channels
<1>3. CameraOK(hw)
  BY <1>2 DEF CameraOK, VideoOK, ModesOK, ChannelFits, NoPreview, Opened, Recording, Channels
<1>4. NoReq \in AnyReq
  BY DEF NoReq, AnyReq, Plain, Evt
<1>5. QueueOK /\ CurOK /\ AppOK
  BY <1>4 DEF QueueOK, CurOK, AppOK, Idle, AnyNode, Real
<1>6. NotifyOK /\ OwnAnswer
  BY CameraAssumption DEF NotifyOK, DoneIsComing, OwnAnswer, Idle
<1> QED  BY <1>3, <1>5, <1>6 DEF IInv

LEMMA NextIInv == IInv /\ [Next]_vars => IInv'
<1> SUFFICES ASSUME IInv, [Next]_vars PROVE IInv'
  OBVIOUS
<1>1. CASE UNCHANGED vars
  <2>1. Calm(hw, hw')
    BY <1>1, CalmItself DEF IInv, CameraOK, vars
  <2> QED  BY <1>1, <2>1, CalmStep DEF vars
<1>2. CASE Call
  BY <1>2, CallStep
<1>3. CASE waitAPIResult
  BY <1>3, WaitStep
<1>4. CASE Sm
  BY <1>4, BlockStep, HandleStep DEF Sm
<1>5. CASE Hal
  BY <1>5, JobDoneStep, LiveSnapshotStep, DataProcStep, NotifyStep DEF Hal
<1>6. CASE Daemon
  BY <1>6, FrameStep, AnswerStep DEF Daemon
<1> QED  BY <1>1, <1>2, <1>3, <1>4, <1>5, <1>6 DEF Next

THEOREM Invariance == Spec => []IInv
BY InitIInv, NextIInv, PTL DEF Spec

-----------------------------------------------------------------------------
\* Whatever start, stop, live snapshot or refusal of a driver came before,
\* the video channel streams exactly while a recording is on
\* (startRecording, stopRecording, cancelLiveSnapshot).
THEOREM RecordingStreams == Spec => []VideoIffRecording
<1>1. IInv => VideoIffRecording
  BY DEF IInv, CameraOK, VideoOK, VideoIffRecording
<1> QED  BY <1>1, Invariance, PTL

\* The notify thread, which waits in processSyncEvt without a timeout, never
\* waits for an event that is not to come.
THEOREM NotifyIsWoken == Spec => []DoneIsComing
<1>1. IInv => DoneIsComing
  BY DEF IInv, NotifyOK
<1> QED  BY <1>1, Invariance, PTL

\* waitAPIResult returns the answer to the caller's own request, though the
\* HAL's internal requests are answered through the same m_apiResult.
THEOREM AnswersAreOwn == Spec => []OwnAnswer
<1>1. IInv => OwnAnswer
  BY DEF IInv
<1> QED  BY <1>1, Invariance, PTL

\* Where no parameter is refused, the preview is not restarted behind the
\* application's back and the application is careful, no two channels
\* deliver preview frames (addZSLChannel, unpreparePreview).
THEOREM OneSourceOfPreview == ASSUME Steady PROVE Spec => []OnePreview
<1>1. IInv => OnePreview
  BY DEF IInv, CameraOK, ModesOK, ChannelFits, PreviewChannel, OnePreview
<1> QED  BY <1>1, Invariance, PTL

\* And in PREVIEW_STOPPED nothing that feeds a preview or a recording
\* streams, by whichever handler or error path the state was reached.
THEOREM StoppedIsQuiet == ASSUME Steady PROVE Spec => []StoppedMeansStopped
<1>1. IInv => StoppedMeansStopped
  BY DEF IInv, CameraOK, ModesOK, NoPreview, VideoOK, Recording, StoppedMeansStopped
<1> QED  BY <1>1, Invariance, PTL
=============================================================================
