------------------------- MODULE MediaSourceProofs -------------------------
(* Proofs about MediaSource, for any settings, any length of the file, any  *)
(* times and any limit of refused seeks.                                    *)
EXTENDS MediaSourceProperties, TLAPS

Files == [setting : Settings, length : Nat \ {0}, opened : Nat, ended : Nat, refused : Nat]
Sources == [open : BOOLEAN, interrupted : BOOLEAN, failures : Nat, lost : BOOLEAN]
Streams == [start : Nat, duration : Nat \cup {None}, seekable : BOOLEAN]
Positions ==
  [positioned : BOOLEAN, atStart : BOOLEAN, received : Nat \cup {None}, ended : BOOLEAN,
   held : Nat \cup {None}, pending : Nat \cup {None}]
Requests ==
  [pc : {"idle", "recover", "reopen", "position", "seek", "read"}, time : Nat, cancelled : BOOLEAN,
   faulted : BOOLEAN, retried : BOOLEAN, toStart : BOOLEAN, after : {"recover", "position", "read"}]
Statuses ==
  {"none", "ok", "timeOutOfRange", "endOfStream", "clampedToFirst", "refused", "notSeekable", "stale",
   "cancelled", "unusable", "outOfMemory"}
Replies == [status : Statuses, time : Nat, frame : Nat \cup {None}, faulted : BOOLEAN]

Shapes ==
  /\ file \in Files /\ source \in Sources /\ io \in [error : BOOLEAN, eof : BOOLEAN]
  /\ at \in Nat /\ info \in Streams /\ position \in Positions
  /\ request \in Requests /\ reply \in Replies

\* Nothing points past the end of the file.
Bounds ==
  /\ file.opened <= file.length /\ file.ended <= file.length /\ file.length <= MaxLength
  /\ at <= file.length
  /\ info.duration # None => info.duration <= file.length

\* The count of failed seeks is true, and what it decides is up to date.
Counted ==
  /\ source.failures = file.refused /\ file.refused <= MaxSeekFailures
  /\ info.seekable <=> CanSeek(source.failures)
  /\ At("seek") => info.seekable

\* Only a re-open that failed leaves the source closed, and a request that runs
\* has opened it again.
Owned ==
  /\ ~source.open => source.lost
  /\ ~At("idle") /\ ~At("reopen") => source.open

\* Until then the origin is the file's, and the duration no shorter than declared.
Learned == ~source.lost => AssetKnown /\ (info.duration = None => ~Setting.declares)

\* The held frame came out of the decoder that is there now, and the pending one after it.
FramesHeld ==
  /\ position.pending # None => position.held # None /\ position.pending = position.held + 1 /\ ~position.ended
  /\ position.held # None =>
       /\ position.received # None
       /\ at = (IF position.pending = None THEN position.held ELSE position.pending) + 1
       /\ position.pending # None => position.received > 0
  /\ position.received # None => position.received < at

\* Without one the demuxer is at the start, or wherever a seek or an interrupt left it.
NoneHeld ==
  position.held = None =>
    /\ position.atStart => at = 0 /\ position.received = None
    /\ position.received # None => Resumed
    /\ At("read") /\ ~info.seekable => position.positioned

\* A frame bears its own time stamp, unless they were counted anew, and a read begins before its target.
Stamps ==
  /\ position.held # None /\ (Resumed => Setting.stamped) => HeldStamp = position.held
  /\ At("read") =>
       /\ ~position.ended /\ position.pending = None
       /\ position.held # None => position.received <= Wanted

Placed == FramesHeld /\ NoneHeld /\ Stamps

Working == request.pc \in {"position", "seek", "read"}
Starting == At("recover") \/ (At("reopen") /\ request.after = "recover")

\* An end of file nobody remembers as an interrupt's, which only a re-open that
\* was cancelled leaves, finds a request that has to position itself; and it is
\* gone before that request concludes anything from it.
Forgotten ==
  io.eof /\ ~io.error /\ ~source.interrupted =>
    /\ Setting.rewinds
    /\ request.pc \in {"idle", "recover", "reopen", "position"} => ~position.positioned
    /\ At("read") => info.seekable
    /\ position.held = None
    /\ Working => ~request.retried

\* What an interrupt leaves in the I/O never reaches a request nothing happened to,
\* and an end that was concluded is one the file had.
Unharmed ==
  /\ request.faulted => request.cancelled
  /\ Setting.rewinds \/ Setting.verified =>
       /\ Forgotten
       /\ Working /\ io.error => source.interrupted
       /\ Working /\ source.interrupted => request.faulted
       /\ At("reopen") /\ request.after # "recover" /\ source.interrupted => request.faulted
       /\ Starting => ~request.retried
       /\ position.ended /\ position.held # None /\ (Resumed => Setting.stamped) => file.ended <= position.held + 1

Inv == Shapes /\ Bounds /\ Counted /\ Owned /\ Learned /\ Placed /\ Unharmed /\ FaultsStayWithTheirRequest

-----------------------------------------------------------------------------
(* The frame that is wanted.                                               *)

\* The later of two numbers.
LEMMA LaterOfTwo ==
  ASSUME NEW a \in Int, NEW b \in Int
  PROVE  Max({a, b}) = IF a >= b THEN a ELSE b
BY DEF Max

\* It is a frame number, and the one asked for while the origin is the file's.
LEMMA WantedFacts ==
  ASSUME Shapes
  PROVE  /\ Setting \in Settings /\ Setting.origin \in Nat
         /\ Wanted \in Nat
         /\ info.start = Setting.origin => Wanted = request.time
<1>1. Setting \in Settings /\ Setting.origin \in Nat
  BY MediaAssumption DEF Shapes, Files, Setting
<1>2. request.time \in Nat /\ info.start \in Nat
  BY DEF Shapes, Requests, Streams
<1>3. Wanted = IF request.time + info.start - Setting.origin >= 0
               THEN request.time + info.start - Setting.origin ELSE 0
  BY <1>1, <1>2, LaterOfTwo DEF Wanted
<1> QED
  BY <1>1, <1>2, <1>3

-----------------------------------------------------------------------------
(* The values the handlers assign.                                         *)

LEMMA RequestFacts ==
  /\ Idle \in Requests /\ Idle.pc = "idle" /\ ~Idle.faulted /\ ~Idle.retried /\ ~Idle.cancelled
  /\ Nowhere \in Positions /\ ~Nowhere.positioned /\ ~Nowhere.atStart /\ ~Nowhere.ended
  /\ Nowhere.received = None /\ Nowhere.held = None /\ Nowhere.pending = None
  /\ \A start \in BOOLEAN :
       /\ Landed(start) \in Positions /\ Landed(start).positioned
       /\ Landed(start).atStart = start /\ ~Landed(start).ended
       /\ Landed(start).received = None /\ Landed(start).held = None /\ Landed(start).pending = None
  /\ CleanIo \in [error : BOOLEAN, eof : BOOLEAN] /\ ~CleanIo.error /\ ~CleanIo.eof
BY MediaAssumption DEF Idle, Requests, Nowhere, Landed, Positions, CleanIo

\* The next step of a request.
LEMMA GoFacts ==
  ASSUME Shapes, NEW pc \in {"idle", "recover", "reopen", "position", "seek", "read"}, Go(pc)
  PROVE  /\ request' \in Requests /\ request'.pc = pc
         /\ request'.time = request.time /\ request'.faulted = request.faulted
         /\ request'.retried = request.retried /\ request'.after = request.after
         /\ request'.cancelled = request.cancelled
BY DEF Go, Shapes, Requests

\* The step to a re-open, and what comes after it.
LEMMA DivertFacts ==
  ASSUME Shapes, NEW after \in {"position", "read"},
         request' = [request EXCEPT !.pc = "reopen", !.after = after]
  PROVE  /\ request' \in Requests /\ request'.pc = "reopen" /\ request'.after = after
         /\ request'.time = request.time /\ request'.faulted = request.faulted
         /\ request'.retried = request.retried /\ request'.cancelled = request.cancelled
BY DEF Shapes, Requests

\* A request that ends leaves none behind, and its reply says how it ended.
LEMMA EndFacts ==
  ASSUME NEW status \in Statuses, NEW frame \in Nat \cup {None}, End(status, frame), Shapes
  PROVE  /\ request' \in Requests /\ request'.pc = "idle" /\ ~request'.faulted
         /\ reply' \in Replies
         /\ reply'.status = status /\ reply'.frame = frame /\ reply'.time = request.time
         /\ reply'.faulted = (request.faulted \/ status \in {"cancelled", "unusable", "outOfMemory"})
BY RequestFacts DEF End, Shapes, Requests, Replies

\* So does one that fails.
LEMMA FailFacts ==
  ASSUME NEW status \in Statuses, Fail(status), Shapes
  PROVE  /\ request' \in Requests /\ request'.pc = "idle" /\ ~request'.faulted
         /\ reply' \in Replies /\ reply'.status = status /\ reply'.time = request.time
         /\ reply'.faulted = (request.faulted \/ status \in {"cancelled", "unusable", "outOfMemory"})
<1>1. End(status, None)
  BY DEF Fail
<1> QED
  BY <1>1, EndFacts

\* A cancelled request says so.
LEMMA InterruptedFacts ==
  ASSUME Interrupted, Shapes
  PROVE  /\ request' \in Requests /\ request'.pc = "idle" /\ ~request'.faulted
         /\ reply' \in Replies /\ reply'.faulted
<1>1. Fail("cancelled")
  BY DEF Interrupted
<1>2. /\ request' \in Requests /\ request'.pc = "idle" /\ ~request'.faulted /\ reply' \in Replies
      /\ reply'.faulted = (request.faulted \/ "cancelled" \in {"cancelled", "unusable", "outOfMemory"})
  BY <1>1, FailFacts DEF Statuses
<1> QED
  BY <1>2

\* It is one after a step, too.
LEMMA WantedNext ==
  ASSUME Shapes'
  PROVE  Wanted' \in Nat
<1>1. Setting'.origin \in Nat /\ request'.time \in Nat /\ info'.start \in Nat
  BY MediaAssumption DEF Shapes, Files, Requests, Streams, Setting
<1>2. Wanted' = IF request'.time + info'.start - Setting'.origin >= 0
                THEN request'.time + info'.start - Setting'.origin ELSE 0
  BY <1>1, LaterOfTwo DEF Wanted
<1> QED
  BY <1>1, <1>2

\* The frame that is wanted changes with the request or the origin only.
LEMMA WantedStays ==
  ASSUME file'.setting = file.setting, info'.start = info.start, request'.time = request.time
  PROVE  Wanted' = Wanted
BY DEF Wanted, Setting

\* What a probe may come up with.
Probes ==
  [start : Nat, duration : {d \in Nat : d <= file.length /\ Setting.declares} \cup {None}]

LEMMA ProbesFacts ==
  ASSUME Inv
  PROVE  Probed \in Probes /\ CutShort \subseteq Probes
BY WantedFacts DEF Inv, Shapes, Files, Probed, CutShort, Probes, Setting

\* Of which a re-open carries over what was known, if a stream was open.
LEMMA CarriedFacts ==
  ASSUME Inv, NEW p \in Probes
  PROVE  /\ Carried(p) \in [start : Nat, duration : Nat \cup {None}]
         /\ Carried(p).duration # None => Carried(p).duration <= file.length
         /\ source.open =>
              /\ Carried(p).start = info.start
              /\ info.duration # None =>
                   Carried(p).duration # None /\ info.duration <= Carried(p).duration
              /\ info.duration = None => Carried(p).duration = p.duration
<1>1. CASE ~source.open
  BY <1>1, MediaAssumption DEF Carried, Probes, Inv, Shapes, Files
<1>2. CASE source.open
  BY <1>2, MediaAssumption DEF Carried, Probes, Inv, Shapes, Files, Streams, Bounds
<1> QED
  BY <1>1, <1>2

\* Whatever the probe came up with, and whatever an interrupt left behind.
LEMMA ReopenedFacts ==
  ASSUME Inv, NEW p \in Probes, NEW sticky \in [error : BOOLEAN, eof : BOOLEAN], ReopenWith(p, sticky)
  PROVE  /\ source' \in Sources /\ source'.open
         /\ source'.failures = source.failures /\ source'.lost = source.lost
         /\ source'.interrupted = (source.interrupted \/ sticky # CleanIo)
         /\ io' = sticky /\ at' = 0 /\ position' = Landed(TRUE)
         /\ info' \in Streams /\ info'.seekable = CanSeek(source.failures)
         /\ UNCHANGED <<file, reply>>
         /\ Bounds' /\ Learned'
         /\ source.open =>
              /\ info'.start = info.start
              /\ info.duration # None => info'.duration # None /\ info.duration <= info'.duration
<1>1. /\ source' = [source EXCEPT !.open = TRUE, !.interrupted = @ \/ sticky # CleanIo]
      /\ io' = sticky /\ at' = 0 /\ position' = Landed(TRUE) /\ UNCHANGED <<file, reply>>
      /\ info' = Opened(Carried(p), source.failures)
  BY DEF ReopenWith
<1>2. /\ source' \in Sources /\ source'.open
      /\ source'.failures = source.failures /\ source'.lost = source.lost
      /\ source'.interrupted = (source.interrupted \/ sticky # CleanIo)
  BY <1>1 DEF Inv, Shapes, Sources
<1>3. CanSeek(source.failures) \in BOOLEAN
  BY WantedFacts, MediaAssumption DEF CanSeek, Inv
<1>4. /\ info' \in Streams /\ info'.seekable = CanSeek(source.failures)
      /\ info'.start = Carried(p).start /\ info'.duration = Carried(p).duration
  BY <1>1, <1>3, CarriedFacts DEF Opened, Streams
<1>5. Bounds'
  BY <1>1, <1>4, CarriedFacts DEF Bounds, Inv, Shapes, Files
<1>6. Learned'
  <2>1. SUFFICES ASSUME ~source.lost
        PROVE  /\ info'.start = Setting.origin
               /\ IF info'.duration = None THEN ~Setting.declares ELSE file.opened <= info'.duration
    BY <1>1, <1>2 DEF Learned, AssetKnown, Setting
  <2>2. source.open /\ info.start = Setting.origin
    BY <2>1 DEF Inv, Owned, Learned, AssetKnown
  <2>3. CASE info.duration = None
    BY <2>1, <2>2, <2>3, <1>4, CarriedFacts DEF Inv, Learned, Probes
  <2>4. CASE info.duration # None
    BY <2>1, <2>2, <2>4, <1>4, CarriedFacts DEF Inv, Learned, AssetKnown, Shapes, Files, Streams
  <2> QED
    BY <2>3, <2>4
<1> QED
  BY <1>1, <1>2, <1>4, <1>5, <1>6, CarriedFacts

\* A selection given up keeps its frames, and its position on a source that cannot seek.
LEMMA GivenUpFacts ==
  ASSUME Shapes
  PROVE  /\ GivenUp \in Positions
         /\ GivenUp.received = position.received /\ GivenUp.atStart = position.atStart
         /\ GivenUp.ended = position.ended
         /\ GivenUp.held = position.held /\ GivenUp.pending = position.pending
         /\ GivenUp.positioned = (position.positioned /\ ~info.seekable)
BY DEF GivenUp, Shapes, Positions

\* The next frame's time stamp is its number, unless the frames were counted anew.
LEMMA NextStampFacts ==
  ASSUME Inv, FrameRead
  PROVE  /\ NextStamp \in Nat /\ NextStamp <= at
         /\ (Resumed => Setting.stamped) => NextStamp = at
         /\ at \in Nat /\ at < file.length /\ request.pc = "read" /\ ~request.cancelled
         /\ ~io.error /\ ~io.eof
         /\ position.held # None \/ at \in KeyFrames
         /\ Wanted \in Nat
<1> USE DEF At
<1>1. /\ at \in Nat /\ at < file.length /\ request.pc = "read" /\ io = CleanIo /\ ~request.cancelled
      /\ position.held # None \/ at \in KeyFrames
  BY DEF FrameRead, PacketRead, CanRead, Inv, Shapes
<1>2. ~io.error /\ ~io.eof /\ Wanted \in Nat
  BY <1>1, RequestFacts, WantedFacts DEF Inv
<1>3. CASE Setting.stamped
  BY <1>1, <1>2, <1>3 DEF NextStamp
<1>4. CASE ~Setting.stamped /\ position.held = None
  <2>1. NextStamp = 0 /\ ~info.seekable
    BY <1>4 DEF NextStamp, Inv, Counted, CanSeek
  <2>2. ~Resumed => at = 0
    BY <1>1, <1>4, <2>1 DEF Inv, Placed, NoneHeld, Resumed
  <2> QED
    BY <1>1, <1>2, <1>4, <2>1, <2>2
<1>5. CASE ~Setting.stamped /\ position.held # None
  <2>1. /\ NextStamp = position.received + 1 /\ position.pending = None
        /\ position.received \in Nat /\ position.received < at /\ at = position.held + 1
        /\ position.held \in Nat
    BY <1>1, <1>5 DEF NextStamp, Inv, Placed, FramesHeld, Stamps, Shapes, Positions
  <2>2. ~Resumed => position.received = position.held
    BY <1>5, <2>1 DEF Inv, Placed, Stamps, HeldStamp
  <2> QED
    BY <1>1, <1>2, <1>5, <2>1, <2>2
<1> QED
  BY <1>3, <1>4, <1>5

\* The frame read becomes the held one.
LEMMA HoldFacts ==
  ASSUME Inv, FrameRead, HoldReceived
  PROVE  /\ position' \in Positions
         /\ position'.received = NextStamp /\ position'.held = at /\ position'.pending = None
         /\ position'.positioned = position.positioned /\ position'.atStart = position.atStart
         /\ ~position'.ended
         /\ at' = at + 1 /\ UNCHANGED <<file, source, io, info>>
         /\ Resumed' <=> Resumed
<1>1. NextStamp \in Nat /\ at \in Nat /\ position.pending = None /\ ~position.ended
  BY NextStampFacts DEF Inv, Placed, Stamps, At
<1>2. /\ position' = [position EXCEPT !.received = NextStamp, !.held = at]
      /\ at' = at + 1 /\ UNCHANGED <<file, source, io, info>>
  BY DEF HoldReceived
<1>3. /\ position' \in Positions
      /\ position'.received = NextStamp /\ position'.held = at /\ position'.pending = None
      /\ position'.positioned = position.positioned /\ position'.atStart = position.atStart
      /\ position'.ended = position.ended
  BY <1>1, <1>2 DEF Inv, Shapes, Positions
<1> QED
  BY <1>1, <1>2, <1>3 DEF Resumed

\* An end of file a request concludes from, unless cancelled, is the file's own.
LEMMA EndFound ==
  ASSUME Inv, EndRead, Setting.rewinds \/ Setting.verified,
         position.held # None \/ ~info.seekable \/ request.retried
  PROVE  at >= file.length /\ ~io.eof
<1> USE DEF Inv, At
<1>1. request.pc = "read" /\ ~request.cancelled /\ ~io.error /\ (io.eof \/ at >= file.length)
  BY DEF EndRead, CanRead
<1>2. ~source.interrupted
  BY <1>1 DEF Unharmed, Working
<1>3. ~io.eof
  BY <1>1, <1>2 DEF Unharmed, Forgotten, Working
<1> QED
  BY <1>1, <1>3

\* Going on takes a frame held, a position, or the start; a pending frame has become the held one.
LEMMA GoForwardFacts ==
  ASSUME Inv, GoForward, At("position")
  PROVE  /\ request' \in Requests /\ request'.pc = "read"
         /\ request'.time = request.time /\ request'.faulted = request.faulted
         /\ request'.retried = request.retried /\ request'.cancelled = request.cancelled
         /\ position' \in Positions
         /\ position'.positioned = position.positioned /\ position'.atStart = position.atStart
         /\ position'.received = position.received /\ ~position'.ended /\ position'.pending = None
         /\ position.held = None =>
              position.positioned /\ position.pending = None /\ position'.held = None
         /\ position.held # None =>
              /\ position.received \in Nat /\ position'.held \in Nat
              /\ at = position'.held + 1 /\ position.received <= Wanted
              /\ (Resumed => Setting.stamped) => position.received = position'.held
<1> USE DEF Inv, At
<1>1. /\ CanGoForward /\ Go("read")
      /\ position' = IF CanPromotePending THEN [position EXCEPT !.held = @ + 1, !.pending = None] ELSE position
  BY DEF GoForward
<1>2. /\ request' \in Requests /\ request'.pc = "read"
      /\ request'.time = request.time /\ request'.faulted = request.faulted
      /\ request'.retried = request.retried /\ request'.cancelled = request.cancelled
  BY <1>1, GoFacts
<1>3. Wanted \in Nat /\ None \notin Nat
  BY WantedFacts, MediaAssumption
<1>4. CASE CanPromotePending
  <2>1. /\ position.pending # None /\ position.held # None /\ position.pending = position.held + 1
        /\ position.held \in Nat /\ position.received \in Nat /\ ~position.ended
        /\ at = position.pending + 1 /\ position.received <= Wanted
    BY <1>3, <1>4 DEF CanPromotePending, Placed, FramesHeld, Shapes, Positions
  <2>2. position' = [position EXCEPT !.held = @ + 1, !.pending = None]
    BY <1>1, <1>4
  <2>3. /\ position' \in Positions /\ position'.held = position.pending
        /\ position'.positioned = position.positioned /\ position'.atStart = position.atStart
        /\ position'.received = position.received /\ ~position'.ended /\ position'.pending = None
    BY <2>1, <2>2 DEF Shapes, Positions
  <2>4. (Resumed => Setting.stamped) => position.received = position.pending
    BY <2>1 DEF Placed, Stamps, HeldStamp
  <2> QED
    BY <1>2, <2>1, <2>3, <2>4
<1>5. CASE ~CanPromotePending
  <2>1. position' = position /\ position \in Positions
    BY <1>1, <1>5 DEF Shapes
  <2>2. position.pending = None /\ ~position.ended
    BY <1>1, <1>5 DEF CanGoForward, CanPromotePending, CanContinueFromHeld, CanDecodeForward, AtUnreadStart,
       Placed, FramesHeld
  <2>3. position.held = None => position.positioned
    BY <1>1, <1>5 DEF CanGoForward, CanPromotePending, CanContinueFromHeld, IsHeldFrameCovering,
       CanDecodeForward, AtUnreadStart
  <2>4. ASSUME position.held # None
        PROVE  /\ position.received \in Nat /\ position.held \in Nat
               /\ at = position.held + 1 /\ position.received <= Wanted
               /\ (Resumed => Setting.stamped) => position.received = position.held
    <3>1. /\ position.received \in Nat /\ position.held \in Nat /\ at = position.held + 1
      BY <2>2, <2>4 DEF Placed, FramesHeld, Shapes, Positions
    <3>2. position.received <= Wanted
      BY <1>1, <1>3, <1>5, <2>2, <3>1 DEF CanGoForward, CanContinueFromHeld, IsHeldFrameCovering, HeldStamp,
         CanDecodeForward, AtUnreadStart
    <3>3. (Resumed => Setting.stamped) => position.received = position.held
      BY <2>2, <2>4 DEF Placed, Stamps, HeldStamp
    <3> QED
      BY <3>1, <3>2, <3>3
  <2> QED
    BY <1>2, <2>1, <2>2, <2>3, <2>4
<1> QED
  BY <1>4, <1>5

-----------------------------------------------------------------------------
(* Each step keeps the invariant.                                          *)

\* What recoverAfterInterrupt() leaves alone was clean, or is an end of file to position away from.
LEMMA RecoverCleanKeeps ==
  ASSUME Inv, RecoverClean
  PROVE  Inv'
<1> USE DEF Inv, Setting, At
<1>1. /\ request' \in Requests /\ request.pc = "recover" /\ request'.pc = "position"
      /\ request'.time = request.time /\ request'.faulted = request.faulted
      /\ request'.retried = request.retried /\ request'.cancelled = request.cancelled
      /\ source' \in Sources /\ source'.open = source.open
      /\ source'.lost = source.lost /\ source'.failures = source.failures
      /\ source'.interrupted = FALSE /\ ~io.error /\ (io.eof => ~source.interrupted)
      /\ UNCHANGED <<file, io, at, info, position, reply>>
  BY GoFacts DEF RecoverClean, Dirty, Shapes, Sources
<1>2. Shapes'
  BY <1>1, RequestFacts DEF Shapes
<1>3. Wanted' = Wanted /\ Wanted \in Nat
  BY <1>1, WantedFacts, WantedStays
<1>4. Bounds' /\ Owned'
  BY <1>1, <1>2, MediaAssumption, RequestFacts
     DEF Bounds, Owned, Shapes, Files, Sources, Streams, Positions, Requests
<1>5. Counted'
  BY <1>1, <1>2, MediaAssumption
     DEF Counted, CanSeek, Shapes, Files, Sources, Streams, Positions, Requests
<1>6. Learned'
  BY <1>1, <1>2 DEF Learned, AssetKnown, Shapes, Files, Sources, Streams, Positions, Requests
<1>7. FramesHeld'
  BY <1>1, <1>2, MediaAssumption, RequestFacts
     DEF Placed, FramesHeld, Stamps, Shapes, Files, Sources, Streams, Positions, Requests
<1>8. NoneHeld'
  BY <1>1, <1>2, MediaAssumption, RequestFacts
     DEF Placed, NoneHeld, Resumed, Shapes, Files, Sources, Streams, Positions, Requests
<1>9. Stamps'
  BY <1>1, <1>2, <1>3, MediaAssumption, RequestFacts
     DEF Placed, Stamps, HeldStamp, Resumed, Shapes, Files, Sources, Streams, Positions, Requests
<1>10. Unharmed'
  BY <1>1, <1>2, RequestFacts
     DEF Unharmed, Forgotten, Working, Starting, Resumed, Placed, Stamps, Shapes, Files, Sources,
     Streams, Positions, Requests
<1>11. FaultsStayWithTheirRequest'
  BY <1>1 DEF FaultsStayWithTheirRequest, Finished
<1> QED
  BY <1>2, <1>4, <1>5, <1>6, <1>7, <1>8, <1>9, <1>10, <1>11 DEF Placed

\* What it finds dirty it clears, or sends to a re-open, and no frame stays held.
LEMMA RecoverKeeps ==
  ASSUME Inv, Recover
  PROVE  Inv'
<1> USE DEF Inv, Setting, At
<1>1. /\ request' \in Requests /\ request.pc = "recover"
      /\ request'.time = request.time /\ request'.faulted = request.faulted
      /\ request'.retried = request.retried /\ request'.cancelled = request.cancelled
      /\ source' \in Sources /\ source'.open = source.open
      /\ source'.lost = source.lost /\ source'.failures = source.failures
      /\ source'.interrupted = FALSE
      /\ io' = IF Setting.verified THEN CleanIo ELSE io
      /\ position' \in Positions /\ position'.held = None /\ position'.pending = None
      /\ ~position'.atStart /\ ~position'.ended
      /\ position'.received # None =>
           position'.received = position.received /\ position'.positioned /\ ~info.seekable
      /\ IF ~Setting.verified /\ Setting.rewinds
         THEN request'.pc = "reopen" /\ request'.after = "position" /\ ~position'.positioned
         ELSE request'.pc = "position"
      /\ at' \in Nat /\ at <= at' /\ at' <= file.length
      /\ UNCHANGED <<file, info, reply>>
  <2>1. /\ source' \in Sources /\ source'.interrupted = FALSE /\ source'.open = source.open
        /\ source'.failures = source.failures /\ source'.lost = source.lost
    BY DEF Recover, Shapes, Sources
  <2>2. /\ CarriedForward \in Positions /\ CarriedForward.received = position.received
        /\ CarriedForward.positioned /\ ~CarriedForward.atStart /\ ~CarriedForward.ended
        /\ CarriedForward.held = None /\ CarriedForward.pending = None
    BY RequestFacts DEF CarriedForward, Shapes, Positions
  <2>3. at \in Nat /\ file.length \in Nat /\ at <= file.length
    BY DEF Shapes, Files, Bounds
  <2>4. CASE ~Setting.verified /\ Setting.rewinds
    BY <2>1, <2>3, <2>4, RequestFacts, DivertFacts DEF Recover
  <2>5. CASE ~(~Setting.verified /\ Setting.rewinds)
    <3>1. Go("position")
      BY <2>5 DEF Recover
    <3>2. CASE info.seekable
      BY <2>1, <2>3, <2>5, <3>1, <3>2, RequestFacts, GoFacts DEF Recover
    <3>3. CASE ~info.seekable
      <4>1. position' = CarriedForward /\ at' \in at..file.length
        BY <2>5, <3>3 DEF Recover
      <4> QED
        BY <2>1, <2>2, <2>3, <2>5, <3>1, <3>3, <4>1, GoFacts DEF Recover
    <3> QED
      BY <3>2, <3>3
  <2> QED
    BY <2>4, <2>5
<1>2. Shapes'
  BY <1>1, RequestFacts DEF Shapes
<1>3. Wanted' = Wanted /\ Wanted \in Nat
  BY <1>1, WantedFacts, WantedStays
<1>4. Bounds' /\ Owned'
  BY <1>1, <1>2, MediaAssumption, RequestFacts
     DEF Bounds, Owned, Shapes, Files, Sources, Streams, Positions, Requests
<1>5. Counted'
  BY <1>1, <1>2, MediaAssumption
     DEF Counted, CanSeek, Shapes, Files, Sources, Streams, Positions, Requests
<1>6. Learned'
  BY <1>1, <1>2 DEF Learned, AssetKnown, Shapes, Files, Sources, Streams, Positions, Requests
<1>7. FramesHeld'
  BY <1>1, <1>2, MediaAssumption, RequestFacts
     DEF Placed, FramesHeld, Stamps, Shapes, Files, Sources, Streams, Positions, Requests
<1>8. NoneHeld'
  BY <1>1, <1>2, MediaAssumption, RequestFacts
     DEF Placed, NoneHeld, Resumed, Shapes, Files, Sources, Streams, Positions, Requests
<1>9. Stamps'
  BY <1>1, <1>2, <1>3, MediaAssumption, RequestFacts
     DEF Placed, Stamps, HeldStamp, Resumed, Shapes, Files, Sources, Streams, Positions, Requests
<1>10. Unharmed'
  BY <1>1, <1>2, RequestFacts
     DEF Unharmed, Forgotten, Working, Starting, Resumed, Placed, Stamps, Shapes, Files, Sources,
     Streams, Positions, Requests
<1>11. FaultsStayWithTheirRequest'
  BY <1>1 DEF FaultsStayWithTheirRequest, Finished
<1> QED
  BY <1>2, <1>4, <1>5, <1>6, <1>7, <1>8, <1>9, <1>10, <1>11 DEF Placed

\* Cancelled before the re-open, with the position already forgotten.
LEMMA ReopenCancelledKeeps ==
  ASSUME Inv, ReopenCancelled
  PROVE  Inv'
<1> USE DEF Inv, Setting, At
<1>1. /\ request' \in Requests /\ request'.pc = "idle" /\ ~request'.faulted /\ reply' \in Replies
      /\ request.pc = "reopen" /\ reply'.faulted
      /\ UNCHANGED <<file, source, io, at, info, position>>
  BY InterruptedFacts DEF ReopenCancelled
<1>2. Shapes'
  BY <1>1, RequestFacts DEF Shapes
<1>4. Bounds' /\ Owned'
  BY <1>1, <1>2, MediaAssumption, RequestFacts
     DEF Bounds, Owned, Shapes, Files, Sources, Streams, Positions, Requests
<1>5. Counted'
  BY <1>1, <1>2, MediaAssumption
     DEF Counted, CanSeek, Shapes, Files, Sources, Streams, Positions, Requests
<1>6. Learned'
  BY <1>1, <1>2 DEF Learned, AssetKnown, Shapes, Files, Sources, Streams, Positions, Requests
<1>7. FramesHeld'
  BY <1>1, <1>2, MediaAssumption, RequestFacts
     DEF Placed, FramesHeld, Stamps, Shapes, Files, Sources, Streams, Positions, Requests
<1>8. NoneHeld'
  BY <1>1, <1>2, MediaAssumption, RequestFacts
     DEF Placed, NoneHeld, Resumed, Shapes, Files, Sources, Streams, Positions, Requests
<1>9. Stamps'
  BY <1>1, <1>2, MediaAssumption, RequestFacts
     DEF Placed, Stamps, HeldStamp, Resumed, Shapes, Files, Sources, Streams, Positions, Requests
<1>10. Unharmed'
  BY <1>1, <1>2, RequestFacts
     DEF Unharmed, Forgotten, Working, Starting, Resumed, Placed, Stamps, Shapes, Files, Sources,
     Streams, Positions, Requests
<1>11. FaultsStayWithTheirRequest'
  BY <1>1 DEF FaultsStayWithTheirRequest, Finished
<1> QED
  BY <1>2, <1>4, <1>5, <1>6, <1>7, <1>8, <1>9, <1>10, <1>11 DEF Placed

\* A re-open starts from a clean I/O at the first frame.
LEMMA ReopenKeeps ==
  ASSUME Inv, Reopen
  PROVE  Inv'
<1> USE DEF Inv, Setting, At
<1>1. /\ request' \in Requests /\ request.pc = "reopen" /\ request'.pc = request.after
      /\ request'.after = request.after /\ request'.time = request.time /\ request'.retried = request.retried
      /\ request'.faulted = request.faulted /\ request'.cancelled = request.cancelled
      /\ source' \in Sources /\ source'.open
      /\ source'.failures = source.failures /\ source'.lost = source.lost
      /\ at' = 0 /\ position' \in Positions /\ position'.positioned /\ position'.atStart /\ ~position'.ended
      /\ position'.received = None /\ position'.held = None /\ position'.pending = None
      /\ info' \in Streams /\ info'.seekable = CanSeek(source.failures)
      /\ UNCHANGED <<file, reply>>
      /\ Bounds' /\ Learned'
      /\ io' = CleanIo /\ source'.interrupted = source.interrupted
  <2>1. /\ ReopenWith(Probed, CleanIo) /\ Go(request.after) /\ request.pc = "reopen"
        /\ request.after \in {"recover", "position", "read"}
    BY DEF Reopen, Shapes, Requests
  <2>2. Probed \in Probes /\ CleanIo \in [error : BOOLEAN, eof : BOOLEAN]
    BY ProbesFacts, RequestFacts
  <2> QED
    BY <2>1, <2>2, GoFacts, ReopenedFacts, RequestFacts DEF Shapes, Sources
<1>2. Shapes'
  BY <1>1, RequestFacts DEF Shapes
<1>4. Bounds' /\ Owned'
  BY <1>1, <1>2 DEF Owned
<1>5. Counted'
  BY <1>1, <1>2, MediaAssumption
     DEF Counted, CanSeek, Shapes, Files, Sources, Streams, Positions, Requests
<1>7. FramesHeld'
  BY <1>1, <1>2, MediaAssumption, RequestFacts
     DEF Placed, FramesHeld, Stamps, Shapes, Files, Sources, Streams, Positions, Requests
<1>8. NoneHeld'
  BY <1>1, <1>2, MediaAssumption, RequestFacts
     DEF Placed, NoneHeld, Resumed, Shapes, Files, Sources, Streams, Positions, Requests
<1>9. Stamps'
  BY <1>1, <1>2, MediaAssumption, RequestFacts
     DEF Placed, Stamps, HeldStamp, Resumed, Shapes, Files, Sources, Streams, Positions, Requests
<1>10. Unharmed'
  BY <1>1, <1>2, RequestFacts
     DEF Unharmed, Forgotten, Working, Starting, Resumed, Placed, Stamps, Shapes, Files, Sources,
     Streams, Positions, Requests
<1>11. FaultsStayWithTheirRequest'
  BY <1>1 DEF FaultsStayWithTheirRequest, Finished, Shapes, Requests
<1> QED
  BY <1>1, <1>2, <1>4, <1>5, <1>7, <1>8, <1>9, <1>10, <1>11 DEF Placed

\* One whose probe is cut short leaves its mark on the request as well.
LEMMA ReopenCutShortKeeps ==
  ASSUME Inv, ReopenCutShort
  PROVE  Inv'
<1> USE DEF Inv, Setting, At
<1>1. /\ request' \in Requests /\ request.pc = "reopen" /\ request'.pc = request.after
      /\ request'.after = request.after /\ request'.time = request.time /\ request'.retried = request.retried
      /\ request'.faulted /\ request'.cancelled
      /\ source' \in Sources /\ source'.open
      /\ source'.failures = source.failures /\ source'.lost = source.lost
      /\ at' = 0 /\ position' \in Positions /\ position'.positioned /\ position'.atStart /\ ~position'.ended
      /\ position'.received = None /\ position'.held = None /\ position'.pending = None
      /\ info' \in Streams /\ info'.seekable = CanSeek(source.failures)
      /\ UNCHANGED <<file, reply>>
      /\ Bounds' /\ Learned'
      /\ io' \in [error : BOOLEAN, eof : BOOLEAN] /\ source'.interrupted
  <2>1. PICK p \in CutShort, error \in BOOLEAN : ReopenWith(p, [error |-> error, eof |-> TRUE])
    BY DEF ReopenCutShort
  <2>2. /\ p \in Probes
        /\ [error |-> error, eof |-> TRUE] \in [error : BOOLEAN, eof : BOOLEAN]
        /\ [error |-> error, eof |-> TRUE] # CleanIo
    BY ProbesFacts DEF CleanIo
  <2>3. /\ request' \in Requests /\ request.pc = "reopen" /\ request'.pc = request.after
        /\ request'.time = request.time /\ request'.faulted /\ request'.cancelled
        /\ request'.retried = request.retried /\ request'.after = request.after
    BY DEF ReopenCutShort, Shapes, Requests
  <2> QED
    BY <2>1, <2>2, <2>3, ReopenedFacts, RequestFacts
<1>2. Shapes'
  BY <1>1, RequestFacts DEF Shapes
<1>4. Bounds' /\ Owned'
  BY <1>1, <1>2 DEF Owned
<1>5. Counted'
  BY <1>1, <1>2, MediaAssumption
     DEF Counted, CanSeek, Shapes, Files, Sources, Streams, Positions, Requests
<1>7. FramesHeld'
  BY <1>1, <1>2, MediaAssumption, RequestFacts
     DEF Placed, FramesHeld, Stamps, Shapes, Files, Sources, Streams, Positions, Requests
<1>8. NoneHeld'
  BY <1>1, <1>2, MediaAssumption, RequestFacts
     DEF Placed, NoneHeld, Resumed, Shapes, Files, Sources, Streams, Positions, Requests
<1>9. Stamps'
  BY <1>1, <1>2, MediaAssumption, RequestFacts
     DEF Placed, Stamps, HeldStamp, Resumed, Shapes, Files, Sources, Streams, Positions, Requests
<1>10. Unharmed'
  BY <1>1, <1>2, RequestFacts
     DEF Unharmed, Forgotten, Working, Starting, Resumed, Placed, Stamps, Shapes, Files, Sources,
     Streams, Positions, Requests
<1>11. FaultsStayWithTheirRequest'
  BY <1>1 DEF FaultsStayWithTheirRequest, Finished, Shapes, Requests
<1> QED
  BY <1>1, <1>2, <1>4, <1>5, <1>7, <1>8, <1>9, <1>10, <1>11 DEF Placed

\* One that fails leaves the source closed.
LEMMA ReopenFailsKeeps ==
  ASSUME Inv, ReopenFails
  PROVE  Inv'
<1> USE DEF Inv, Setting, At
<1>1. /\ request' \in Requests /\ request'.pc = "idle" /\ ~request'.faulted /\ reply' \in Replies
      /\ request.pc = "reopen" /\ reply'.faulted
      /\ source' \in Sources /\ source'.lost /\ source'.failures = source.failures
      /\ io' = CleanIo /\ at' = 0 /\ position' = Nowhere
      /\ UNCHANGED <<file, info>>
  <2>1. CASE Fail("unusable") /\ source' = [source EXCEPT !.open = FALSE, !.lost = TRUE]
    BY <2>1, FailFacts DEF ReopenFails, Statuses, Shapes, Sources
  <2>2. CASE Fail("cancelled") /\ source' = [source EXCEPT !.open = FALSE, !.lost = TRUE, !.interrupted = TRUE]
    BY <2>2, FailFacts DEF ReopenFails, Statuses, Shapes, Sources
  <2> QED
    BY <2>1, <2>2 DEF ReopenFails
<1>2. Shapes'
  BY <1>1, RequestFacts DEF Shapes
<1>4. Bounds' /\ Owned'
  BY <1>1, <1>2, MediaAssumption, RequestFacts
     DEF Bounds, Owned, Shapes, Files, Sources, Streams, Positions, Requests
<1>5. Counted'
  BY <1>1, <1>2, MediaAssumption
     DEF Counted, CanSeek, Shapes, Files, Sources, Streams, Positions, Requests
<1>6. Learned'
  BY <1>1, <1>2 DEF Learned, AssetKnown, Shapes, Files, Sources, Streams, Positions, Requests
<1>7. FramesHeld'
  BY <1>1, <1>2, MediaAssumption, RequestFacts
     DEF Placed, FramesHeld, Stamps, Shapes, Files, Sources, Streams, Positions, Requests
<1>8. NoneHeld'
  BY <1>1, <1>2, MediaAssumption, RequestFacts
     DEF Placed, NoneHeld, Resumed, Shapes, Files, Sources, Streams, Positions, Requests
<1>9. Stamps'
  BY <1>1, <1>2, MediaAssumption, RequestFacts
     DEF Placed, Stamps, HeldStamp, Resumed, Shapes, Files, Sources, Streams, Positions, Requests
<1>10. Unharmed'
  BY <1>1, <1>2, RequestFacts
     DEF Unharmed, Forgotten, Working, Starting, Resumed, Placed, Stamps, Shapes, Files, Sources,
     Streams, Positions, Requests
<1>11. FaultsStayWithTheirRequest'
  BY <1>1 DEF FaultsStayWithTheirRequest, Finished
<1> QED
  BY <1>2, <1>4, <1>5, <1>6, <1>7, <1>8, <1>9, <1>10, <1>11 DEF Placed

\* A time is refused only past the declared end, which is not before the first one known.
LEMMA AcceptKeeps ==
  ASSUME Inv, Accept
  PROVE  Inv'
<1> USE DEF Inv, Setting, At
<1>1. /\ request.pc = "idle"
      /\ UNCHANGED <<file, source, io, at, info, position>>
      /\ reply' \in Replies /\ request' \in Requests
      /\ \/ /\ UNCHANGED request /\ reply'.status = "refused"
            /\ info.duration # None /\ reply'.time > info.duration + 1
         \/ /\ request'.pc = (IF source.open THEN "recover" ELSE "reopen")
            /\ request'.after = "recover" /\ ~request'.faulted /\ ~request'.retried
  <2>1. PICK t \in RequestTimes :
          IF BeyondDuration(t)
          THEN /\ reply' = [reply EXCEPT !.status = "refused", !.time = t, !.faulted = FALSE]
               /\ UNCHANGED request
          ELSE /\ request' = [Idle EXCEPT !.pc = FirstStep, !.time = t]
               /\ reply' = [reply EXCEPT !.status = "none"]
    BY DEF Accept
  <2>2. t \in Nat
    BY MediaAssumption
  <2>3. CASE BeyondDuration(t)
    BY <2>1, <2>2, <2>3 DEF Accept, BeyondDuration, Shapes, Replies, Statuses
  <2>4. CASE ~BeyondDuration(t)
    <3>1. reply' = [reply EXCEPT !.status = "none"] /\ request' = [Idle EXCEPT !.pc = FirstStep, !.time = t]
      BY <2>1, <2>4
    <3>2. reply' \in Replies
      BY <3>1 DEF Shapes, Replies, Statuses
    <3>3. /\ request' \in Requests /\ request'.pc = FirstStep
          /\ request'.after = "recover" /\ ~request'.faulted /\ ~request'.retried
      BY <2>2, <3>1 DEF FirstStep, Idle, Requests
    <3> QED
      BY <3>2, <3>3 DEF Accept, FirstStep
  <2> QED
    BY <2>3, <2>4
<1>2. Shapes'
  BY <1>1, RequestFacts DEF Shapes
<1>4. Bounds' /\ Owned'
  BY <1>1, <1>2, MediaAssumption, RequestFacts
     DEF Bounds, Owned, Shapes, Files, Sources, Streams, Positions, Requests
<1>5. Counted'
  BY <1>1, <1>2, MediaAssumption
     DEF Counted, CanSeek, Shapes, Files, Sources, Streams, Positions, Requests
<1>6. Learned'
  BY <1>1, <1>2 DEF Learned, AssetKnown, Shapes, Files, Sources, Streams, Positions, Requests
<1>7. FramesHeld'
  BY <1>1, <1>2, MediaAssumption, RequestFacts
     DEF Placed, FramesHeld, Stamps, Shapes, Files, Sources, Streams, Positions, Requests
<1>8. NoneHeld'
  BY <1>1, <1>2, MediaAssumption, RequestFacts
     DEF Placed, NoneHeld, Resumed, Shapes, Files, Sources, Streams, Positions, Requests
<1>9. Stamps'
  BY <1>1, <1>2, MediaAssumption, RequestFacts
     DEF Placed, Stamps, HeldStamp, Resumed, Shapes, Files, Sources, Streams, Positions, Requests
<1>10. Unharmed'
  BY <1>1, <1>2, RequestFacts
     DEF Unharmed, Forgotten, Working, Starting, Resumed, Placed, Stamps, Shapes, Files, Sources,
     Streams, Positions, Requests
<1>11. FaultsStayWithTheirRequest'
  <2>1. CASE request'.pc # "idle"
    BY <2>1 DEF FaultsStayWithTheirRequest, Finished
  <2>2. CASE request'.pc = "idle"
    <3>1. /\ UNCHANGED request /\ reply'.status = "refused"
          /\ info.duration # None /\ reply'.time > info.duration + 1
      BY <1>1, <2>2
    <3>2. AssetKnown' => file.opened <= info.duration
      BY <1>1, <3>1 DEF AssetKnown
    <3> QED
      BY <1>1, <1>2, <3>1, <3>2
         DEF FaultsStayWithTheirRequest, Finished, Shapes, Files, Streams, Replies
  <2> QED
    BY <2>1, <2>2
<1> QED
  BY <1>2, <1>4, <1>5, <1>6, <1>7, <1>8, <1>9, <1>10, <1>11 DEF Placed

\* The frame held answers for its own time only, or an end the file had.
LEMMA AnswerFromHeldKeeps ==
  ASSUME Inv, AnswerFromHeld
  PROVE  Inv'
<1> USE DEF Inv, Setting, At
<1>1. /\ request' \in Requests /\ request'.pc = "idle" /\ ~request'.faulted /\ reply' \in Replies
      /\ request.pc = "position" /\ AnswersFromHeld
      /\ position.held # None /\ reply'.time = request.time
      /\ \/ reply'.status = "ok" /\ reply'.frame = position.held /\ Wanted = HeldStamp
         \/ /\ reply'.status = "timeOutOfRange" /\ Wanted > HeldStamp
            /\ position.pending = None /\ position.ended
      /\ UNCHANGED <<file, source, io, at, info, position>>
  <2>1. /\ position.held \in Nat /\ position.held # None /\ position.received \in Nat /\ Wanted \in Nat
        /\ Wanted >= HeldStamp /\ HeldStamp \in Int
        /\ IF position.pending # None THEN Wanted < position.received ELSE position.ended
        /\ request.pc = "position" /\ AnswersFromHeld
        /\ UNCHANGED <<file, source, io, at, info, position>>
    BY WantedFacts DEF AnswerFromHeld, AnswersFromHeld, IsHeldFrameCovering, HeldStamp, Placed, FramesHeld,
       Shapes, Positions
  <2>2. CASE End("ok", position.held) /\ Wanted = HeldStamp
    BY <2>1, <2>2, EndFacts DEF Statuses
  <2>3. CASE position.pending = None /\ Fail("timeOutOfRange") /\ Wanted # HeldStamp
    BY <2>1, <2>3, FailFacts DEF Statuses
  <2>4. position.pending # None => End("ok", position.held) /\ Wanted = HeldStamp
    BY <2>1 DEF AnswerFromHeld, HeldStamp
  <2> QED
    BY <2>2, <2>3, <2>4 DEF AnswerFromHeld, AnswerAtEnd
<1>2. Shapes'
  BY <1>1, RequestFacts DEF Shapes
<1>4. Bounds' /\ Owned'
  BY <1>1, <1>2, MediaAssumption, RequestFacts
     DEF Bounds, Owned, Shapes, Files, Sources, Streams, Positions, Requests
<1>5. Counted'
  BY <1>1, <1>2, MediaAssumption
     DEF Counted, CanSeek, Shapes, Files, Sources, Streams, Positions, Requests
<1>6. Learned'
  BY <1>1, <1>2 DEF Learned, AssetKnown, Shapes, Files, Sources, Streams, Positions, Requests
<1>7. FramesHeld'
  BY <1>1, <1>2, MediaAssumption, RequestFacts
     DEF Placed, FramesHeld, Stamps, Shapes, Files, Sources, Streams, Positions, Requests
<1>8. NoneHeld'
  BY <1>1, <1>2, MediaAssumption, RequestFacts
     DEF Placed, NoneHeld, Resumed, Shapes, Files, Sources, Streams, Positions, Requests
<1>9. Stamps'
  BY <1>1, <1>2, MediaAssumption, RequestFacts
     DEF Placed, Stamps, HeldStamp, Resumed, Shapes, Files, Sources, Streams, Positions, Requests
<1>10. Unharmed'
  BY <1>1, <1>2, RequestFacts
     DEF Unharmed, Forgotten, Working, Starting, Resumed, Placed, Stamps, Shapes, Files, Sources,
     Streams, Positions, Requests
<1>11. FaultsStayWithTheirRequest'
  <2>1. SUFFICES ASSUME AssetKnown, Setting.rewinds \/ Setting.verified, Resumed => Setting.stamped
        PROVE  \/ reply'.status = "ok" /\ reply'.frame = request.time
               \/ reply'.status = "timeOutOfRange" /\ request.time >= file.ended
    BY <1>1 DEF FaultsStayWithTheirRequest, Finished, Resumed, AssetKnown
  <2>2. Wanted = request.time /\ Wanted \in Nat
    BY <1>1, <2>1, WantedFacts DEF AssetKnown
  <2>3. HeldStamp = position.held /\ position.held \in Nat
    BY <1>1, <2>1 DEF Placed, Stamps, Shapes, Positions
  <2>4. position.ended => file.ended <= position.held + 1
    BY <1>1, <2>1 DEF Unharmed
  <2> QED
    BY <1>1, <2>2, <2>3, <2>4 DEF Shapes, Files
<1> QED
  BY <1>2, <1>4, <1>5, <1>6, <1>7, <1>8, <1>9, <1>10, <1>11 DEF Placed

\* A source that seeks goes on from what it holds, or seeks.
LEMMA PositionKeeps ==
  ASSUME Inv, Position
  PROVE  Inv'
<1> USE DEF Inv, Setting, At
<1>1. /\ request' \in Requests /\ request.pc = "position" /\ info.seekable
      /\ request'.time = request.time /\ request'.faulted = request.faulted
      /\ request'.retried = request.retried /\ request'.cancelled = request.cancelled
      /\ \/ /\ request'.pc = "read" /\ position' \in Positions
            /\ position'.positioned = position.positioned /\ position'.atStart = position.atStart
            /\ position'.received = position.received /\ ~position'.ended /\ position'.pending = None
            /\ position.held = None => position.positioned /\ position.pending = None /\ position'.held = None
            /\ position.held # None =>
                 /\ position.received \in Nat /\ position'.held \in Nat
                 /\ at = position'.held + 1 /\ position.received <= Wanted
                 /\ (Resumed => Setting.stamped) => position.received = position'.held
         \/ request'.pc = "seek" /\ UNCHANGED position
      /\ UNCHANGED <<file, source, io, at, info, reply>>
  <2>1. CASE GoForward
    BY <2>1, GoForwardFacts DEF Position
  <2>2. CASE /\ request' = [request EXCEPT !.pc = "seek", !.toStart = (request.time = 0)]
             /\ UNCHANGED position
    BY <2>2 DEF Position, Shapes, Requests
  <2> QED
    BY <2>1, <2>2 DEF Position
<1>2. Shapes'
  BY <1>1, RequestFacts DEF Shapes
<1>3. Wanted' = Wanted /\ Wanted \in Nat
  BY <1>1, WantedFacts, WantedStays
<1>4. Bounds' /\ Owned'
  BY <1>1, <1>2, MediaAssumption, RequestFacts
     DEF Bounds, Owned, Shapes, Files, Sources, Streams, Positions, Requests
<1>5. Counted'
  BY <1>1, <1>2, MediaAssumption
     DEF Counted, CanSeek, Shapes, Files, Sources, Streams, Positions, Requests
<1>6. Learned'
  BY <1>1, <1>2 DEF Learned, AssetKnown, Shapes, Files, Sources, Streams, Positions, Requests
<1>7. FramesHeld'
  BY <1>1, <1>2, MediaAssumption, RequestFacts
     DEF Placed, FramesHeld, Stamps, Shapes, Files, Sources, Streams, Positions, Requests
<1>8. NoneHeld'
  BY <1>1, <1>2, MediaAssumption, RequestFacts
     DEF Placed, NoneHeld, Resumed, Shapes, Files, Sources, Streams, Positions, Requests
<1>9. Stamps'
  BY <1>1, <1>2, <1>3, MediaAssumption, RequestFacts
     DEF Placed, Stamps, HeldStamp, Resumed, Shapes, Files, Sources, Streams, Positions, Requests
<1>10. Unharmed'
  BY <1>1, <1>2, RequestFacts
     DEF Unharmed, Forgotten, Working, Starting, Resumed, Placed, Stamps, Shapes, Files, Sources,
     Streams, Positions, Requests
<1>11. FaultsStayWithTheirRequest'
  BY <1>1 DEF FaultsStayWithTheirRequest, Finished
<1> QED
  BY <1>2, <1>4, <1>5, <1>6, <1>7, <1>8, <1>9, <1>10, <1>11 DEF Placed

\* One that does not goes on, starts over, or says so.
LEMMA PositionUnseekableKeeps ==
  ASSUME Inv, PositionUnseekable
  PROVE  Inv'
<1> USE DEF Inv, Setting, At
<1>1. /\ request' \in Requests /\ request.pc = "position" /\ ~info.seekable
      /\ UNCHANGED <<file, source, io, at, info>>
      /\ \/ /\ request'.time = request.time /\ request'.faulted = request.faulted
            /\ request'.retried = request.retried /\ request'.cancelled = request.cancelled
            /\ request'.pc = "read" /\ position' \in Positions /\ UNCHANGED reply
            /\ position'.positioned = position.positioned /\ position'.atStart = position.atStart
            /\ position'.received = position.received /\ ~position'.ended /\ position'.pending = None
            /\ position.held = None => position.positioned /\ position.pending = None /\ position'.held = None
            /\ position.held # None =>
                 /\ position.received \in Nat /\ position'.held \in Nat
                 /\ at = position'.held + 1 /\ position.received <= Wanted
                 /\ (Resumed => Setting.stamped) => position.received = position'.held
         \/ /\ request'.time = request.time /\ request'.faulted = request.faulted
            /\ request'.retried = request.retried /\ request'.cancelled = request.cancelled
            /\ request'.pc = "reopen" /\ request'.after = "read" /\ UNCHANGED <<position, reply>>
         \/ /\ request'.pc = "idle" /\ ~request'.faulted /\ ~Setting.rewinds /\ UNCHANGED position
            /\ reply' \in Replies /\ reply'.status = "notSeekable"
  <2>1. CASE GoForward /\ UNCHANGED reply
    BY <2>1, GoForwardFacts DEF PositionUnseekable
  <2>2. CASE request' = [request EXCEPT !.pc = "reopen", !.after = "read"] /\ UNCHANGED <<position, reply>>
    BY <2>2, DivertFacts DEF PositionUnseekable
  <2>3. CASE ~Setting.rewinds /\ Fail("notSeekable") /\ UNCHANGED position
    BY <2>3, FailFacts DEF PositionUnseekable, Statuses
  <2> QED
    BY <2>1, <2>2, <2>3 DEF PositionUnseekable
<1>2. Shapes'
  BY <1>1, RequestFacts DEF Shapes
<1>4. Bounds' /\ Owned'
  BY <1>1, <1>2, MediaAssumption, RequestFacts
     DEF Bounds, Owned, Shapes, Files, Sources, Streams, Positions, Requests
<1>5. Counted'
  BY <1>1, <1>2, MediaAssumption
     DEF Counted, CanSeek, Shapes, Files, Sources, Streams, Positions, Requests
<1>6. Learned'
  BY <1>1, <1>2 DEF Learned, AssetKnown, Shapes, Files, Sources, Streams, Positions, Requests
<1>7. FramesHeld'
  BY <1>1, <1>2, MediaAssumption, RequestFacts
     DEF Placed, FramesHeld, Stamps, Shapes, Files, Sources, Streams, Positions, Requests
<1>8. NoneHeld'
  BY <1>1, <1>2, MediaAssumption, RequestFacts
     DEF Placed, NoneHeld, Resumed, Shapes, Files, Sources, Streams, Positions, Requests
<1>9. Stamps'
  <2>1. CASE request'.pc = "read"
    <3>1. Wanted' = Wanted /\ Wanted \in Nat
      BY <1>1, <2>1, WantedFacts, WantedStays
    <3> QED
      BY <1>1, <1>2, <2>1, <3>1 DEF Placed, Stamps, HeldStamp, Resumed, Shapes, Files,
       Sources, Streams, Positions, Requests
  <2>2. CASE request'.pc # "read"
    BY <1>1, <1>2, <2>2 DEF Placed, Stamps, HeldStamp, Resumed, Shapes, Files,
       Sources, Streams, Positions, Requests
  <2> QED
    BY <2>1, <2>2
<1>10. Unharmed'
  BY <1>1, <1>2, RequestFacts
     DEF Unharmed, Forgotten, Working, Starting, Resumed, Placed, Stamps, Shapes, Files, Sources,
     Streams, Positions, Requests
<1>11. FaultsStayWithTheirRequest'
  BY <1>1 DEF FaultsStayWithTheirRequest, Finished
<1> QED
  BY <1>2, <1>4, <1>5, <1>6, <1>7, <1>8, <1>9, <1>10, <1>11 DEF Placed

\* A seek that succeeds forgets what was held, and ends the run of refusals.
LEMMA SeekKeeps ==
  ASSUME Inv, Seek
  PROVE  Inv'
<1> USE DEF Inv, Setting, At
<1>1. /\ request' \in Requests /\ request.pc = "seek" /\ request'.pc = "read" /\ request.toStart \in BOOLEAN
      /\ request'.time = request.time /\ request'.faulted = request.faulted
      /\ request'.retried = request.retried /\ request'.cancelled = request.cancelled
      /\ at' \in Nat /\ at' <= file.length /\ (request.toStart => at' = 0)
      /\ io' \in [error : BOOLEAN, eof : BOOLEAN] /\ (io'.error => io.error) /\ (io'.eof => io.eof)
      /\ io'.error = io.error \/ io'.eof = io.eof
      /\ source' \in Sources /\ source'.open = source.open
      /\ source'.interrupted = source.interrupted /\ source'.lost = source.lost
      /\ file' \in Files /\ file'.setting = file.setting
      /\ file'.length = file.length /\ file'.opened = file.opened /\ file'.ended = file.ended
      /\ IF request.toStart THEN source'.failures = source.failures /\ file'.refused = file.refused
         ELSE source'.failures = 0 /\ file'.refused = 0
      /\ position' \in Positions /\ position'.atStart = request.toStart /\ position'.positioned /\ ~position'.ended
      /\ position'.received = None /\ position'.held = None /\ position'.pending = None
      /\ UNCHANGED <<info, reply>>
  <2>1. /\ request' \in Requests /\ request.pc = "seek" /\ request'.pc = "read"
        /\ request.toStart \in BOOLEAN
        /\ request'.time = request.time /\ request'.faulted = request.faulted
        /\ request'.retried = request.retried /\ request'.cancelled = request.cancelled
    BY GoFacts DEF Seek, Shapes, Requests
  <2>2. at' \in Nat /\ at' <= file.length /\ (request.toStart => at' = 0)
    BY DEF Seek, Shapes, Files
  <2>3. /\ io' \in [error : BOOLEAN, eof : BOOLEAN] /\ (io'.error => io.error) /\ (io'.eof => io.eof)
        /\ io'.error = io.error \/ io'.eof = io.eof
    <3>1. io' \in {io, [io EXCEPT !.error = FALSE], [io EXCEPT !.eof = FALSE]}
      BY DEF Seek
    <3> QED
      BY <3>1 DEF Shapes
  <2>4. /\ source' \in Sources /\ source'.open = source.open
        /\ source'.interrupted = source.interrupted /\ source'.lost = source.lost
        /\ source'.failures = IF request.toStart THEN source.failures ELSE 0
    BY DEF Seek, Shapes, Sources
  <2>5. /\ file' \in Files /\ file'.setting = file.setting
        /\ file'.length = file.length /\ file'.opened = file.opened /\ file'.ended = file.ended
        /\ file'.refused = IF request.toStart THEN file.refused ELSE 0
    BY DEF Seek, Shapes, Files
  <2>6. /\ position' \in Positions /\ position'.atStart = request.toStart /\ position'.positioned
        /\ ~position'.ended
        /\ position'.received = None /\ position'.held = None /\ position'.pending = None
        /\ UNCHANGED <<info, reply>>
    BY <2>1, RequestFacts DEF Seek
  <2> QED
    BY <2>1, <2>2, <2>3, <2>4, <2>5, <2>6
<1>2. Shapes'
  BY <1>1, RequestFacts DEF Shapes
<1>3. Wanted' = Wanted /\ Wanted \in Nat
  BY <1>1, WantedFacts, WantedStays
<1>4. Bounds' /\ Owned'
  BY <1>1, <1>2, MediaAssumption, RequestFacts
     DEF Bounds, Owned, Shapes, Files, Sources, Streams, Positions, Requests
<1>5. Counted'
  BY <1>1, <1>2, MediaAssumption
     DEF Counted, CanSeek, Shapes, Files, Sources, Streams, Positions, Requests
<1>6. Learned'
  BY <1>1, <1>2 DEF Learned, AssetKnown, Shapes, Files, Sources, Streams, Positions, Requests
<1>7. FramesHeld'
  BY <1>1, <1>2, MediaAssumption, RequestFacts
     DEF Placed, FramesHeld, Stamps, Shapes, Files, Sources, Streams, Positions, Requests
<1>8. NoneHeld'
  BY <1>1, <1>2, MediaAssumption, RequestFacts
     DEF Placed, NoneHeld, Resumed, Shapes, Files, Sources, Streams, Positions, Requests
<1>9. Stamps'
  BY <1>1, <1>2, <1>3, MediaAssumption, RequestFacts
     DEF Placed, Stamps, HeldStamp, Resumed, Shapes, Files, Sources, Streams, Positions, Requests
<1>10. Unharmed'
  BY <1>1, <1>2
     DEF Unharmed, Forgotten, Working, Starting, Counted, CanSeek, Shapes, Files, Sources,
     Streams, Positions, Requests
<1>11. FaultsStayWithTheirRequest'
  BY <1>1 DEF FaultsStayWithTheirRequest, Finished
<1> QED
  BY <1>2, <1>4, <1>5, <1>6, <1>7, <1>8, <1>9, <1>10, <1>11 DEF Placed

\* A refused seek is counted, unless it was to the start.
LEMMA SeekFailsKeeps ==
  ASSUME Inv, SeekFails
  PROVE  Inv'
<1> USE DEF Inv, Setting, At
<1>1. /\ request' \in Requests /\ request.pc = "seek" /\ request'.pc = "reopen" /\ request'.after = "read"
      /\ request'.time = request.time /\ request'.faulted = request.faulted
      /\ request'.retried = request.retried /\ request'.cancelled = request.cancelled
      /\ source' \in Sources /\ source'.open = source.open
      /\ source'.interrupted = source.interrupted /\ source'.lost = source.lost
      /\ file' \in Files /\ file'.setting = file.setting
      /\ file'.length = file.length /\ file'.opened = file.opened /\ file'.ended = file.ended
      /\ info' \in Streams /\ info'.start = info.start /\ info'.duration = info.duration
      /\ info'.seekable = (info.seekable /\ source'.failures < MaxSeekFailures)
      /\ IF request.toStart THEN source'.failures = source.failures /\ file'.refused = file.refused
         ELSE source'.failures = source.failures + 1 /\ file'.refused = file.refused + 1
      /\ position' = Nowhere
      /\ UNCHANGED <<io, at, reply>>
  <2>1. /\ source' \in Sources /\ source'.open = source.open
        /\ source'.interrupted = source.interrupted /\ source'.lost = source.lost
        /\ source'.failures = IF request.toStart THEN source.failures ELSE source.failures + 1
    BY DEF SeekFails, Shapes, Sources
  <2>2. /\ file' \in Files /\ file'.setting = file.setting
        /\ file'.length = file.length /\ file'.opened = file.opened /\ file'.ended = file.ended
        /\ file'.refused = IF request.toStart THEN file.refused ELSE file.refused + 1
    BY DEF SeekFails, Shapes, Files
  <2>3. /\ info' \in Streams /\ info'.start = info.start /\ info'.duration = info.duration
        /\ info'.seekable = (info.seekable /\ source'.failures < MaxSeekFailures)
    BY <2>1, MediaAssumption DEF SeekFails, Shapes, Streams, Sources
  <2>4. request' = [request EXCEPT !.pc = "reopen", !.after = "read"]
    BY DEF SeekFails
  <2> QED
    BY <2>1, <2>2, <2>3, <2>4, DivertFacts DEF SeekFails
<1>2. Shapes'
  BY <1>1, RequestFacts DEF Shapes
<1>3. Wanted' = Wanted /\ Wanted \in Nat
  BY <1>1, WantedFacts, WantedStays
<1>4. Bounds' /\ Owned'
  BY <1>1, <1>2, MediaAssumption, RequestFacts
     DEF Bounds, Owned, Shapes, Files, Sources, Streams, Positions, Requests
<1>5. Counted'
  BY <1>1, <1>2, MediaAssumption
     DEF Counted, CanSeek, Shapes, Files, Sources, Streams, Positions, Requests
<1>6. Learned'
  BY <1>1, <1>2 DEF Learned, AssetKnown, Shapes, Files, Sources, Streams, Positions, Requests
<1>7. FramesHeld'
  BY <1>1, <1>2, MediaAssumption, RequestFacts
     DEF Placed, FramesHeld, Stamps, Shapes, Files, Sources, Streams, Positions, Requests
<1>8. NoneHeld'
  BY <1>1, <1>2, MediaAssumption, RequestFacts
     DEF Placed, NoneHeld, Resumed, Shapes, Files, Sources, Streams, Positions, Requests
<1>9. Stamps'
  BY <1>1, <1>2, <1>3, MediaAssumption, RequestFacts
     DEF Placed, Stamps, HeldStamp, Resumed, Shapes, Files, Sources, Streams, Positions, Requests
<1>10. Unharmed'
  BY <1>1, <1>2, RequestFacts
     DEF Unharmed, Forgotten, Working, Starting, Resumed, Placed, Stamps, Shapes, Files, Sources,
     Streams, Positions, Requests
<1>11. FaultsStayWithTheirRequest'
  BY <1>1 DEF FaultsStayWithTheirRequest, Finished
<1> QED
  BY <1>2, <1>4, <1>5, <1>6, <1>7, <1>8, <1>9, <1>10, <1>11 DEF Placed

\* An interrupted one is not.
LEMMA SeekInterruptedKeeps ==
  ASSUME Inv, SeekInterrupted
  PROVE  Inv'
<1> USE DEF Inv, Setting, At
<1>1. /\ request' \in Requests /\ request'.pc = "idle" /\ ~request'.faulted /\ reply' \in Replies
      /\ request.pc = "seek" /\ reply'.faulted
      /\ source' \in Sources /\ source'.open = source.open
      /\ source'.lost = source.lost /\ source'.failures = source.failures
      /\ source'.interrupted
      /\ info' \in Streams /\ info'.start = info.start /\ info'.duration = info.duration
      /\ info'.seekable = (info.seekable /\ source'.failures < MaxSeekFailures)
      /\ io' \in [error : BOOLEAN, eof : BOOLEAN]
      /\ position' = Nowhere
      /\ UNCHANGED <<file, at>>
  <2>1. /\ source' \in Sources /\ source'.open = source.open
        /\ source'.interrupted /\ source'.lost = source.lost /\ source'.failures = source.failures
    BY DEF SeekInterrupted, InterruptedSource, Shapes, Sources
  <2>2. /\ info' \in Streams /\ info'.start = info.start /\ info'.duration = info.duration
        /\ info'.seekable = (info.seekable /\ source'.failures < MaxSeekFailures)
    BY <2>1, MediaAssumption DEF SeekInterrupted, Shapes, Streams, Sources
  <2> QED
    BY <2>1, <2>2, InterruptedFacts DEF SeekInterrupted
<1>2. Shapes'
  BY <1>1, RequestFacts DEF Shapes
<1>4. Bounds' /\ Owned'
  BY <1>1, <1>2, MediaAssumption, RequestFacts
     DEF Bounds, Owned, Shapes, Files, Sources, Streams, Positions, Requests
<1>5. Counted'
  BY <1>1, <1>2, MediaAssumption
     DEF Counted, CanSeek, Shapes, Files, Sources, Streams, Positions, Requests
<1>6. Learned'
  BY <1>1, <1>2 DEF Learned, AssetKnown, Shapes, Files, Sources, Streams, Positions, Requests
<1>7. FramesHeld'
  BY <1>1, <1>2, MediaAssumption, RequestFacts
     DEF Placed, FramesHeld, Stamps, Shapes, Files, Sources, Streams, Positions, Requests
<1>8. NoneHeld'
  BY <1>1, <1>2, MediaAssumption, RequestFacts
     DEF Placed, NoneHeld, Resumed, Shapes, Files, Sources, Streams, Positions, Requests
<1>9. Stamps'
  BY <1>1, <1>2, MediaAssumption, RequestFacts
     DEF Placed, Stamps, HeldStamp, Resumed, Shapes, Files, Sources, Streams, Positions, Requests
<1>10. Unharmed'
  BY <1>1, <1>2, RequestFacts
     DEF Unharmed, Forgotten, Working, Starting, Resumed, Placed, Stamps, Shapes, Files, Sources,
     Streams, Positions, Requests
<1>11. FaultsStayWithTheirRequest'
  BY <1>1 DEF FaultsStayWithTheirRequest, Finished
<1> QED
  BY <1>2, <1>4, <1>5, <1>6, <1>7, <1>8, <1>9, <1>10, <1>11 DEF Placed

\* A selection given up keeps its frames, but its position on a source that cannot seek only.
LEMMA ReadCancelledKeeps ==
  ASSUME Inv, ReadCancelled
  PROVE  Inv'
<1> USE DEF Inv, Setting, At
<1>1. /\ request' \in Requests /\ request'.pc = "idle" /\ ~request'.faulted /\ reply' \in Replies
      /\ request.pc = "read" /\ reply'.faulted
      /\ position' \in Positions
      /\ position'.received = position.received /\ position'.atStart = position.atStart
      /\ position'.ended = position.ended
      /\ position'.held = position.held /\ position'.pending = position.pending
      /\ position'.positioned = (position.positioned /\ ~info.seekable)
      /\ UNCHANGED <<file, source, io, at, info>>
  BY InterruptedFacts, GivenUpFacts DEF ReadCancelled
<1>2. Shapes'
  BY <1>1, RequestFacts DEF Shapes
<1>4. Bounds' /\ Owned'
  BY <1>1, <1>2, MediaAssumption, RequestFacts
     DEF Bounds, Owned, Shapes, Files, Sources, Streams, Positions, Requests
<1>5. Counted'
  BY <1>1, <1>2, MediaAssumption
     DEF Counted, CanSeek, Shapes, Files, Sources, Streams, Positions, Requests
<1>6. Learned'
  BY <1>1, <1>2 DEF Learned, AssetKnown, Shapes, Files, Sources, Streams, Positions, Requests
<1>7. FramesHeld'
  BY <1>1, <1>2, MediaAssumption, RequestFacts
     DEF Placed, FramesHeld, Stamps, Shapes, Files, Sources, Streams, Positions, Requests
<1>8. NoneHeld'
  BY <1>1, <1>2, MediaAssumption, RequestFacts
     DEF Placed, NoneHeld, Resumed, Shapes, Files, Sources, Streams, Positions, Requests
<1>9. Stamps'
  BY <1>1, <1>2, MediaAssumption, RequestFacts
     DEF Placed, Stamps, HeldStamp, Resumed, Shapes, Files, Sources, Streams, Positions, Requests
<1>10. Unharmed'
  BY <1>1, <1>2, RequestFacts
     DEF Unharmed, Forgotten, Working, Starting, Resumed, Placed, Stamps, Shapes, Files, Sources,
     Streams, Positions, Requests
<1>11. FaultsStayWithTheirRequest'
  BY <1>1 DEF FaultsStayWithTheirRequest, Finished
<1> QED
  BY <1>2, <1>4, <1>5, <1>6, <1>7, <1>8, <1>9, <1>10, <1>11 DEF Placed

\* An old error is met only by a request it happened to.
LEMMA ReadStaleErrorKeeps ==
  ASSUME Inv, ReadStaleError
  PROVE  Inv'
<1> USE DEF Inv, Setting, At
<1>1. /\ request' \in Requests /\ request'.pc = "idle" /\ ~request'.faulted /\ reply' \in Replies
      /\ request.pc = "read" /\ io.error /\ reply'.faulted = request.faulted /\ ~request.cancelled
      /\ position' \in Positions
      /\ position'.received = position.received /\ position'.atStart = position.atStart
      /\ position'.ended = position.ended
      /\ position'.held = position.held /\ position'.pending = position.pending
      /\ position'.positioned = (position.positioned /\ ~info.seekable)
      /\ UNCHANGED <<file, source, io, at, info>>
  <2>1. reply'.faulted = (request.faulted \/ "stale" \in {"cancelled", "unusable", "outOfMemory"})
    BY FailFacts DEF ReadStaleError, Statuses
  <2> QED
    BY <2>1, FailFacts, GivenUpFacts DEF ReadStaleError, CanRead, Statuses, Shapes, Requests
<1>2. Shapes'
  BY <1>1, RequestFacts DEF Shapes
<1>4. Bounds' /\ Owned'
  BY <1>1, <1>2, MediaAssumption, RequestFacts
     DEF Bounds, Owned, Shapes, Files, Sources, Streams, Positions, Requests
<1>5. Counted'
  BY <1>1, <1>2, MediaAssumption
     DEF Counted, CanSeek, Shapes, Files, Sources, Streams, Positions, Requests
<1>6. Learned'
  BY <1>1, <1>2 DEF Learned, AssetKnown, Shapes, Files, Sources, Streams, Positions, Requests
<1>7. FramesHeld'
  BY <1>1, <1>2, MediaAssumption, RequestFacts
     DEF Placed, FramesHeld, Stamps, Shapes, Files, Sources, Streams, Positions, Requests
<1>8. NoneHeld'
  BY <1>1, <1>2, MediaAssumption, RequestFacts
     DEF Placed, NoneHeld, Resumed, Shapes, Files, Sources, Streams, Positions, Requests
<1>9. Stamps'
  BY <1>1, <1>2, MediaAssumption, RequestFacts
     DEF Placed, Stamps, HeldStamp, Resumed, Shapes, Files, Sources, Streams, Positions, Requests
<1>10. Unharmed'
  BY <1>1, <1>2, RequestFacts
     DEF Unharmed, Forgotten, Working, Starting, Resumed, Placed, Stamps, Shapes, Files, Sources,
     Streams, Positions, Requests
<1>11. FaultsStayWithTheirRequest'
  <2>1. ~(Setting.rewinds \/ Setting.verified)
    BY <1>1 DEF Unharmed, Working, Shapes, Sources
  <2> QED
    BY <1>1, <2>1 DEF FaultsStayWithTheirRequest, Finished
<1> QED
  BY <1>2, <1>4, <1>5, <1>6, <1>7, <1>8, <1>9, <1>10, <1>11 DEF Placed

\* A read that is interrupted is remembered as such.
LEMMA ReadInterruptedKeeps ==
  ASSUME Inv, ReadInterrupted
  PROVE  Inv'
<1> USE DEF Inv, Setting, At
<1>1. /\ request' \in Requests /\ request'.pc = "idle" /\ ~request'.faulted /\ reply' \in Replies
      /\ request.pc = "read" /\ reply'.faulted
      /\ source' \in Sources /\ source'.open = source.open
      /\ source'.lost = source.lost /\ source'.failures = source.failures
      /\ source'.interrupted /\ io' \in [error : BOOLEAN, eof : BOOLEAN]
      /\ position' \in Positions
      /\ position'.received = position.received /\ position'.atStart = position.atStart
      /\ position'.ended = position.ended
      /\ position'.held = position.held /\ position'.pending = position.pending
      /\ position'.positioned = (position.positioned /\ ~info.seekable)
      /\ UNCHANGED <<file, at, info>>
  <2>1. /\ source' \in Sources /\ source'.open = source.open
        /\ source'.interrupted /\ source'.lost = source.lost /\ source'.failures = source.failures
    BY DEF ReadInterrupted, Shapes, Sources
  <2>2. io' \in [error : BOOLEAN, eof : BOOLEAN]
    BY DEF ReadInterrupted
  <2> QED
    BY <2>1, <2>2, InterruptedFacts, GivenUpFacts DEF ReadInterrupted, CanRead
<1>2. Shapes'
  BY <1>1, RequestFacts DEF Shapes
<1>4. Bounds' /\ Owned'
  BY <1>1, <1>2, MediaAssumption, RequestFacts
     DEF Bounds, Owned, Shapes, Files, Sources, Streams, Positions, Requests
<1>5. Counted'
  BY <1>1, <1>2, MediaAssumption
     DEF Counted, CanSeek, Shapes, Files, Sources, Streams, Positions, Requests
<1>6. Learned'
  BY <1>1, <1>2 DEF Learned, AssetKnown, Shapes, Files, Sources, Streams, Positions, Requests
<1>7. FramesHeld'
  BY <1>1, <1>2, MediaAssumption, RequestFacts
     DEF Placed, FramesHeld, Stamps, Shapes, Files, Sources, Streams, Positions, Requests
<1>8. NoneHeld'
  BY <1>1, <1>2, MediaAssumption, RequestFacts
     DEF Placed, NoneHeld, Resumed, Shapes, Files, Sources, Streams, Positions, Requests
<1>9. Stamps'
  BY <1>1, <1>2, MediaAssumption, RequestFacts
     DEF Placed, Stamps, HeldStamp, Resumed, Shapes, Files, Sources, Streams, Positions, Requests
<1>10. Unharmed'
  BY <1>1, <1>2, RequestFacts
     DEF Unharmed, Forgotten, Working, Starting, Resumed, Placed, Stamps, Shapes, Files, Sources,
     Streams, Positions, Requests
<1>11. FaultsStayWithTheirRequest'
  BY <1>1 DEF FaultsStayWithTheirRequest, Finished
<1> QED
  BY <1>2, <1>4, <1>5, <1>6, <1>7, <1>8, <1>9, <1>10, <1>11 DEF Placed

\* Skipping to a key frame never starts at the first frame, which is one.
LEMMA SkipToKeyFrameKeeps ==
  ASSUME Inv, SkipToKeyFrame
  PROVE  Inv'
<1> USE DEF Inv, Setting, At
<1>1. /\ request.pc = "read" /\ position.held = None /\ at \in Nat /\ at' = at + 1 /\ at < file.length
      /\ at \notin KeyFrames
      /\ UNCHANGED <<file, source, io, info, position, request, reply>>
  BY DEF SkipToKeyFrame, FrameRead, PacketRead, CanRead, Shapes
<1>2. Shapes'
  BY <1>1, RequestFacts DEF Shapes
<1>3. Wanted' = Wanted /\ Wanted \in Nat
  BY <1>1, WantedFacts, WantedStays
<1>4. Bounds' /\ Owned'
  BY <1>1, <1>2, MediaAssumption, RequestFacts
     DEF Bounds, Owned, Shapes, Files, Sources, Streams, Positions, Requests
<1>5. Counted'
  BY <1>1, <1>2, MediaAssumption
     DEF Counted, CanSeek, Shapes, Files, Sources, Streams, Positions, Requests
<1>6. Learned'
  BY <1>1, <1>2 DEF Learned, AssetKnown, Shapes, Files, Sources, Streams, Positions, Requests
<1>7. FramesHeld'
  BY <1>1, <1>2, MediaAssumption, RequestFacts
     DEF Placed, FramesHeld, Stamps, Shapes, Files, Sources, Streams, Positions, Requests
<1>8. NoneHeld'
  <2>1. ~position.atStart
    BY <1>1, MediaAssumption DEF Placed, NoneHeld
  <2> QED
    BY <1>1, <2>1 DEF Placed, NoneHeld, Resumed
<1>9. Stamps'
  BY <1>1, <1>2, <1>3, MediaAssumption, RequestFacts
     DEF Placed, Stamps, HeldStamp, Resumed, Shapes, Files, Sources, Streams, Positions, Requests
<1>10. Unharmed'
  BY <1>1, <1>2, RequestFacts
     DEF Unharmed, Forgotten, Working, Starting, Resumed, Placed, Stamps, Shapes, Files, Sources,
     Streams, Positions, Requests
<1>11. FaultsStayWithTheirRequest'
  BY <1>1 DEF FaultsStayWithTheirRequest, Finished
<1> QED
  BY <1>2, <1>4, <1>5, <1>6, <1>7, <1>8, <1>9, <1>10, <1>11 DEF Placed

\* Reading goes no further than the frame that is wanted.
LEMMA ReadFrameKeeps ==
  ASSUME Inv, ReadFrame
  PROVE  Inv'
<1> USE DEF Inv, Setting, At
<1>1. /\ NextStamp \in Nat /\ NextStamp <= at /\ ((Resumed => Setting.stamped) => NextStamp = at)
      /\ at \in Nat /\ at < file.length /\ request.pc = "read" /\ ~io.error /\ ~io.eof
      /\ position' \in Positions
      /\ position'.received = NextStamp /\ position'.held = at /\ position'.pending = None
      /\ position'.positioned = position.positioned /\ position'.atStart = position.atStart
      /\ ~position'.ended
      /\ at' = at + 1 /\ UNCHANGED <<file, source, io, info>>
      /\ NextStamp < Wanted
      /\ UNCHANGED <<request, reply>>
  BY NextStampFacts, HoldFacts DEF ReadFrame
<1>2. Shapes'
  BY <1>1, RequestFacts DEF Shapes
<1>3. Wanted' = Wanted /\ Wanted \in Nat
  BY <1>1, WantedFacts, WantedStays
<1>4. Bounds' /\ Owned'
  BY <1>1, <1>2, MediaAssumption, RequestFacts
     DEF Bounds, Owned, Shapes, Files, Sources, Streams, Positions, Requests
<1>5. Counted'
  BY <1>1, <1>2, MediaAssumption
     DEF Counted, CanSeek, Shapes, Files, Sources, Streams, Positions, Requests
<1>6. Learned'
  BY <1>1, <1>2 DEF Learned, AssetKnown, Shapes, Files, Sources, Streams, Positions, Requests
<1>7. FramesHeld'
  BY <1>1, <1>2, MediaAssumption, RequestFacts
     DEF Placed, FramesHeld, Stamps, Shapes, Files, Sources, Streams, Positions, Requests
<1>8. NoneHeld'
  BY <1>1, <1>2, MediaAssumption, RequestFacts
     DEF Placed, NoneHeld, Resumed, Shapes, Files, Sources, Streams, Positions, Requests
<1>9. Stamps'
  BY <1>1, <1>2, <1>3, MediaAssumption, RequestFacts
     DEF Placed, Stamps, HeldStamp, Resumed, Shapes, Files, Sources, Streams, Positions, Requests
<1>10. Unharmed'
  BY <1>1, <1>2, RequestFacts
     DEF Unharmed, Forgotten, Working, Starting, Resumed, Placed, Stamps, Shapes, Files, Sources,
     Streams, Positions, Requests
<1>11. FaultsStayWithTheirRequest'
  BY <1>1 DEF FaultsStayWithTheirRequest, Finished
<1> QED
  BY <1>2, <1>4, <1>5, <1>6, <1>7, <1>8, <1>9, <1>10, <1>11 DEF Placed

\* The frame that is wanted is the one asked for, as long as the origin stands.
LEMMA AnswerReadKeeps ==
  ASSUME Inv, AnswerRead
  PROVE  Inv'
<1> USE DEF Inv, Setting, At
<1>1. /\ NextStamp \in Nat /\ NextStamp <= at /\ ((Resumed => Setting.stamped) => NextStamp = at)
      /\ at \in Nat /\ at < file.length /\ request.pc = "read" /\ ~io.error /\ ~io.eof
      /\ position' \in Positions
      /\ position'.received = NextStamp /\ position'.held = at /\ position'.pending = None
      /\ position'.positioned = position.positioned /\ position'.atStart = position.atStart
      /\ ~position'.ended
      /\ at' = at + 1 /\ UNCHANGED <<file, source, io, info>>
      /\ request' \in Requests /\ request'.pc = "idle" /\ ~request'.faulted /\ reply' \in Replies
      /\ reply'.status = "ok" /\ reply'.frame = at /\ reply'.time = request.time
      /\ NextStamp = Wanted
  BY NextStampFacts, HoldFacts, EndFacts DEF AnswerRead, Statuses
<1>2. Shapes'
  BY <1>1, RequestFacts DEF Shapes
<1>4. Bounds' /\ Owned'
  BY <1>1, <1>2, MediaAssumption, RequestFacts
     DEF Bounds, Owned, Shapes, Files, Sources, Streams, Positions, Requests
<1>5. Counted'
  BY <1>1, <1>2, MediaAssumption
     DEF Counted, CanSeek, Shapes, Files, Sources, Streams, Positions, Requests
<1>6. Learned'
  BY <1>1, <1>2 DEF Learned, AssetKnown, Shapes, Files, Sources, Streams, Positions, Requests
<1>7. FramesHeld'
  BY <1>1, <1>2, MediaAssumption, RequestFacts
     DEF Placed, FramesHeld, Stamps, Shapes, Files, Sources, Streams, Positions, Requests
<1>8. NoneHeld'
  BY <1>1, <1>2, MediaAssumption, RequestFacts
     DEF Placed, NoneHeld, Resumed, Shapes, Files, Sources, Streams, Positions, Requests
<1>9. Stamps'
  BY <1>1, <1>2, MediaAssumption, RequestFacts
     DEF Placed, Stamps, HeldStamp, Resumed, Shapes, Files, Sources, Streams, Positions, Requests
<1>10. Unharmed'
  BY <1>1, <1>2, RequestFacts
     DEF Unharmed, Forgotten, Working, Starting, Resumed, Placed, Stamps, Shapes, Files, Sources,
     Streams, Positions, Requests
<1>11. FaultsStayWithTheirRequest'
  <2>1. SUFFICES ASSUME AssetKnown, Resumed => Setting.stamped
        PROVE  reply'.frame = request.time
    BY <1>1 DEF FaultsStayWithTheirRequest, Finished, Resumed, AssetKnown
  <2>2. Wanted = request.time /\ Wanted \in Nat
    BY <1>1, <2>1, WantedFacts DEF AssetKnown
  <2> QED
    BY <1>1, <2>1, <2>2
<1> QED
  BY <1>2, <1>4, <1>5, <1>6, <1>7, <1>8, <1>9, <1>10, <1>11 DEF Placed

\* The frame before the first one past the target is the one asked for.
LEMMA AnswerHeldKeeps ==
  ASSUME Inv, AnswerHeld
  PROVE  Inv'
<1> USE DEF Inv, Setting, At
<1>1. /\ request' \in Requests /\ request'.pc = "idle" /\ ~request'.faulted /\ reply' \in Replies
      /\ NextStamp \in Nat /\ NextStamp <= at /\ ((Resumed => Setting.stamped) => NextStamp = at)
      /\ at \in Nat /\ at < file.length /\ request.pc = "read" /\ ~io.error /\ ~io.eof
      /\ Wanted \in Nat /\ NextStamp > Wanted
      /\ position.held \in Nat /\ position.held # None /\ position.received \in Nat
      /\ position.received <= Wanted /\ at = position.held + 1 /\ ~position.ended /\ position.pending = None
      /\ (Resumed => Setting.stamped) => position.received = position.held
      /\ reply'.status = "ok" /\ reply'.frame = position.held /\ reply'.time = request.time
      /\ position' \in Positions
      /\ position'.received = NextStamp /\ position'.held = position.held /\ position'.pending = at
      /\ position'.positioned = position.positioned /\ position'.atStart = position.atStart
      /\ ~position'.ended
      /\ at' = at + 1 /\ UNCHANGED <<file, source, io, info>>
  <2>1. /\ NextStamp \in Nat /\ NextStamp <= at /\ ((Resumed => Setting.stamped) => NextStamp = at)
        /\ at \in Nat /\ at < file.length /\ request.pc = "read" /\ ~io.error /\ ~io.eof
        /\ Wanted \in Nat /\ NextStamp > Wanted
    BY NextStampFacts DEF AnswerHeld
  <2>2. /\ position.held \in Nat /\ position.held # None /\ position.received \in Nat
        /\ position.received <= Wanted /\ at = position.held + 1 /\ ~position.ended /\ position.pending = None
    BY <2>1 DEF AnswerHeld, Placed, FramesHeld, Stamps, Shapes, Positions
  <2>3. (Resumed => Setting.stamped) => position.received = position.held
    BY <2>2 DEF Placed, Stamps, HeldStamp
  <2>4. /\ position' = [position EXCEPT !.received = NextStamp, !.pending = at]
        /\ at' = at + 1 /\ UNCHANGED <<file, source, io, info>> /\ End("ok", position.held)
    BY DEF AnswerHeld
  <2>5. /\ position' \in Positions
        /\ position'.received = NextStamp /\ position'.held = position.held /\ position'.pending = at
        /\ position'.positioned = position.positioned /\ position'.atStart = position.atStart
        /\ ~position'.ended
    BY <2>1, <2>2, <2>4 DEF Shapes, Positions
  <2> QED
    BY <2>1, <2>2, <2>3, <2>4, <2>5, EndFacts DEF Statuses
<1>2. Shapes'
  BY <1>1, RequestFacts DEF Shapes
<1>4. Bounds' /\ Owned'
  BY <1>1, <1>2, MediaAssumption, RequestFacts
     DEF Bounds, Owned, Shapes, Files, Sources, Streams, Positions, Requests
<1>5. Counted'
  BY <1>1, <1>2, MediaAssumption
     DEF Counted, CanSeek, Shapes, Files, Sources, Streams, Positions, Requests
<1>6. Learned'
  BY <1>1, <1>2 DEF Learned, AssetKnown, Shapes, Files, Sources, Streams, Positions, Requests
<1>7. FramesHeld'
  BY <1>1, <1>2, MediaAssumption, RequestFacts
     DEF Placed, FramesHeld, Stamps, Shapes, Files, Sources, Streams, Positions, Requests
<1>8. NoneHeld'
  BY <1>1, <1>2, MediaAssumption, RequestFacts
     DEF Placed, NoneHeld, Resumed, Shapes, Files, Sources, Streams, Positions, Requests
<1>9. Stamps'
  BY <1>1, <1>2, MediaAssumption, RequestFacts
     DEF Placed, Stamps, HeldStamp, Resumed, Shapes, Files, Sources, Streams, Positions, Requests
<1>10. Unharmed'
  BY <1>1, <1>2, RequestFacts
     DEF Unharmed, Forgotten, Working, Starting, Resumed, Placed, Stamps, Shapes, Files, Sources,
     Streams, Positions, Requests
<1>11. FaultsStayWithTheirRequest'
  <2>1. SUFFICES ASSUME AssetKnown, Resumed => Setting.stamped
        PROVE  reply'.frame = request.time
    BY <1>1 DEF FaultsStayWithTheirRequest, Finished, Resumed, AssetKnown
  <2>2. Wanted = request.time /\ Wanted \in Nat
    BY <1>1, <2>1, WantedFacts DEF AssetKnown
  <2> QED
    BY <1>1, <2>1, <2>2
<1> QED
  BY <1>2, <1>4, <1>5, <1>6, <1>7, <1>8, <1>9, <1>10, <1>11 DEF Placed

\* A first frame past the target is one a resumed source begins with again.
LEMMA AnswerFirstKeeps ==
  ASSUME Inv, AnswerFirst
  PROVE  Inv'
<1> USE DEF Inv, Setting, At
<1>1. /\ NextStamp \in Nat /\ NextStamp <= at /\ ((Resumed => Setting.stamped) => NextStamp = at)
      /\ at \in Nat /\ at < file.length /\ request.pc = "read" /\ ~io.error /\ ~io.eof
      /\ position' \in Positions
      /\ position'.received = NextStamp /\ position'.held = at /\ position'.pending = None
      /\ position'.positioned = position.positioned /\ position'.atStart = position.atStart
      /\ ~position'.ended
      /\ at' = at + 1 /\ UNCHANGED <<file, source, io, info>>
      /\ request' \in Requests /\ request'.pc = "idle" /\ ~request'.faulted /\ reply' \in Replies
      /\ reply'.status = "clampedToFirst" /\ reply'.frame = at /\ reply'.time = request.time
      /\ Wanted \in Nat /\ NextStamp > Wanted /\ position.held = None /\ at \in KeyFrames
      /\ Resumed /\ Resumed'
  <2>1. /\ NextStamp \in Nat /\ NextStamp <= at /\ at \in Nat /\ Wanted \in Nat /\ request.pc = "read"
        /\ NextStamp > Wanted /\ position.held = None /\ at \in KeyFrames
        /\ position.atStart \/ ~info.seekable
    BY NextStampFacts DEF AnswerFirst, Overshot
  <2>2. ~position.atStart
    BY <2>1 DEF Placed, NoneHeld
  <2>3. Resumed
    BY <2>1, <2>2 DEF Placed, NoneHeld, Resumed
  <2> QED
    BY <2>1, <2>3, NextStampFacts, HoldFacts, EndFacts DEF AnswerFirst, Overshot, Statuses
<1>2. Shapes'
  BY <1>1, RequestFacts DEF Shapes
<1>4. Bounds' /\ Owned'
  BY <1>1, <1>2, MediaAssumption, RequestFacts
     DEF Bounds, Owned, Shapes, Files, Sources, Streams, Positions, Requests
<1>5. Counted'
  BY <1>1, <1>2, MediaAssumption
     DEF Counted, CanSeek, Shapes, Files, Sources, Streams, Positions, Requests
<1>6. Learned'
  BY <1>1, <1>2 DEF Learned, AssetKnown, Shapes, Files, Sources, Streams, Positions, Requests
<1>7. FramesHeld'
  BY <1>1, <1>2, MediaAssumption, RequestFacts
     DEF Placed, FramesHeld, Stamps, Shapes, Files, Sources, Streams, Positions, Requests
<1>8. NoneHeld'
  BY <1>1, <1>2, MediaAssumption, RequestFacts
     DEF Placed, NoneHeld, Resumed, Shapes, Files, Sources, Streams, Positions, Requests
<1>9. Stamps'
  BY <1>1, <1>2, MediaAssumption, RequestFacts
     DEF Placed, Stamps, HeldStamp, Resumed, Shapes, Files, Sources, Streams, Positions, Requests
<1>10. Unharmed'
  BY <1>1, <1>2, RequestFacts
     DEF Unharmed, Forgotten, Working, Starting, Resumed, Placed, Stamps, Shapes, Files, Sources,
     Streams, Positions, Requests
<1>11. FaultsStayWithTheirRequest'
  <2>1. SUFFICES ASSUME AssetKnown, Setting.stamped
        PROVE  reply'.frame > request.time
    BY <1>1 DEF FaultsStayWithTheirRequest, Finished, Resumed, AssetKnown
  <2>2. Wanted = request.time /\ Wanted \in Nat
    BY <1>1, <2>1, WantedFacts DEF AssetKnown
  <2> QED
    BY <1>1, <2>1, <2>2
<1> QED
  BY <1>2, <1>4, <1>5, <1>6, <1>7, <1>8, <1>9, <1>10, <1>11 DEF Placed

\* A request nothing happened to ends at the end of the file only.
LEMMA EndOfStreamKeeps ==
  ASSUME Inv, EndOfStream
  PROVE  Inv'
<1> USE DEF Inv, Setting, At
<1>1. /\ request' \in Requests /\ request'.pc = "idle" /\ ~request'.faulted /\ reply' \in Replies
      /\ request.pc = "read" /\ reply'.time = request.time
      /\ position' \in Positions /\ position'.ended
      /\ position'.received = position.received /\ position'.atStart = position.atStart
      /\ position'.held = position.held /\ position'.pending = None /\ position.pending = None
      /\ position'.positioned = position.positioned
      /\ file' \in Files /\ file'.setting = file.setting /\ file'.length = file.length
      /\ file'.opened = file.opened /\ file'.refused = file.refused /\ file'.ended = file.length
      /\ position.held # None \/ ~info.seekable \/ (position.atStart /\ request.retried)
      /\ Setting.rewinds \/ Setting.verified => at >= file.length /\ ~io.eof
      /\ \/ /\ position.held # None /\ reply'.status = "ok" /\ reply'.frame = position.held
            /\ Wanted = position.received
         \/ position.held # None /\ reply'.status = "timeOutOfRange" /\ Wanted # position.received
         \/ position.held = None /\ reply'.status = "endOfStream"
      /\ UNCHANGED <<source, io, at, info>>
  <2>1. /\ request.pc = "read" /\ position \in Positions /\ position.pending = None
        /\ position.held # None \/ ~info.seekable \/ (position.atStart /\ request.retried)
    BY DEF EndOfStream, EndRead, CanRead, Placed, Stamps, Shapes
  <2>2. /\ position' \in Positions /\ position'.ended
        /\ position'.received = position.received /\ position'.atStart = position.atStart
        /\ position'.held = position.held /\ position'.pending = None
        /\ position'.positioned = position.positioned
    BY <2>1 DEF EndOfStream, Positions
  <2>3. /\ file' \in Files /\ file'.setting = file.setting /\ file'.length = file.length
        /\ file'.opened = file.opened /\ file'.refused = file.refused /\ file'.ended = file.length
    BY DEF EndOfStream, Shapes, Files
  <2>4. Setting.rewinds \/ Setting.verified => at >= file.length /\ ~io.eof
    BY <2>1, EndFound DEF EndOfStream
  <2>5. /\ request' \in Requests /\ request'.pc = "idle" /\ ~request'.faulted /\ reply' \in Replies
        /\ reply'.time = request.time
        /\ \/ /\ position.held # None /\ reply'.status = "ok" /\ reply'.frame = position.held
              /\ Wanted = position.received
           \/ position.held # None /\ reply'.status = "timeOutOfRange" /\ Wanted # position.received
           \/ position.held = None /\ reply'.status = "endOfStream"
    <3>1. HeldStamp = position.received
      BY <2>1 DEF HeldStamp
    <3>2. CASE position.held # None /\ Wanted = HeldStamp
      <4>1. End("ok", position.held) /\ position.held \in Nat \cup {None}
        BY <2>1, <3>2 DEF EndOfStream, AnswerAtEnd, Positions
      <4> QED
        BY <3>1, <3>2, <4>1, EndFacts DEF Statuses
    <3>3. CASE position.held # None /\ Wanted # HeldStamp
      BY <3>1, <3>3, FailFacts DEF EndOfStream, AnswerAtEnd, Statuses
    <3>4. CASE position.held = None
      BY <3>4, FailFacts DEF EndOfStream, Statuses
    <3> QED
      BY <3>2, <3>3, <3>4
  <2> QED
    BY <2>1, <2>2, <2>3, <2>4, <2>5 DEF EndOfStream
<1>2. Shapes'
  BY <1>1, RequestFacts DEF Shapes
<1>4. Bounds' /\ Owned'
  BY <1>1, <1>2, MediaAssumption, RequestFacts
     DEF Bounds, Owned, Shapes, Files, Sources, Streams, Positions, Requests
<1>5. Counted'
  BY <1>1, <1>2, MediaAssumption
     DEF Counted, CanSeek, Shapes, Files, Sources, Streams, Positions, Requests
<1>6. Learned'
  BY <1>1, <1>2 DEF Learned, AssetKnown, Shapes, Files, Sources, Streams, Positions, Requests
<1>7. FramesHeld'
  BY <1>1, <1>2, MediaAssumption, RequestFacts
     DEF Placed, FramesHeld, Stamps, Shapes, Files, Sources, Streams, Positions, Requests
<1>8. NoneHeld'
  BY <1>1, <1>2, MediaAssumption, RequestFacts
     DEF Placed, NoneHeld, Resumed, Shapes, Files, Sources, Streams, Positions, Requests
<1>9. Stamps'
  BY <1>1, <1>2, MediaAssumption, RequestFacts
     DEF Placed, Stamps, HeldStamp, Resumed, Shapes, Files, Sources, Streams, Positions, Requests
<1>10. Unharmed'
  <2>1. position.held # None => at = position.held + 1 /\ position.held \in Nat
    BY <1>1 DEF Placed, FramesHeld, Shapes, Positions
  <2> QED
    BY <1>1, <1>2, <2>1
       DEF Unharmed, Forgotten, Working, Starting, Placed, Stamps, Shapes, Files, Sources,
       Streams, Positions, Requests
<1>11. FaultsStayWithTheirRequest'
  <2>1. SUFFICES ASSUME AssetKnown, Setting.rewinds \/ Setting.verified, Resumed => Setting.stamped
        PROVE  \/ reply'.status = "ok" /\ reply'.frame = request.time
               \/ reply'.status = "timeOutOfRange" /\ request.time >= file.length
               \/ Resumed /\ reply'.status = "endOfStream"
    BY <1>1 DEF FaultsStayWithTheirRequest, Finished, Resumed, AssetKnown
  <2>2. Wanted = request.time /\ Wanted \in Nat
    BY <1>1, <2>1, WantedFacts DEF AssetKnown
  <2>3. at >= file.length /\ file.length \in Nat \ {0} /\ at \in Nat
    BY <1>1, <2>1 DEF Shapes, Files
  <2>4. CASE position.held # None
    <3>1. /\ position.held \in Nat /\ at = position.held + 1
          /\ position.received = position.held /\ position.received <= Wanted
      BY <1>1, <2>1, <2>4 DEF Placed, FramesHeld, Stamps, HeldStamp, Shapes, Positions
    <3> QED
      BY <1>1, <2>2, <2>3, <2>4, <3>1
  <2>5. CASE position.held = None
    <3>1. ~position.atStart
      BY <2>3, <2>5 DEF Placed, NoneHeld
    <3>2. Resumed
      BY <1>1, <2>5, <3>1 DEF Placed, NoneHeld, Resumed
    <3> QED
      BY <1>1, <2>5, <3>2
  <2> QED
    BY <2>4, <2>5
<1> QED
  BY <1>2, <1>4, <1>5, <1>6, <1>7, <1>8, <1>9, <1>10, <1>11 DEF Placed

\* An empty landing, or one past the target, is retried from the start.
LEMMA BackOffKeeps ==
  ASSUME Inv, BackOff
  PROVE  Inv'
<1> USE DEF Inv, Setting, At
<1>1. /\ request' \in Requests /\ request.pc = "read" /\ request'.pc = "seek" /\ info.seekable
      /\ request'.time = request.time /\ request'.faulted = request.faulted
      /\ request'.retried = request.retried /\ request'.cancelled = request.cancelled
      /\ UNCHANGED <<file, source, io, at, info, position, reply>>
  BY DEF BackOff, Overshot, FrameRead, PacketRead, EndRead, CanRead, Retreat, Shapes, Requests
<1>2. Shapes'
  BY <1>1, RequestFacts DEF Shapes
<1>3. Wanted' = Wanted /\ Wanted \in Nat
  BY <1>1, WantedFacts, WantedStays
<1>4. Bounds' /\ Owned'
  BY <1>1, <1>2, MediaAssumption, RequestFacts
     DEF Bounds, Owned, Shapes, Files, Sources, Streams, Positions, Requests
<1>5. Counted'
  BY <1>1, <1>2, MediaAssumption
     DEF Counted, CanSeek, Shapes, Files, Sources, Streams, Positions, Requests
<1>6. Learned'
  BY <1>1, <1>2 DEF Learned, AssetKnown, Shapes, Files, Sources, Streams, Positions, Requests
<1>7. FramesHeld'
  BY <1>1, <1>2, MediaAssumption, RequestFacts
     DEF Placed, FramesHeld, Stamps, Shapes, Files, Sources, Streams, Positions, Requests
<1>8. NoneHeld'
  BY <1>1, <1>2, MediaAssumption, RequestFacts
     DEF Placed, NoneHeld, Resumed, Shapes, Files, Sources, Streams, Positions, Requests
<1>9. Stamps'
  BY <1>1, <1>2, <1>3, MediaAssumption, RequestFacts
     DEF Placed, Stamps, HeldStamp, Resumed, Shapes, Files, Sources, Streams, Positions, Requests
<1>10. Unharmed'
  BY <1>1, <1>2, RequestFacts
     DEF Unharmed, Forgotten, Working, Starting, Resumed, Placed, Stamps, Shapes, Files, Sources,
     Streams, Positions, Requests
<1>11. FaultsStayWithTheirRequest'
  BY <1>1 DEF FaultsStayWithTheirRequest, Finished
<1> QED
  BY <1>2, <1>4, <1>5, <1>6, <1>7, <1>8, <1>9, <1>10, <1>11 DEF Placed

\* An empty stream is cleared, or re-opened, once.
LEMMA RetryKeeps ==
  ASSUME Inv, RetryAfterEmptyEof
  PROVE  Inv'
<1> USE DEF Inv, Setting, At
<1>1. /\ request' \in Requests /\ request.pc = "read" /\ request'.after = "position"
      /\ request'.pc = IF Setting.verified THEN "position" ELSE "reopen"
      /\ request'.time = request.time /\ request'.faulted = request.faulted
      /\ request'.cancelled = request.cancelled /\ ~request.retried /\ ~request.cancelled
      /\ io' = (IF Setting.verified THEN CleanIo ELSE io) /\ ~io.error /\ position' = Nowhere
      /\ UNCHANGED <<file, source, at, info, reply>>
  <2>1. request' = [request EXCEPT !.retried = TRUE, !.after = "position",
                                   !.pc = IF Setting.verified THEN "position" ELSE "reopen"]
    BY DEF RetryAfterEmptyEof
  <2>2. /\ request' \in Requests /\ request'.after = "position"
        /\ request'.pc = IF Setting.verified THEN "position" ELSE "reopen"
        /\ request'.time = request.time /\ request'.faulted = request.faulted
        /\ request'.cancelled = request.cancelled
    BY <2>1 DEF Shapes, Requests
  <2> QED
    BY <2>2 DEF RetryAfterEmptyEof, EndRead, CanRead
<1>2. Shapes'
  BY <1>1, RequestFacts DEF Shapes
<1>3. Wanted' = Wanted /\ Wanted \in Nat
  BY <1>1, WantedFacts, WantedStays
<1>4. Bounds' /\ Owned'
  BY <1>1, <1>2, MediaAssumption, RequestFacts
     DEF Bounds, Owned, Shapes, Files, Sources, Streams, Positions, Requests
<1>5. Counted'
  BY <1>1, <1>2, MediaAssumption
     DEF Counted, CanSeek, Shapes, Files, Sources, Streams, Positions, Requests
<1>6. Learned'
  BY <1>1, <1>2 DEF Learned, AssetKnown, Shapes, Files, Sources, Streams, Positions, Requests
<1>7. FramesHeld'
  BY <1>1, <1>2, MediaAssumption, RequestFacts
     DEF Placed, FramesHeld, Stamps, Shapes, Files, Sources, Streams, Positions, Requests
<1>8. NoneHeld'
  BY <1>1, <1>2, MediaAssumption, RequestFacts
     DEF Placed, NoneHeld, Resumed, Shapes, Files, Sources, Streams, Positions, Requests
<1>9. Stamps'
  BY <1>1, <1>2, <1>3, MediaAssumption, RequestFacts
     DEF Placed, Stamps, HeldStamp, Resumed, Shapes, Files, Sources, Streams, Positions, Requests
<1>10. Unharmed'
  BY <1>1, <1>2, RequestFacts
     DEF Unharmed, Forgotten, Working, Starting, Resumed, Placed, Stamps, Shapes, Files, Sources,
     Streams, Positions, Requests
<1>11. FaultsStayWithTheirRequest'
  BY <1>1 DEF FaultsStayWithTheirRequest, Finished
<1> QED
  BY <1>2, <1>4, <1>5, <1>6, <1>7, <1>8, <1>9, <1>10, <1>11 DEF Placed

\* The token marks the request.
LEMMA CancelKeeps ==
  ASSUME Inv, Cancel
  PROVE  Inv'
<1> USE DEF Inv, Setting, At
<1>1. /\ request' \in Requests /\ request'.pc = request.pc /\ request.pc # "idle"
      /\ request'.time = request.time /\ request'.faulted /\ request'.cancelled
      /\ request'.retried = request.retried /\ request'.after = request.after
      /\ UNCHANGED <<file, source, io, at, info, position, reply>>
  BY DEF Cancel, Shapes, Requests
<1>2. Shapes'
  BY <1>1, RequestFacts DEF Shapes
<1>3. Wanted' = Wanted /\ Wanted \in Nat
  BY <1>1, WantedFacts, WantedStays
<1>4. Bounds' /\ Owned'
  BY <1>1, <1>2, MediaAssumption, RequestFacts
     DEF Bounds, Owned, Shapes, Files, Sources, Streams, Positions, Requests
<1>5. Counted'
  BY <1>1, <1>2, MediaAssumption
     DEF Counted, CanSeek, Shapes, Files, Sources, Streams, Positions, Requests
<1>6. Learned'
  BY <1>1, <1>2 DEF Learned, AssetKnown, Shapes, Files, Sources, Streams, Positions, Requests
<1>7. FramesHeld'
  BY <1>1, <1>2, MediaAssumption, RequestFacts
     DEF Placed, FramesHeld, Stamps, Shapes, Files, Sources, Streams, Positions, Requests
<1>8. NoneHeld'
  BY <1>1, <1>2, MediaAssumption, RequestFacts
     DEF Placed, NoneHeld, Resumed, Shapes, Files, Sources, Streams, Positions, Requests
<1>9. Stamps'
  BY <1>1, <1>2, <1>3, MediaAssumption, RequestFacts
     DEF Placed, Stamps, HeldStamp, Resumed, Shapes, Files, Sources, Streams, Positions, Requests
<1>10. Unharmed'
  BY <1>1, <1>2, RequestFacts
     DEF Unharmed, Forgotten, Working, Starting, Resumed, Placed, Stamps, Shapes, Files, Sources,
     Streams, Positions, Requests
<1>11. FaultsStayWithTheirRequest'
  BY <1>1 DEF FaultsStayWithTheirRequest, Finished
<1> QED
  BY <1>2, <1>4, <1>5, <1>6, <1>7, <1>8, <1>9, <1>10, <1>11 DEF Placed

\* A file that grows takes nothing back.
LEMMA GrowKeeps ==
  ASSUME Inv, Grow
  PROVE  Inv'
<1> USE DEF Inv, Setting, At
<1>1. /\ file.length < MaxLength
      /\ file' \in Files /\ file'.setting = file.setting /\ file'.length = file.length + 1
      /\ file'.opened = file.opened /\ file'.refused = file.refused /\ file'.ended = file.ended
      /\ UNCHANGED <<source, io, at, info, position, request, reply>>
  BY DEF Grow, Shapes, Files
<1>2. Shapes'
  BY <1>1, RequestFacts DEF Shapes
<1>3. Wanted' = Wanted /\ Wanted \in Nat
  BY <1>1, WantedFacts, WantedStays
<1>4. Bounds' /\ Owned'
  BY <1>1, <1>2, MediaAssumption, RequestFacts
     DEF Bounds, Owned, Shapes, Files, Sources, Streams, Positions, Requests
<1>5. Counted'
  BY <1>1, <1>2, MediaAssumption
     DEF Counted, CanSeek, Shapes, Files, Sources, Streams, Positions, Requests
<1>6. Learned'
  BY <1>1, <1>2 DEF Learned, AssetKnown, Shapes, Files, Sources, Streams, Positions, Requests
<1>7. FramesHeld'
  BY <1>1, <1>2, MediaAssumption, RequestFacts
     DEF Placed, FramesHeld, Stamps, Shapes, Files, Sources, Streams, Positions, Requests
<1>8. NoneHeld'
  BY <1>1, <1>2, MediaAssumption, RequestFacts
     DEF Placed, NoneHeld, Resumed, Shapes, Files, Sources, Streams, Positions, Requests
<1>9. Stamps'
  BY <1>1, <1>2, <1>3, MediaAssumption, RequestFacts
     DEF Placed, Stamps, HeldStamp, Resumed, Shapes, Files, Sources, Streams, Positions, Requests
<1>10. Unharmed'
  BY <1>1, <1>2, RequestFacts
     DEF Unharmed, Forgotten, Working, Starting, Resumed, Placed, Stamps, Shapes, Files, Sources,
     Streams, Positions, Requests
<1>11. FaultsStayWithTheirRequest'
  BY <1>1 DEF FaultsStayWithTheirRequest, Finished, AssetKnown, Resumed
<1> QED
  BY <1>2, <1>4, <1>5, <1>6, <1>7, <1>8, <1>9, <1>10, <1>11 DEF Placed

\* An exception forgets the position, and marks the request.
LEMMA UnwindKeeps ==
  ASSUME Inv, Unwind
  PROVE  Inv'
<1> USE DEF Inv, Setting, At
<1>1. /\ request' \in Requests /\ request'.pc = "idle" /\ ~request'.faulted /\ reply' \in Replies
      /\ request.pc # "idle" /\ request.pc # "reopen" /\ reply'.faulted
      /\ position' = Nowhere
      /\ UNCHANGED <<file, source, io, at, info>>
  <2>1. reply'.faulted = (request.faulted \/ "outOfMemory" \in {"cancelled", "unusable", "outOfMemory"})
    BY FailFacts DEF Unwind, Statuses
  <2> QED
    BY <2>1, FailFacts DEF Unwind, Statuses
<1>2. Shapes'
  BY <1>1, RequestFacts DEF Shapes
<1>4. Bounds' /\ Owned'
  BY <1>1, <1>2, MediaAssumption, RequestFacts
     DEF Bounds, Owned, Shapes, Files, Sources, Streams, Positions, Requests
<1>5. Counted'
  BY <1>1, <1>2, MediaAssumption
     DEF Counted, CanSeek, Shapes, Files, Sources, Streams, Positions, Requests
<1>6. Learned'
  BY <1>1, <1>2 DEF Learned, AssetKnown, Shapes, Files, Sources, Streams, Positions, Requests
<1>7. FramesHeld'
  BY <1>1, <1>2, MediaAssumption, RequestFacts
     DEF Placed, FramesHeld, Stamps, Shapes, Files, Sources, Streams, Positions, Requests
<1>8. NoneHeld'
  BY <1>1, <1>2, MediaAssumption, RequestFacts
     DEF Placed, NoneHeld, Resumed, Shapes, Files, Sources, Streams, Positions, Requests
<1>9. Stamps'
  BY <1>1, <1>2, MediaAssumption, RequestFacts
     DEF Placed, Stamps, HeldStamp, Resumed, Shapes, Files, Sources, Streams, Positions, Requests
<1>10. Unharmed'
  BY <1>1, <1>2, RequestFacts
     DEF Unharmed, Forgotten, Working, Starting, Resumed, Placed, Stamps, Shapes, Files, Sources,
     Streams, Positions, Requests
<1>11. FaultsStayWithTheirRequest'
  BY <1>1 DEF FaultsStayWithTheirRequest, Finished
<1> QED
  BY <1>2, <1>4, <1>5, <1>6, <1>7, <1>8, <1>9, <1>10, <1>11 DEF Placed

-----------------------------------------------------------------------------
(* The invariant, and what follows from it.                                *)

\* Whatever was opened, nothing has been asked of it yet.
LEMMA InitKeeps ==
  ASSUME Init
  PROVE  Inv
<1>1. PICK s \in Settings, n \in 1..MaxLength :
        file = [setting |-> s, length |-> n, opened |-> n, ended |-> 0, refused |-> 0]
  BY DEF Init
<1>2. /\ source = [open |-> TRUE, interrupted |-> FALSE, failures |-> 0, lost |-> FALSE]
      /\ io = CleanIo /\ at = 1 /\ info = Opened(Probed, 0) /\ request = Idle
      /\ position = [Landed(TRUE) EXCEPT !.received = 0, !.held = 0]
      /\ reply = [status |-> "none", time |-> 0, frame |-> None, faulted |-> FALSE]
  BY DEF Init
<1>3. file \in Files /\ Setting \in Settings /\ Setting.origin \in Nat /\ CanSeek(0) \in BOOLEAN
  BY <1>1, MediaAssumption DEF Files, Setting, CanSeek
<1>4. /\ info \in Streams /\ info.start = Setting.origin /\ info.seekable = CanSeek(0)
      /\ info.duration = IF Setting.declares THEN file.length ELSE None
  BY <1>2, <1>3 DEF Opened, Probed, Streams, Files
<1>5. /\ position \in Positions /\ position.received = 0 /\ position.held = 0 /\ position.pending = None
      /\ ~position.ended /\ 0 # None
  BY <1>2, RequestFacts, MediaAssumption DEF Positions
<1>6. Shapes
  BY <1>2, <1>3, <1>4, <1>5, RequestFacts DEF Shapes, Sources, Replies, Statuses, Files
<1>7. /\ file.length \in Nat \ {0} /\ file.length <= MaxLength
      /\ file.opened = file.length /\ file.ended = 0 /\ file.refused = 0
  BY <1>1, MediaAssumption
<1>8. source.open /\ ~source.interrupted /\ source.failures = 0 /\ reply.status = "none" /\ at = 1
  BY <1>2
<1>9. request.pc = "idle" /\ ~request.faulted /\ ~io.error /\ ~io.eof
  BY <1>2, RequestFacts
<1>10. Bounds /\ Owned /\ Learned
  BY <1>4, <1>7, <1>8, <1>9, MediaAssumption DEF Bounds, Owned, Learned, AssetKnown, At, Setting
<1>11. Placed
  BY <1>5, <1>8, <1>9 DEF Placed, FramesHeld, NoneHeld, Stamps, HeldStamp, At
<1>12. Counted /\ Unharmed /\ FaultsStayWithTheirRequest
  BY <1>3, <1>4, <1>5, <1>7, <1>8, <1>9, MediaAssumption DEF Counted, Unharmed, Forgotten, Working, Starting,
     FaultsStayWithTheirRequest, Finished, At, Setting
<1> QED
  BY <1>6, <1>10, <1>11, <1>12 DEF Inv

\* Every step keeps it.
LEMMA NextKeeps ==
  ASSUME Inv, [Next]_vars
  PROVE  Inv'
<1>1. CASE Accept
  BY <1>1, AcceptKeeps
<1>2. CASE Recovers
  BY <1>2, RecoverCleanKeeps, RecoverKeeps, ReopenCancelledKeeps, ReopenKeeps, ReopenCutShortKeeps,
     ReopenFailsKeeps DEF Recovers
<1>3. CASE Moves
  BY <1>3, AnswerFromHeldKeeps, PositionKeeps, PositionUnseekableKeeps, SeekKeeps, SeekFailsKeeps,
     SeekInterruptedKeeps DEF Moves
<1>4. CASE Reads
  BY <1>4, ReadCancelledKeeps, ReadStaleErrorKeeps, ReadInterruptedKeeps, SkipToKeyFrameKeeps,
     ReadFrameKeeps, AnswerReadKeeps, AnswerHeldKeeps, AnswerFirstKeeps DEF Reads
<1>5. CASE Ends
  BY <1>5, EndOfStreamKeeps, BackOffKeeps, RetryKeeps DEF Ends
<1>6. CASE Environment
  BY <1>6, CancelKeeps, GrowKeeps, UnwindKeeps DEF Environment
<1>7. CASE UNCHANGED vars
  BY <1>7 DEF vars, Inv, Shapes, Bounds, Counted, CanSeek, Owned, Learned, AssetKnown, Placed, FramesHeld, NoneHeld,
     Stamps, HeldStamp, Wanted, Unharmed, Forgotten, Working, Starting, FaultsStayWithTheirRequest, Resumed,
     Finished, At, Setting
<1> QED
  BY <1>1, <1>2, <1>3, <1>4, <1>5, <1>6, <1>7 DEF Next

\* So it always holds.
LEMMA Invariance == Spec => []Inv
<1>1. Init => Inv
  BY InitKeeps
<1>2. Inv /\ [Next]_vars => Inv'
  BY NextKeeps
<1> QED
  BY <1>1, <1>2, PTL DEF Spec

\* Every record keeps its shape and every counter its bound, however often the source
\* is interrupted, refused and opened again.
THEOREM TypeCorrectness == Spec => []TypeOK
<1>1. Inv => TypeOK
  BY DEF Inv, Shapes, Files, Sources, Streams, Positions, Requests, Bounds, Counted, Owned, Placed, FramesHeld, TypeOK, At
<1> QED
  BY <1>1, Invariance, PTL

\* MediaSource and the pipeline's recovery: what an interrupt, a refused seek or a failed
\* read left behind does no harm to a later request nothing happened to.
THEOREM FaultsStay == Spec => []FaultsStayWithTheirRequest
<1>1. Inv => FaultsStayWithTheirRequest
  BY DEF Inv
<1> QED
  BY <1>1, Invariance, PTL

\* reopen(): the origin is the file's and the duration no shorter than declared, so that
\* FaultsStay speaks of every request, until a re-open has failed.
THEOREM KnownUntilLost == Spec => [](~source.lost => AssetKnown)
<1>1. Inv => (~source.lost => AssetKnown)
  BY DEF Inv, Learned
<1> QED
  BY <1>1, Invariance, PTL

\* noteSeekFailed(): seeking is given up for as many refusals in a row as
\* maxSeekFailures says, and for nothing else.
THEOREM GivenUpForCause == Spec => []SeekingIsGivenUpForCause
<1>1. Inv => SeekingIsGivenUpForCause
  BY DEF Inv, Counted, CanSeek, SeekingIsGivenUpForCause
<1> QED
  BY <1>1, Invariance, PTL

\* reopen(): while no re-open has failed, none moves the origin of the asset or
\* shortens its duration.
THEOREM AssetStands == Spec => AssetStandsStill
<1> DEFINE Stands ==
             ~source'.lost =>
               /\ info'.start = info.start
               /\ info.duration # None => info'.duration # None /\ info.duration <= info'.duration
<1>1. ASSUME Inv, [Next]_vars
      PROVE  Stands
  <2>1. /\ source \in Sources /\ info \in Streams
        /\ ~source.open => source.lost
    BY <1>1 DEF Inv, Shapes, Owned
  <2>2. ASSUME NEW p \in Probes, NEW sticky \in [error : BOOLEAN, eof : BOOLEAN], ReopenWith(p, sticky)
        PROVE  Stands
    BY <1>1, <2>1, <2>2, ReopenedFacts DEF Sources
  <2>3. CASE Reopen
    BY <1>1, <2>2, <2>3, ProbesFacts, RequestFacts DEF Reopen
  <2>4. CASE ReopenCutShort
    <3>1. PICK p \in CutShort, error \in BOOLEAN : ReopenWith(p, [error |-> error, eof |-> TRUE])
      BY <2>4 DEF ReopenCutShort
    <3> QED
      BY <1>1, <2>2, <3>1, ProbesFacts
  <2>5. CASE SeekFails \/ SeekInterrupted
    <3>1. info'.start = info.start /\ info'.duration = info.duration
      BY <2>1, <2>5 DEF SeekFails, SeekInterrupted, Streams
    <3> QED
      BY <2>1, <3>1 DEF Streams
  <2>6. CASE UNCHANGED info
    BY <2>1, <2>6 DEF Streams
  <2> QED
    BY <1>1, <2>3, <2>4, <2>5, <2>6 DEF Next, Recovers, Moves, Reads, Ends, Environment, vars, Accept, RecoverClean,
       Recover, ReopenCancelled, ReopenFails, AnswerFromHeld, Position, PositionUnseekable, Seek, ReadCancelled,
       ReadStaleError, ReadInterrupted, SkipToKeyFrame, ReadFrame, HoldReceived, AnswerRead, AnswerHeld,
       AnswerFirst, EndOfStream, BackOff, RetryAfterEmptyEof, Cancel, Grow, Unwind
<1>2. Inv /\ [Next]_vars => [Stands]_vars
  BY <1>1
<1> QED
  BY <1>2, Invariance, PTL DEF Spec, AssetStandsStill

=============================================================================
