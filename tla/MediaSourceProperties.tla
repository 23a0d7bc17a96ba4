----------------------- MODULE MediaSourceProperties -----------------------
(* What one request may do to the next ones through the source.             *)
EXTENDS MediaSource

\* Every record has its shape, and every counter its bound.
TypeOK ==
  /\ file.setting \in Settings /\ file.length \in 0..MaxLength /\ {file.opened, file.ended} \subseteq 0..file.length
  /\ {source.failures, file.refused} \subseteq 0..MaxSeekFailures
  /\ {source.open, source.interrupted, source.lost, io.error, io.eof, info.seekable} \subseteq BOOLEAN
  /\ at \in 0..file.length
  /\ info.start \in Nat /\ info.duration \in 0..file.length \cup {None}
  /\ {position.positioned, position.atStart, position.ended} \subseteq BOOLEAN
  /\ {position.received, position.held, position.pending} \subseteq 0..file.length \cup {None}
  /\ request.pc \in {"idle", "recover", "reopen", "position", "seek", "read"}
  /\ ~At("idle") /\ ~At("reopen") => source.open

Finished == At("idle") /\ reply.status # "none"

\* What was learned of the asset when it was opened stands: no re-open, however
\* interrupted, moves its origin or shortens its duration, so that no time once
\* legitimate is refused later.  (A re-open that failed forgets both.)
AssetStandsStill ==
  [][~source'.lost =>
       /\ info'.start = info.start
       /\ info.duration # None => info'.duration # None /\ info.duration <= info'.duration]_vars

\* The same without the exception.
AssetAlwaysStandsStill ==
  [][/\ info'.start = info.start
     /\ info.duration # None => info'.duration # None /\ info.duration <= info'.duration]_vars

\* What a probe cut short after a failed re-open may have replaced.
AssetKnown == info.start = Setting.origin /\ (info.duration # None => file.opened <= info.duration)

\* A source that cannot seek goes on, after an interrupt, from wherever it stopped.
Resumed == ~info.seekable /\ position.positioned /\ ~position.atStart

\* A request nothing happened to is unharmed by what happened to the ones before
\* it: it gets its frame, or is refused because the stream, or a pipe, does not
\* have it.  Where the source had to be resumed, the frames lost with the decoder
\* are never answered by another one unflagged: the first one still to be had, a
\* key frame past the target, says that it is not what was asked for.  A pipe whose
\* I/O cannot be cleared in place is beyond recovery, and so is the count of the
\* frames of a source without time stamps.
FaultsStayWithTheirRequest ==
  Finished /\ ~reply.faulted /\ AssetKnown /\ (Setting.rewinds \/ Setting.verified) =>
    \/ reply.status = "ok" /\ reply.frame = reply.time
    \/ reply.status = "timeOutOfRange" /\ reply.time >= file.ended
    \/ reply.status = "refused" /\ reply.time > file.opened
    \/ reply.status = "notSeekable" /\ ~Setting.rewinds
    \/ Resumed /\ reply.status = "endOfStream"
    \/ Resumed /\ reply.status = "clampedToFirst" /\ reply.frame > reply.time /\ reply.frame \in KeyFrames
    \/ Resumed /\ ~Setting.stamped

\* No answer that is not flagged shows another frame, of a source without time stamps neither.
AnswersShowTheirTime ==
  Finished /\ ~reply.faulted /\ reply.status = "ok" => reply.frame = reply.time

\* Seeking is given up exactly when as many seeks in a row were refused as
\* maxSeekFailures says, whatever was interrupted or re-opened in between.
SeekingIsGivenUpForCause ==
  Setting.rewinds /\ Setting.stamped => (info.seekable <=> file.refused < MaxSeekFailures)

\* Every request ends.
EveryRequestEnds == ~At("idle") ~> At("idle")

=============================================================================
