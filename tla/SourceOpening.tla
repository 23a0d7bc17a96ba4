--------------------------- MODULE SourceOpening ---------------------------
(* Which stream of a container open() takes, and why it takes none: the     *)
(* ladder of MediaSource::open() in detail/MediaSource.h.  The streams are  *)
(* a sequence of records                                                    *)
(*   video      a video stream, as libavformat counts them                  *)
(*   decoder    this build has a decoder for it                             *)
(*   art        an attached picture                                         *)
(*   declared   its pixels as the header declares them, 0 if it does not    *)
(*   size       its pixels once stream info has been read                   *)
(* and the wishes a record of the options it reads: cap, index, art.        *)
EXTENDS Integers, Sequences, FiniteSetsExt

CONSTANT Unset      \* std::nullopt for a cap or an index

ASSUME UnsetAssumption == Unset \notin Int

Video(streams) == {i \in DOMAIN streams : streams[i].video}
Decodable(streams) == {i \in Video(streams) : streams[i].decoder}

IsOver(pixels, wishes) == wishes.cap # Unset /\ pixels > wishes.cap

\* mutant: one stream over the cap is enough
IsAnyOversized(streams, wishes) == \E i \in Video(streams) : IsOver(streams[i].declared, wishes)

\* checkDeclaredSize(): refused before anything is decoded if every video stream
\* already declares more than the cap.
IsDeclaredOversized(streams, wishes) ==
  Video(streams) # {} /\ \A i \in Video(streams) : IsOver(streams[i].declared, wishes)

\* av_find_best_stream(): one of those it may choose from.
Candidates(set, wishes) == {i \in set : wishes.index \in {Unset, i}}

\* Cover art gives way to the first decodable stream that is none.
IsUnwantedArt(i, streams, wishes) == streams[i].art /\ ~wishes.art /\ wishes.index = Unset

Pictures(streams) == {i \in Decodable(streams) : ~streams[i].art}

No(status) == [status |-> status, stream |-> 0]

Admit(i, streams, wishes) ==
  IF IsOver(streams[i].size, wishes) THEN No("unsupportedFormat") ELSE [status |-> "open", stream |-> i]

\* What is left of the ladder once stream info has been read.
Chosen(streams, wishes) ==
  LET best == Candidates(Decodable(streams), wishes)
  IN IF best = {}
     THEN {No(IF Candidates(Video(streams), wishes) # {} THEN "decoderNotFound"
               ELSE IF wishes.index # Unset THEN "invalidArgument" ELSE "noVideoStream")}
     ELSE {IF ~IsUnwantedArt(i, streams, wishes) THEN Admit(i, streams, wishes)
           ELSE IF Pictures(streams) = {} THEN No("noVideoStream")
           ELSE Admit(Min(Pictures(streams)), streams, wishes) : i \in best}

Outcomes(streams, wishes) ==
  IF IsDeclaredOversized(streams, wishes) THEN {No("oversized")} ELSE Chosen(streams, wishes)

=============================================================================
