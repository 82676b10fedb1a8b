--------------------------- MODULE SentenceBuffer ---------------------------
(***************************************************************************)
(* SentenceBuffer (streaming.rs 65-120): feed cuts complete sentences off  *)
(* the text that has come in so far, finish returns what is left.          *)
(*                                                                         *)
(* A character is one of three: a stop (. ! ?), whitespace, or any other.  *)
(* The loop of feed is a loop of steps: one sentence is cut in each.       *)
(***************************************************************************)
EXTENDS Naturals, Sequences, FiniteSets, FiniteSetsExt

CONSTANTS
  Chunks,  \* texts a call of feed may bring
  MaxText  \* bound: characters fed to one buffer

Stop   == "."
Space  == "_"
Letter == "a"
Text   == Seq({Stop, Space, Letter})

ASSUME ChunkAssumption == Chunks \subseteq Text /\ MaxText \in Nat

VARIABLES
  pending,    \* SentenceBuffer.pending
  sentences,  \* what feed has found so far
  feeding,    \* a call of feed is in its loop
  rest,       \* what finish returned, in a sequence of at most one
  fed,        \* history: the whole text ...
  cuts,       \* ... and its lengths when a feed ended
  finished    \* finish() has consumed the buffer

sentenceVars == <<pending, sentences, feeding, rest, fed, cuts, finished>>

SentenceInit ==
  /\ pending = <<>> /\ sentences = <<>> /\ feeding = FALSE
  /\ rest = <<>> /\ fed = <<>> /\ cuts = {} /\ finished = FALSE

Inked(s) == {i \in DOMAIN s : s[i] # Space}

TrimStart(s) == IF Inked(s) = {} THEN <<>> ELSE SubSeq(s, Min(Inked(s)), Len(s))
Trim(s)      == IF Inked(s) = {} THEN <<>> ELSE SubSeq(s, Min(Inked(s)), Max(Inked(s)))

\* (mutant: a stop always ends a sentence)
Boundaries_AnyStop(s) == {i \in DOMAIN s : s[i] = Stop}

\* A stop before whitespace, or at the end of what is there.
Boundaries(s) == {i \in DOMAIN s : s[i] = Stop /\ (i = Len(s) \/ s[i + 1] = Space)}

Feed ==
  /\ ~finished /\ ~feeding
  /\ \E chunk \in Chunks :
       /\ Len(fed) + Len(chunk) <= MaxText
       /\ pending' = pending \o chunk
       /\ fed' = fed \o chunk
  /\ feeding' = TRUE /\ cuts' = cuts \cup {Len(fed')}
  /\ UNCHANGED <<sentences, rest, finished>>

\* Cut at the first boundary as long as there is one.
CutSentence ==
  /\ feeding /\ Boundaries(pending) # {}
  /\ LET boundary == Min(Boundaries(pending))
         sentence == Trim(SubSeq(pending, 1, boundary))
     IN  /\ pending' = TrimStart(SubSeq(pending, boundary + 1, Len(pending)))
         /\ sentences' = IF sentence = <<>> THEN sentences ELSE Append(sentences, sentence)
  /\ UNCHANGED <<feeding, rest, fed, cuts, finished>>

Fed ==
  /\ feeding /\ Boundaries(pending) = {}
  /\ feeding' = FALSE
  /\ UNCHANGED <<pending, sentences, rest, fed, cuts, finished>>

Finish ==
  /\ ~finished /\ ~feeding
  /\ rest' = IF Trim(pending) = <<>> THEN <<>> ELSE <<Trim(pending)>>
  /\ pending' = <<>>
  /\ finished' = TRUE
  /\ UNCHANGED <<sentences, feeding, fed, cuts>>

SentenceNext == Feed \/ CutSentence \/ Fed \/ Finish

SentenceSpec == SentenceInit /\ [][SentenceNext]_sentenceVars

-----------------------------------------------------------------------------
(* Properties *)

\* Where the whole text is cut: after a stop before whitespace, and after a stop
\* at which a feed happened to end ("3." and then "14").
Ends == {k \in DOMAIN fed : fed[k] = Stop /\ (k \in cuts \/ fed[k + 1] = Space)}

EndBefore(k) == Max({0} \cup {e \in Ends : e < k})

Rank(k) == Cardinality({e \in Ends : e <= k})

\* However the text is split over calls of feed, the sentences returned are the
\* pieces between its ends, each trimmed, in order and once, and finish
\* returns the last piece: no character but whitespace is lost or doubled.
SplitsExactly ==
  ~feeding =>
    LET last == Trim(SubSeq(fed, Max({0} \cup Ends) + 1, Len(fed))) IN
    /\ Len(sentences) = Cardinality(Ends)
    /\ \A k \in Ends : sentences[Rank(k)] = Trim(SubSeq(fed, EndBefore(k) + 1, k))
    /\ IF finished THEN rest = IF last = <<>> THEN <<>> ELSE <<last>>
                   ELSE Trim(pending) = last
=============================================================================
