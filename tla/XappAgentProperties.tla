-------------------------- MODULE XappAgentProperties --------------------------
(***************************************************************************)
(* What must be true of the xApp agent of XappAgent.                       *)
(***************************************************************************)
EXTENDS XappAgent

TypeOK ==
    /\ sent \in 0..MaxReports
    /\ {frames, UnDecode, Decoded} \subseteq Seq(Report)
    /\ RicMsg \in Seq(Command)
    /\ RLInput \in Seq(Snapshot)
    /\ {mainRunning, dispatching, arranging} \subseteq BOOLEAN
    /\ flush \in Seq({FlushOrder[i] : i \in DOMAIN FlushOrder})
    /\ receivedReports \subseteq Marks
    /\ stale \subseteq Marks
    /\ recorded \subseteq Marks
    /\ Input \in Rows
    /\ cellId_imsi \in Rows
    /\ {decoding, updating} \subseteq Report \cup {Nothing}
    /\ updatePc \in {"idle", "record", "check", "put", "reset", "dead"}
    /\ {copied, deciding} \subseteq Snapshot \cup {Nothing}
    /\ {proposed, moves} \subseteq Moves

Old(r) == IF r = Nothing THEN 0 ELSE IF r.old THEN 1 ELSE 0

OldReports ==
    Cardinality({i \in DOMAIN UnDecode : UnDecode[i].old})
      + Cardinality({i \in DOMAIN Decoded : Decoded[i].old})
      + Old(decoding) + Old(updating) + Cardinality(stale)

\* The flush after a command is there to decide the next one from reports that
\* came later.  What it misses, the items the threads hold while it runs, is
\* bounded: one report in each of two threads, and one snapshot.
FlushLeavesFewOldReports ==
    flush = <<>> =>
        /\ OldReports <= 2
        /\ Cardinality({i \in DOMAIN RLInput : RLInput[i].stale > 2}) <= 1

\* A snapshot is complete: each of its rows and columns was written since the
\* snapshot before it, whenever main() resets the table in between.
SnapshotsAreComplete ==
    [][Len(RLInput') > Len(RLInput) => recorded = Marks]_vars

\* The arrangement drops a vehicle only when its move is part of a circle, in
\* which no RSU can be vacated first.
OnlyCirclesAreDropped ==
    [][arranging /\ ~arranging' =>
          {moves[c] : c \in DOMAIN moves} = DOMAIN moves]_vars

\* Decisions are made for ever: no flush starves the next snapshot.
DecisionsGoOn == []<><<GetRLInput>>_vars

\* A command that is queued makes the main loop send one.
CommandsAreSent == RicMsg # <<>> ~> flush # <<>>
================================================================================
