---------------------- MODULE SecondaryHandoverProperties ----------------------
(***************************************************************************)
(* What must be true of the secondary-cell handover of SecondaryHandover.  *)
(***************************************************************************)
EXTENDS SecondaryHandover

\* Where the handover of a UE is: a message, the UE between two cells, or the
\* UE's answer.  A handover that failed is nowhere any more.

\* Message m on link l belongs to the handover of u.
Concerns(l, m, u) ==
    CASE m.type \in {"McHandoverRequest", "HandoverRequest",
                     "SecondaryCellHandoverCompleted"} -> m.imsi = u
      [] m.type = "HandoverRequestAck" ->
            Known(l[2], m.oldRnti) /\ ueMap[l[2]][m.oldRnti].imsi = u
      [] OTHER -> FALSE

\* The cell that handover message m on link l leads to.
LeadsTo(l, m) == CASE m.type = "McHandoverRequest" -> m.target
                   [] m.type = "HandoverRequest" -> l[2]
                   [] OTHER -> l[1]

\* The messages of u's handover, as links and positions.
InFlight(u) ==
    {<<"x2", p[1], p[2]>> : p \in
        {q \in UNION {{l} \X DOMAIN x2[l] : l \in Links} :
            Concerns(q[1], x2[q[1]][q[2]], u)}}

\* The steps a handover of u is at: one when it is under way.
HandoverSteps(u) ==
    InFlight(u)
      \cup {<<"command", u, i>> : i \in DOMAIN rrcDown[u]}
      \cup {<<"completed", u, i>> : i \in DOMAIN rrcUp[u]}
      \cup {s \in {<<"UE", u, 1>>} : ue[u].state = "CONNECTED_HANDOVER"}

HeadingTo(u) ==
    {LeadsTo(s[2], x2[s[2]][s[3]]) : s \in InFlight(u)}
      \cup {rrcDown[u][i].cell : i \in DOMAIN rrcDown[u]}
      \cup {rrcUp[u][i].cell : i \in DOMAIN rrcUp[u]}
      \cup {c \in {ue[u].cell} : ue[u].state = "CONNECTED_HANDOVER"}

----------------------------------------------------------------------------
TypeOK ==
    /\ anchor \in [Imsis -> AnchorUe]
    /\ allowHandoverTo \in [Cells -> BOOLEAN]
    /\ ueMap \in [Cells -> [Rntis -> UeManager \cup {NoUe}]]
    /\ imsiRntiMap \in [Cells -> [Imsis -> 0..MaxRnti]]
    /\ lastRnti \in [Cells -> 0..MaxRnti]
    /\ teids \in [Cells -> SUBSET Imsis]
    /\ removals \subseteq Cells \X Rntis
    /\ ue \in [Imsis -> Ue]
    /\ DOMAIN x2 = Links /\ \A l \in Links : x2[l] \in Seq(Message(l))
    /\ rrcDown \in [Imsis -> Seq(CellRnti)]
    /\ rrcUp \in [Imsis -> Seq(CellRnti)]
    /\ switches \in [Imsis -> Seq(BOOLEAN)]
    /\ commands \in 0..MaxCommands
    /\ outages \in 0..MaxOutages

\* No assertion and no fatal error of the handover code is reached, whatever
\* the order in which X2 delivers and whenever outages interleave: but for an SN
\* STATUS TRANSFER that, where LateStatus lets it, comes after its UE manager
\* was released by the next handover.
NoFatalError ==
    aborted # Running => LateStatus /\ aborted = StatusWithoutManager

\* A rejected request, a missing preamble or a failed random access leads to no
\* assertion: the simulator stops only over a control that names the cell the
\* UE is on (EpcX2 has no interface to it), a rejection that meets a switch to
\* LTE, which has overwritten m_targetCellId, or, where LateStatus lets it, an
\* SN STATUS TRANSFER that comes after its manager was released.
FailuresAreSurvived ==
    aborted # Running =>
        \/ aborted = StatusWithoutManager /\ LateStatus
        \/ aborted = "no X2 interface to the target" /\ StaleCommands
        \/ aborted = "cellId == m_targetCellId" /\ outages > 0

\* With timeouts, which remove managers that messages are still under way to,
\* the assertions that can fail are those about a manager that is gone, the
\* missing branch for the failure notice, and the two of FailuresAreSurvived.
\* Those about the state, the target or the TEID of a manager do not fail: no
\* late message is taken by a manager that another handover has created since.
LateMessagesMeetNoStranger ==
    aborted # Running =>
        \/ aborted \in {"UE manager not found", StatusWithoutManager,
                        "ProcedureCode NOT SUPPORTED"}
        \/ aborted = "no X2 interface to the target" /\ StaleCommands
        \/ aborted = "cellId == m_targetCellId" /\ outages > 0

\* A handover of a UE starts only when the one before it is over
\* (m_mmWaveCellSetupCompleted): X2, RRC and the UE never carry two, and none
\* is left over when the anchor believes it is complete.
HandoversAreSerial ==
    \A u \in Imsis : /\ \A s, t \in HandoverSteps(u) : s = t
                     /\ anchor[u].setup => HandoverSteps(u) = {}

\* As long as nothing fails, a UE the anchor holds to be on handover really is:
\* the flag that blocks every further command is not left behind.
NoLostHandover ==
    \A u \in Imsis : ~anchor[u].setup => HandoverSteps(u) # {}

\* When no handover is under way, the cell and the RNTI the anchor would use
\* next are those of a live UE manager that holds the UE and can prepare a
\* handover, and the UE listens to that cell.
AnchorKnowsServingManager ==
    \A u \in Imsis : anchor[u].setup =>
        LET c == anchor[u].last
            r == anchor[u].rnti
        IN  /\ anchor[u].cell = c
            /\ Known(c, r)
            /\ ueMap[c][r].imsi = u
            /\ ueMap[c][r].state = "CONNECTED_NORMALLY"
            /\ imsiRntiMap[c][u] = r
            /\ ue[u].state = "CONNECTED_NORMALLY"
            /\ ue[u].cell = c
            /\ ue[u].rnti = r

\* A UE manager that was created is removed in the end: every one is the
\* serving manager, the source or target of the handover under way, or awaits
\* a release that has been sent.
NoOrphanedManager ==
    \A c \in Cells, r \in Rntis : Known(c, r) =>
        LET u == ueMap[c][r].imsi
        IN  \/ anchor[u].cell = c /\ anchor[u].rnti = r
            \/ HandoverSteps(u) # {} /\ imsiRntiMap[c][u] = r /\ c \in HeadingTo(u)
            \/ \E i \in DOMAIN x2[<<Lte, c>>] :
                  x2[<<Lte, c>>][i] = [type |-> "UeContextRelease", oldRnti |-> r]

\* A cell forwards the downlink data of a UE exactly while a manager of it is
\* leaving: forwarding starts with the handover command and ends with the
\* release.
ForwardsWhileLeaving ==
    \A c \in Cells : teids[c] = {ueMap[c][r].imsi :
        r \in {s \in Rntis : /\ Known(c, s)
                             /\ ueMap[c][s].state = "HANDOVER_LEAVING"}}

\* A cell the anchor bars serves a UE or is about to: the bar that keeps other
\* UEs out is always lifted when the UE that caused it goes elsewhere.
BarredCellsAreClaimed ==
    \A c \in Cells : ~allowHandoverTo[c] =>
        \E u \in Imsis : anchor[u].last = c \/ c \in HeadingTo(u)

\* Once the switch messages are delivered, a UE whose anchor has moved it to
\* LTE does not send over mmWave.
UplinkLeavesMmWaveInOutage ==
    \A u \in Imsis :
        anchor[u].usingLte /\ switches[u] = <<>> => ~ue[u].useMmWave

\* The anchor never runs ahead of the UE: it moves the UE's serving cell only
\* to the cell the UE has already completed its random access in.
AnchorFollowsUe ==
    [][\A u \in Imsis : anchor'[u].last # anchor[u].last =>
          /\ ue[u].cell = anchor'[u].last
          /\ ue[u].state = "CONNECTED_NORMALLY"]_vars

\* Without failures, a handover that starts completes, so the UE can be
\* commanded again.
HandoversComplete ==
    \A u \in Imsis : ~anchor[u].setup ~> anchor[u].setup

service == INSTANCE HandoverService WITH
    serving <- [u \in Imsis |-> anchor[u].last],
    target <- [u \in Imsis |-> IF anchor[u].setup THEN NoCell
                               ELSE CHOOSE c \in Cells : c \in HeadingTo(u)]

\* Without failures, the anchor, the cells and the UEs implement the service:
\* each started handover takes the UE to the commanded cell.
ImplementsHandoverService == service!Spec

----------------------------------------------------------------------------
\* What the code says of itself and does not keep

\* When the handover is acknowledged, "the buffers are forwarded to
\* m_targetCellId, which is set in PrepareHandover": to the target cell.
BuffersGoToTarget ==
    [][\A l \in Links : RecvHandoverRequestAck(l) /\ aborted' = Running =>
          ueMap[l[2]][Head(x2[l]).oldRnti].target = l[1]]_vars
================================================================================
