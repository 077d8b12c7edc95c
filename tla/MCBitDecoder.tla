----------------------------- MODULE MCBitDecoder -----------------------------
(***************************************************************************)
(* The decoder with short transmissions.                                   *)
(***************************************************************************)
EXTENDS BitDecoder

Receive(messages, phases, inverted, clearings) ==
    {[sent |-> m, phase |-> p, inverted |-> inverted, clearings |-> clearings] :
        m \in messages, p \in phases}

\* Characters of a NOAA message ('Z', '-', space, '@'): where two of them meet,
\* up to eight bits in a row are equal.  The last pair makes a run of nine, the
\* longest the free-running clock bridges.
MCBytes == {90, 45, 32, 64}
MCPreamble == <<SYNC_BYTE, SYNC_BYTE, SYNC_BYTE>>
MCMessages ==
    {MCPreamble \o <<b, c>> : b, c \in MCBytes} \cup {MCPreamble \o <<224, 63>>}
MCClean == Receive(MCMessages, {0, 1, 191, 242, 293, 383, 575}, 0, {})

\* Late starts, of the two kinds that differ in what the bit clock skips.
MCLateMessages == {<<SYNC_BYTE>> \o MCPreamble \o <<45, 90>>}
MCLate == Receive(MCLateMessages, {243, 266, 267, 290, 292}, 0, {})

\* Any two samples of a message inverted.
MCNoisy == Receive({MCPreamble \o <<90, 32>>}, {0, 300}, 2, {})

\* A message given up at different places, and another one after it.
\* In the second message a sync byte lies across two others.
MCTwoMessages ==
    {MCPreamble \o <<90, 48>> \o MCPreamble \o <<45>>,
     MCPreamble \o <<176, 250>> \o MCPreamble \o <<45>>}
MCGivenUp == Receive(MCTwoMessages, {0, 300}, 0, {645, 646, 700, 780, 853, 871, 910})

\* The same with a sample inverted, before or after.
MCNoisyGivenUp ==
    Receive({MCPreamble \o <<90, 31>> \o MCPreamble \o <<45>>}, {0, 300}, 1, {700, 853})

MCScenarios == MCClean \cup MCLate \cup MCNoisy \cup MCGivenUp \cup MCNoisyGivenUp
===============================================================================
