------------------------------ MODULE MCStorage -----------------------------
(* Small instances of the card and of the tables in shared memory.  A       *)
(* behaviour is of one of them, or of the string functions: its part.       *)
EXTENDS SdCardDxe, SmemTables

VARIABLE part

Nothing == [i \in 1..StrCells |-> "NUL"]
NoStrings == [dst |-> Nothing, src |-> Nothing, set |-> {}, c |-> "NUL", siz |-> 0]
everything == <<part, sdVars, tabVars, strArgs>>

\* The card's options are tried with the fast card, its clock already running;
\* the parts that a behaviour is not of have a single start.
Init ==
  /\ part \in {"card", "tables", "strings"}
  /\ part # "tables" => smem = CHOOSE m \in Smems : TRUE
  /\ part # "strings" => strArgs = NoStrings
  /\ SdInit /\ TabInit /\ StrInit
  /\ mmcBuild.mult > 1 <=> sdCard.kind.fast
  /\ sdcc.hclk = IF mmcBuild.mult > 1 THEN {SDC_INSTANCE} ELSE {}
  /\ part # "card" => sdCard.kind = CHOOSE c \in Cards : ~c.fast

Next ==
  \/ part = "card" /\ SdNext /\ UNCHANGED <<part, tabVars, strArgs>>
  \/ part = "tables" /\ TabNext /\ UNCHANGED <<part, sdVars, strArgs>>
  \/ part = "strings" /\ StrNext /\ UNCHANGED <<part, sdVars, tabVars>>

\* The driver goes on, the card gets ready and writes its blocks, and the
\* controller reports what it has done.
Card(A) == part = "card" /\ A /\ UNCHANGED <<sdPc, media, sdReq>>

FairSpec ==
  /\ Init /\ [][Next]_everything
  /\ WF_sdVars(Card(MmcDriverStep)) /\ WF_sdVars(Card(CardPowersUp))
  /\ WF_sdVars(Card(CardProgrammed)) /\ WF_sdVars(Card(BlockEnds)) /\ WF_sdVars(Card(ProgDone))
  /\ WF_sdVars(part = "card" /\ (CardInitialized \/ SearchedBlock \/ BlocksDone))

CardKind(hc, spec, csd, bl, fast, mbr) ==
  [hc |-> hc, spec |-> spec, csd |-> csd, blLen |-> bl, units |-> 2 * bl, fast |-> fast, mbr |-> mbr]

\* An old card, one of 1024-byte blocks, one of high capacity, and one whose
\* CSD is of a later version.
MCCards ==
  {CardKind(FALSE, 0, 0, 1, FALSE, 0), CardKind(FALSE, 1, 0, 2, FALSE, 1),
   CardKind(TRUE, 2, 1, 1, TRUE, 1), CardKind(TRUE, 2, 2, 1, FALSE, 0)}

\* The build's options and the others; 256 blocks at a time are scaled to 2.
MCBuilds ==
  {[mult |-> 1, fourBit |-> FALSE, highSpeed |-> FALSE],
   [mult |-> 2, fourBit |-> TRUE, highSpeed |-> TRUE]}

MCDataFaults == {"data_crc_fail", "data_timeout", "rx_overrun", "tx_underrun", "adm_error"}
MCSizes == {0, 256, 1024}

\* Shared memories: names with and without colons, equal last parts, none.
MCAppsName == <<"0", ":", "A", "NUL">>

MCNames == {MCAppsName, <<"A", "NUL">>, <<":", "NUL">>, <<"NUL">>, <<"0", ":", "0", ":", "NUL">>}

MCSmems ==
  LET pairs == [1..2 -> MCNames]
      flash == [allocated : {TRUE, FALSE}, words : {18}, magic : {TRUE}, version : {3, 4},
                parts : {[i \in 1..2 |-> [name |-> n[i], start |-> i]] : n \in pairs}]
               \cup [allocated : {TRUE}, words : {12, 26}, magic : BOOLEAN, version : {4, 5},
                     parts : {[i \in 1..3 |-> [name |-> MCAppsName, start |-> i]]}]
      ram == [allocated : {TRUE}, version : {2, 3},
              parts : {<<[type |-> t, category |-> "IMEM", start |-> 1], [type |-> "SYS_MEMORY", category |-> "SDRAM", start |-> 2]>> :
                         t \in {"SYS_MEMORY", "APPSBL_MEMORY"}}]
  IN [flash : flash, ram : ram]
=============================================================================
