---------------------------- MODULE StorageProofs ---------------------------
(***************************************************************************)
(* The SD card: for all cards, builds and faults, the blocks end where     *)
(* they were asked for and the card is driven as its protocol has it.      *)
(* A function of mmc.c is a list of steps; the proof carries along what    *)
(* the driver may count on before the steps that are left, a view, and     *)
(* that these steps lead from this view to the end of the function.        *)
(***************************************************************************)
EXTENDS SdCardDxe, SequenceTheorems, TLAPS

-----------------------------------------------------------------------------
(* Views, and what a step asks of a view and makes of it.                   *)

Selected == {"tran", "data", "rcv", "prog"}
States == Selected \cup {"idle", "ready", "ident", "stby"}
Phases == {"none", "set", "moved", "checked", "written", "kept"}

\* The card's state, an application command to come, the length of blocks
\* set, PROG_DONE asked for, the SCR read, and how far the round's block is.
Views == [state : States, app : BOOLEAN, whole : BOOLEAN, armed : BOOLEAN,
          scr : BOOLEAN, phase : Phases]

\* The block a round is for: its number, the card, and whether blocks were
\* asked for that are not on it.
Targets == [at : Nat, kind : Cards, off : BOOLEAN]

UnitFor(b, a) == IF b.kind.hc THEN a ELSE a \div BLOCK_SIZE
OnCard(b, k) == b.off \/ b.at + k <= b.kind.units

CmdAllows(c, a, v, b) ==
  /\ c \in DOMAIN AllowedIn /\ v.state \in AllowedIn[c]
  /\ v.state = "prog" => "tran" \in AllowedIn[c]
  /\ c = "CMD0" => v.state = "idle"
  /\ c \in AppCmds => v.app
  /\ c \in BlockCmds => /\ b.kind.hc \/ v.whole
                        /\ UnitFor(b, a) = b.at /\ OnCard(b, 1) /\ v.phase = "none"
  /\ ~v.armed

\* fall: the views in which a test may fail.
Allows(x, v, b, fall) ==
  /\ x.op = "cmd" => CmdAllows(x.cmd, x.arg, v, b)
  /\ x.op \in {"rx", "adm"} =>
       /\ v.state = "data" /\ ~v.armed /\ x.arg \in Nat
       /\ IF x.arg > 0 THEN v.phase = "set" /\ OnCard(b, x.arg) ELSE v.phase = "none"
  /\ x.op = "adm" => x.arg > 0
  /\ x.op = "scr" => v.state = "data" /\ ~v.armed /\ ~v.scr /\ v.phase = "none"
  /\ x.op = "tx" => v.state = "rcv" /\ ~v.armed /\ v.phase = "set" /\ OnCard(b, 1)
  /\ x.op = "check" => (v.phase = "moved" => x.arg = 0) /\ (v.phase = "written" => x.arg = 1)
  /\ x.op \in {"clear", "clear_end"} => v.phase \notin {"moved", "written"}
  /\ x.op = "prog" => v.armed /\ v.state = "prog"
  /\ x.op \in {"spec", "fast", "refuse"} => v \in fall
  /\ x.op # "stuck"

StateNext(c, s) ==
  CASE c \in {"CMD2"} -> "ident" [] c = "CMD3" -> "stby" [] c = "ACMD41" -> "ready"
    [] c \in {"CMD7", "CMD12"} -> "tran" [] c = "CMD24" -> "rcv"
    [] c \in {"ACMD51", "ACMD13", "CMD6", "CMD17", "CMD18"} -> "data"
    [] OTHER -> s

CmdLeads(c, a, v) ==
  [v EXCEPT !.state = StateNext(c, @), !.app = c = "CMD55",
     !.whole = IF c = "CMD16" THEN a = BLOCK_SIZE ELSE @ \/ c = "CMD0",
     !.armed = c = "CMD13_PROG",
     !.phase = IF c \in BlockCmds THEN "set" ELSE @]

Leads(x, v) ==
  CASE x.op = "cmd" -> CmdLeads(x.cmd, x.arg, v)
    [] x.op \in {"rx", "adm"} ->
         [v EXCEPT !.state = IF x.op = "adm" /\ x.arg > 1 THEN @ ELSE "tran",
                   !.phase = IF x.arg > 0 THEN "moved" ELSE @]
    [] x.op = "scr" -> [v EXCEPT !.state = "tran", !.scr = TRUE]
    [] x.op = "tx" -> [v EXCEPT !.state = "prog", !.phase = "written"]
    [] x.op = "check" -> [v EXCEPT !.phase = IF @ = "moved" THEN "checked"
                                             ELSE IF @ = "written" THEN "kept" ELSE @]
    [] x.op = "prog" -> [v EXCEPT !.state = "tran", !.armed = FALSE]
    [] OTHER -> v

\* The steps of list, one after the other, lead from v into goal; a refusal
\* does not come back.
Path(list, v, h, b, fall) ==
  /\ h[0] = v
  /\ \A i \in 1..Len(list) :
       /\ h[i] \in Views
       /\ Allows(list[i], h[i - 1], b, fall)
       /\ list[i].op # "refuse" => h[i] = Leads(list[i], h[i - 1])

Ops == {"cmd", "rx", "adm", "scr", "tx", "check", "clear", "clear_end", "prog", "spec", "fast",
        "refuse", "stuck"}
Commands == {"CMD0", "CMD2", "CMD3", "CMD6", "CMD7", "CMD8", "CMD9", "CMD10", "CMD12", "CMD13",
             "CMD13_PROG", "CMD16", "CMD17", "CMD18", "CMD24", "CMD55",
             "ACMD6", "ACMD13", "ACMD41", "ACMD51"}
Steps == [op : Ops, cmd : Commands \cup {""}, arg : Nat]

LeadsTo(list, v, goal, b, fall) ==
  /\ v \in Views /\ list \in Seq(Steps)
  /\ \E h \in [0..Len(list) -> Views] : Path(list, v, h, b, fall) /\ h[Len(list)] \in goal

-----------------------------------------------------------------------------
(* The inductive invariant.                                                 *)

Target == [at |-> mmcCall.blk, kind |-> sdCard.kind, off |-> sdCard.off]

\* Before stage n, in a transfer, and where a test may fail.
InTran(v) == v.state = "tran" /\ ~v.armed /\ v.scr

Identified == {v \in Views : v.state = "stby" /\ ~v.armed /\ ~v.scr /\ v.phase = "none"}
Transferring == {v \in Views : InTran(v) /\ v.phase = "none"}
Ready == {v \in Views : InTran(v) /\ v.whole}

Goal ==
  CASE mmcCall.kind = "init" /\ mmcCall.stage = 1 -> Identified
    [] mmcCall.kind = "init" /\ mmcCall.stage \in 2..4 -> Transferring
    [] mmcCall.kind = "read" -> {v \in Ready : v.phase = "checked"}
    [] mmcCall.kind = "write" -> {v \in Ready : v.phase = "kept"}
    [] OTHER -> Ready

Fall == IF mmcCall.kind \in {"read", "write"} THEN Ready ELSE Transferring

Damaged(dir) ==
  /\ (sdcc.flags \cup sdcc.coming) \cap ErrorsSeen(dir) # {}
  /\ "blk_end" \notin sdcc.flags \cup sdcc.coming

\* What a view says of the card and the controller whatever has gone wrong.
Holds(v) ==
  /\ v.state \in Selected => sdCard.state \in Selected
  /\ v.scr => mmcDrv.scrValid
  /\ v.phase # "none" => sdCard.unit = mmcCall.blk
  /\ v.phase = "set" => sdcc.coming = {}
  /\ v.phase = "moved" => (sdCard.fresh => sdCard.good \/ Damaged(0))
  /\ v.phase = "written" => (sdCard.fresh => sdCard.good \/ Damaged(1))
  /\ v.phase \in {"checked", "kept"} => (sdCard.fresh => sdCard.good)
  /\ v.phase \in {"written", "kept"} =>
       (sdCard.good => mmcCall.blk < sdCard.kind.units /\ sdCard.disk[mmcCall.blk] = mmcCall.run)

\* What it says as long as nothing has.
HoldsWell(v) ==
  /\ (sdcc.flags \cup sdcc.coming) \cap Errors = {}
  /\ sdCard.state = v.state \/ (v.state = "prog" /\ sdCard.state = "tran")
  /\ v.app => sdCard.app
  /\ v.whole => sdCard.blocklen = BLOCK_SIZE
  /\ sdcc.armed \/ "prog_done" \in sdcc.flags => v.armed
  /\ "prog_done" \in sdcc.flags => ~sdcc.armed /\ sdCard.state # "prog"
  /\ "prog_done" \notin sdcc.coming

Well == mmcFaults = 0 /\ ~sdCard.off
Shows(v) == Holds(v) /\ (Well => HoldsWell(v))

\* The driver is at work on the card, or may be called to it.
Stopped == mmcRun.todo = <<>> /\ ~mmcRun.ok
Going ==
  /\ sdPc # "off"
  /\ \/ mmcCall.kind = "init" /\ (~Stopped \/ mmcCall.stage = 4)
     \/ mmcCall.kind \in {"read", "write"}
     \/ mmcCall.kind = "none" /\ mmcDrv.ready

Later == mmcCall.kind # "init" \/ mmcCall.stage >= 3

Stands(v) ==
  /\ Shows(v)
  /\ IF Stopped THEN v \in Fall
     ELSE \/ mmcRun.todo = <<Do("stuck", 0)>> /\ mmcFaults > 0
          \/ LeadsTo(mmcRun.todo, v, Goal, Target, Fall)
  /\ Later => v.state \in Selected /\ v.scr

DriverStands == Going => \E v \in Views : Stands(v)

\* A card of high capacity is known for one when it has got ready.
CapacityFacts ==
  /\ sdCard.state # "idle" /\ sdCard.kind.hc => mmcDrv.highCapacity
  /\ ~sdCard.kind.hc => ~mmcDrv.highCapacity

\* The clocks and what was read stay.
ClockFacts ==
  /\ mmcDrv.dev.ops => mmcDrv.ready /\ mmcDrv.dev.blksz # 0
  /\ mmcDrv.ready => mmcCall.stage = 5
  /\ mmcCall.stage >= 4 /\ sdPc # "off" => sdcc.mclk[SDC_INSTANCE] >= 25000
  /\ mmcCall.stage >= 1 /\ sdPc # "off" => SDC_INSTANCE \in sdcc.hclk
  /\ sdcn.mclk = 0

\* Before the driver starts nothing has happened.
StartFacts ==
  sdPc = "start" =>
    /\ mmcCall = [kind |-> "none", stage |-> 0, blk |-> 0, left |-> 0, run |-> 0]
    /\ sdCard.state = "idle" /\ ~sdCard.app /\ sdCard.blocklen = BLOCK_SIZE
    /\ ~sdCard.off /\ sdCard.legal
    /\ sdcc.mclk[SDC_INSTANCE] = 0 /\ sdcc.flags = {} /\ sdcc.coming = {} /\ ~sdcc.armed
    /\ mmcRun = [todo |-> <<>>, ok |-> TRUE] /\ ~mmcDrv.ready

InCall == mmcCall.kind \in {"read", "write"}

\* Which call runs where the driver stands.
Places ==
  /\ sdPc = "init" => mmcCall.kind \in {"init", "none"}
  /\ InCall <=> sdPc \in {"search", "ready", "CpuDeadLoop", "off"}
  /\ InCall => mmcDrv.dev.ops /\ mmcDrv.ready
  /\ sdPc \in {"CpuDeadLoop", "off"} => Stopped
  /\ sdPc = "ready" /\ sdReq.status # "pending" => Stopped
  /\ sdReq.status = "pending" => sdPc = "ready"
  /\ sdPc \in {"fault", "DEVICE_ERROR"} => mmcCall.kind = "none"
  /\ mmcCall.kind = "init" =>
       /\ sdPc = "init" /\ mmcCall.stage >= 1 /\ ~mmcDrv.ready
       /\ mmcCall.blk = 0 /\ mmcCall.run = 0 /\ ~sdCard.off

\* What is left to run, and what the call has got.
RunFacts ==
  /\ mmcRun.todo # <<>> => mmcRun.ok
  /\ mmcCall.kind = "none" => mmcRun.todo = <<>> /\ (mmcDrv.ready => mmcRun.ok)
  /\ ~InCall => mmcGot = <<>>
  /\ mmcCall.kind = "write" /\ ~Stopped /\ LeastOf(mmcBuild.mult, mmcCall.left) # 1 =>
       mmcRun.todo = <<Do("refuse", 0)>>

\* A call's numbers are those of its blocks.
Base == mmcCall.blk - mmcCall.run
CallFacts ==
  InCall =>
    /\ mmcCall.run \in 0..mmcCall.blk
    /\ ~Stopped => mmcCall.left >= 1
    /\ ~sdCard.off => mmcCall.blk + mmcCall.left <= sdCard.kind.units
    /\ Len(mmcGot) = mmcCall.run
    /\ \A k \in 1..mmcCall.run :
         mmcGot[k].unit = Base + k - 1 /\ (mmcGot[k].fresh => mmcGot[k].good)
    /\ \A u \in DOMAIN sdCard.disk : sdCard.disk[u] # -1 =>
         u = Base + sdCard.disk[u] /\ u < mmcCall.blk + mmcCall.left
    /\ mmcCall.kind = "write" =>
         \A j \in 0..(mmcCall.run - 1) : mmcGot[j + 1].good => sdCard.disk[Base + j] = j

\* A request is the call that is made for it.
RequestFacts ==
  /\ sdPc \in {"search", "ready"} =>
       media = [last |-> mmcDrv.dev.lba, blksz |-> mmcDrv.dev.blksz]
  /\ sdPc \in {"start", "init", "search"} => sdReq = NoReq
  /\ sdReq.status = "pending" => mmcCall.kind = sdReq.kind /\ sdReq.size > 0
  /\ sdReq.size > 0 /\ sdReq.status \in {"pending", "SUCCESS"} =>
       /\ sdReq.kind = mmcCall.kind
       /\ sdReq.lba = Base
       /\ Whole => (mmcCall.run + mmcCall.left) * BLOCK_SIZE = sdReq.size

\* What each variable holds.
Flags == Errors \cup {"blk_end", "data_end", "prog_done"}
Stages == {"start", "init", "search", "ready", "off", "fault", "CpuDeadLoop", "DEVICE_ERROR"}
CardSet == [kind : Cards, state : States, app : BOOLEAN, up : BOOLEAN, blocklen : Nat,
            unit : Nat, good : BOOLEAN, fresh : BOOLEAN, legal : BOOLEAN, off : BOOLEAN,
            disk : UNION {[0..(k.units - 1) -> Int] : k \in Cards}]
ControllerSet == [mclk : [1..4 -> Nat], hclk : SUBSET (1..4), pins : SUBSET (1..4),
                  flags : SUBSET Flags, coming : SUBSET Flags,
                  clk : SUBSET {"enable", "pwrsave", "flow", "wide", "feedback"}, armed : BOOLEAN]
DriverSet == [scrValid : BOOLEAN, hcSupport : BOOLEAN, highCapacity : BOOLEAN,
              dev : [ops : BOOLEAN, blksz : Nat, lba : Nat], ready : BOOLEAN]
RunSet == [todo : Seq(Steps), ok : BOOLEAN]
CallSet == [kind : {"none", "init", "read", "write"}, stage : 0..5, blk : Nat, left : Nat,
           run : Nat]
GotSet == [unit : Nat, good : BOOLEAN, fresh : BOOLEAN]
RequestSet == [kind : {"none", "read", "write"}, lba : Nat, size : Nat,
               status : {"-", "pending", "SUCCESS", "DEVICE_ERROR", "BAD_BUFFER_SIZE",
                         "INVALID_PARAMETER"}]

TypesOK ==
  /\ mmcBuild \in Builds
  /\ sdCard \in CardSet /\ sdCard.disk \in [0..(sdCard.kind.units - 1) -> Int]
  /\ sdcc \in ControllerSet
  /\ sdcn \in [mclk : Nat, hclk : BOOLEAN]
  /\ mmcDrv \in DriverSet
  /\ mmcRun \in RunSet
  /\ mmcCall \in CallSet
  /\ mmcGot \in Seq(GotSet)
  /\ mmcFaults \in 0..MaxFaults
  /\ sdPc \in Stages
  /\ media \in [last : Nat, blksz : Nat]
  /\ sdReq \in RequestSet

Facts == CapacityFacts /\ ClockFacts /\ StartFacts /\ Places /\ RunFacts /\ CallFacts
         /\ RequestFacts

SdInv == TypesOK /\ DriverStands /\ Facts /\ CommandsLegal /\ DeinitRestores

-----------------------------------------------------------------------------
(* Lists of steps.                                                          *)

\* The states each command is allowed in, spelt out.
LEMMA AllowedValues ==
  /\ DOMAIN AllowedIn = Commands
  /\ AllowedIn["CMD8"] = {"idle"} /\ AllowedIn["ACMD41"] = {"idle"}
  /\ AllowedIn["CMD2"] = {"ready"} /\ AllowedIn["CMD3"] = {"ident"}
  /\ \A c \in {"CMD9", "CMD10", "CMD7"} : AllowedIn[c] = {"stby"}
  /\ \A c \in {"CMD16", "ACMD51", "ACMD6", "ACMD13", "CMD6", "CMD17", "CMD18", "CMD24"} :
       AllowedIn[c] = {"tran"}
  /\ AllowedIn["CMD12"] = {"data", "rcv"}
  /\ \A c \in {"CMD13", "CMD13_PROG"} : AllowedIn[c] = {"stby", "tran", "data", "rcv", "prog"}
  /\ AllowedIn["CMD55"] = {"idle", "stby", "tran", "data", "rcv", "prog"}
  /\ AllowedIn["CMD0"] = States
BY DEF AllowedIn, States, Selected, Commands

\* A command or a step of another kind is a step.
LEMMA StepTypes ==
  ASSUME NEW a \in Nat
  PROVE  /\ \A c \in Commands :
              Cmd(c, a) \in Steps /\ Cmd(c, a).op = "cmd" /\ Cmd(c, a).cmd = c /\ Cmd(c, a).arg = a
         /\ \A o \in Ops : Do(o, a) \in Steps /\ Do(o, a).op = o /\ Do(o, a).arg = a
<1>1. "cmd" \in Ops
  BY DEF Ops
<1>2. \A c \in Commands :
        Cmd(c, a) \in Steps /\ Cmd(c, a).op = "cmd" /\ Cmd(c, a).cmd = c /\ Cmd(c, a).arg = a
  BY <1>1 DEF Cmd, Steps
<1>3. \A o \in Ops : Do(o, a) \in Steps /\ Do(o, a).op = o /\ Do(o, a).arg = a
  BY DEF Do, Steps
<1> QED BY <1>2, <1>3

\* The fields of a step.
LEMMA StepFields ==
  ASSUME NEW x \in Steps
  PROVE  x.op \in Ops /\ x.cmd \in Commands \cup {""} /\ x.arg \in Nat
BY DEF Steps

\* What a command makes of a view, field by field.
LEMMA CmdView ==
  ASSUME NEW v \in Views, NEW c, NEW a \in Nat, NEW w, w = CmdLeads(c, a, v)
  PROVE  /\ w \in Views
         /\ w.state = StateNext(c, v.state) /\ w.app = (c = "CMD55")
         /\ w.whole = (IF c = "CMD16" THEN a = BLOCK_SIZE ELSE v.whole \/ c = "CMD0")
         /\ w.armed = (c = "CMD13_PROG") /\ w.scr = v.scr
         /\ w.phase = (IF c \in BlockCmds THEN "set" ELSE v.phase)
<1>1. StateNext(c, v.state) \in States
  BY DEF StateNext, States, Selected, Views
<1>2. (IF c = "CMD16" THEN a = BLOCK_SIZE ELSE v.whole \/ c = "CMD0") \in BOOLEAN
  BY DEF Views
<1>3. (IF c \in BlockCmds THEN "set" ELSE v.phase) \in Phases
  BY DEF Views, Phases
<1>4. (c = "CMD55") \in BOOLEAN /\ (c = "CMD13_PROG") \in BOOLEAN
  OBVIOUS
<1>5. w = [state |-> StateNext(c, v.state), app |-> c = "CMD55",
           whole |-> IF c = "CMD16" THEN a = BLOCK_SIZE ELSE v.whole \/ c = "CMD0",
           armed |-> c = "CMD13_PROG", scr |-> v.scr,
           phase |-> IF c \in BlockCmds THEN "set" ELSE v.phase]
  BY DEF CmdLeads, Views
<1>6. v.scr \in BOOLEAN
  BY DEF Views
<1> QED BY <1>1, <1>2, <1>3, <1>4, <1>5, <1>6 DEF Views

\* Whatever a step makes of a view is a view.
LEMMA LeadsView ==
  ASSUME NEW v \in Views, NEW x \in Steps
  PROVE  Leads(x, v) \in Views
<1>1. x.arg \in Nat
  BY DEF Steps
<1>2. CASE x.op = "cmd"
  <2>1. Leads(x, v) = CmdLeads(x.cmd, x.arg, v)
    BY <1>2 DEF Leads
  <2> QED BY <1>1, <2>1, CmdView
<1>3. CASE x.op # "cmd"
  <2>1. v.state \in States /\ v.phase \in Phases /\ v.app \in BOOLEAN /\ v.whole \in BOOLEAN
        /\ v.armed \in BOOLEAN /\ v.scr \in BOOLEAN
    BY DEF Views
  <2>2. \A s \in States, p \in Phases :
          /\ [v EXCEPT !.state = s, !.phase = p] \in Views
          /\ [v EXCEPT !.phase = p] \in Views
          /\ [v EXCEPT !.state = s, !.scr = TRUE] \in Views
          /\ [v EXCEPT !.state = s, !.armed = FALSE] \in Views
    BY DEF Views
  <2>3. {"tran", "prog"} \subseteq States /\ {"moved", "checked", "written",
        "kept"} \subseteq Phases
    BY DEF States, Selected, Phases
  <2>4. CASE x.op \in {"rx", "adm"}
    <3> DEFINE s == IF x.op = "adm" /\ x.arg > 1 THEN v.state ELSE "tran"
               p == IF x.arg > 0 THEN "moved" ELSE v.phase
    <3>1. s \in States /\ p \in Phases
      BY <2>1, <2>3
    <3>2. Leads(x, v) = [v EXCEPT !.state = s, !.phase = p]
      BY <2>4, <1>3 DEF Leads
    <3> HIDE DEF s, p
    <3> QED BY <3>1, <3>2, <2>2
  <2>5. CASE x.op = "scr"
    BY <2>5, <2>2, <2>3 DEF Leads
  <2>6. CASE x.op = "tx"
    BY <2>6, <2>2, <2>3 DEF Leads
  <2>7. CASE x.op = "check"
    <3> DEFINE p == IF v.phase = "moved" THEN "checked" ELSE IF v.phase = "written" THEN "kept"
        ELSE v.phase
    <3>1. p \in Phases
      BY <2>1, <2>3
    <3>2. Leads(x, v) = [v EXCEPT !.phase = p]
      BY <2>7 DEF Leads
    <3> HIDE DEF p
    <3>3. [v EXCEPT !.phase = p] \in Views
      BY <3>1, <2>1, <2>2
    <3> QED BY <3>2, <3>3
  <2>8. CASE x.op = "prog"
    BY <2>8, <2>2, <2>3 DEF Leads
  <2>9. CASE x.op \notin {"rx", "adm", "scr", "tx", "check", "prog"}
    BY <2>9, <1>3 DEF Leads
  <2> QED BY <2>4, <2>5, <2>6, <2>7, <2>8, <2>9
<1> QED BY <1>2, <1>3

\* With no steps left the view is the goal's.
LEMMA NoSteps ==
  ASSUME NEW v, NEW goal, NEW b, NEW fall
  PROVE  LeadsTo(<<>>, v, goal, b, fall) <=> v \in Views /\ v \in goal
<1>1. ASSUME LeadsTo(<<>>, v, goal, b, fall)
      PROVE  v \in Views /\ v \in goal
  BY <1>1 DEF LeadsTo, Path
<1>2. ASSUME v \in Views, v \in goal
      PROVE  LeadsTo(<<>>, v, goal, b, fall)
  <2> DEFINE h == [i \in 0..0 |-> v]
  <2>1. h \in [0..Len(<<>>) -> Views] /\ h[0] = v
    BY <1>2
  <2>2. Path(<<>>, v, h, b, fall)
    BY <2>1 DEF Path
  <2>3. h[Len(<<>>)] \in goal /\ <<>> \in Seq(Steps)
    BY <2>1, <1>2
  <2> HIDE DEF h
  <2> QED BY <2>1, <2>2, <2>3, <1>2 DEF LeadsTo
<1> QED BY <1>1, <1>2

\* The first step is allowed, and the others lead on from what it makes of
\* the view.
LEMMA FirstStep ==
  ASSUME NEW t, t # <<>>, NEW v, NEW goal, NEW b, NEW fall, LeadsTo(t, v, goal, b, fall)
  PROVE  /\ t[1] \in Steps /\ Tail(t) \in Seq(Steps)
         /\ Allows(t[1], v, b, fall)
         /\ t[1].op # "refuse" => LeadsTo(Tail(t), Leads(t[1], v), goal, b, fall)
<1>1. t \in Seq(Steps) /\ v \in Views
  BY DEF LeadsTo
<1>2. PICK h \in [0..Len(t) -> Views] : Path(t, v, h, b, fall) /\ h[Len(t)] \in goal
  BY DEF LeadsTo
<1>3. Len(t) \in Nat /\ Len(t) >= 1 /\ t[1] \in Steps /\ Tail(t) \in Seq(Steps)
      /\ Len(Tail(t)) = Len(t) - 1 /\ \A i \in 1..Len(Tail(t)) : Tail(t)[i] = t[i + 1]
  BY <1>1
<1>4. Allows(t[1], v, b, fall) /\ (t[1].op # "refuse" => h[1] = Leads(t[1], v)) /\ h[1] \in Views
  BY <1>2, <1>3 DEF Path
<1>5. ASSUME t[1].op # "refuse"
      PROVE  LeadsTo(Tail(t), Leads(t[1], v), goal, b, fall)
  <2> DEFINE g == [i \in 0..Len(Tail(t)) |-> h[i + 1]]
  <2>1. g \in [0..Len(Tail(t)) -> Views] /\ g[0] = Leads(t[1], v) /\ g[Len(Tail(t))] \in goal
    BY <1>2, <1>3, <1>4, <1>5
  <2>2. ASSUME NEW i \in 1..Len(Tail(t))
        PROVE  /\ g[i] \in Views
               /\ Allows(Tail(t)[i], g[i - 1], b, fall)
               /\ Tail(t)[i].op # "refuse" => g[i] = Leads(Tail(t)[i], g[i - 1])
    <3>1. i + 1 \in 1..Len(t) /\ g[i] = h[i + 1] /\ g[i - 1] = h[i] /\ Tail(t)[i] = t[i + 1]
          /\ (i + 1) - 1 = i
      BY <1>3
    <3>2. /\ h[i + 1] \in Views
          /\ Allows(t[i + 1], h[(i + 1) - 1], b, fall)
          /\ t[i + 1].op # "refuse" => h[i + 1] = Leads(t[i + 1], h[(i + 1) - 1])
      BY <3>1, <1>2 DEF Path
    <3> HIDE DEF g
    <3> QED BY <3>1, <3>2
  <2>3. Path(Tail(t), Leads(t[1], v), g, b, fall)
    BY <2>1, <2>2 DEF Path
  <2>4. Leads(t[1], v) \in Views
    BY <1>4, <1>5
  <2> HIDE DEF g
  <2> QED BY <2>1, <2>3, <2>4, <1>3 DEF LeadsTo
<1> QED BY <1>3, <1>4, <1>5

\* A step that is allowed, before steps that lead on.
LEMMA OneMore ==
  ASSUME NEW t \in Seq(Steps), t # <<>>, NEW v \in Views, NEW goal, NEW b, NEW fall,
         Allows(t[1], v, b, fall), LeadsTo(Tail(t), Leads(t[1], v), goal, b, fall)
  PROVE  LeadsTo(t, v, goal, b, fall)
<1> DEFINE w == Leads(t[1], v)
<1>1. PICK g \in [0..Len(Tail(t)) -> Views] : Path(Tail(t), w, g, b, fall)
      /\ g[Len(Tail(t))] \in goal
  BY DEF LeadsTo
<1>2. Len(t) \in Nat /\ Len(t) >= 1 /\ Len(Tail(t)) = Len(t) - 1
      /\ \A i \in 1..Len(Tail(t)) : Tail(t)[i] = t[i + 1]
  OBVIOUS
<1> DEFINE h == [i \in 0..Len(t) |-> IF i = 0 THEN v ELSE g[i - 1]]
<1>3. h \in [0..Len(t) -> Views] /\ h[0] = v /\ h[Len(t)] \in goal
      /\ \A i \in 1..Len(t) : h[i] = g[i - 1]
  BY <1>1, <1>2
<1>4. g[0] = w
  BY <1>1 DEF Path
<1>5. ASSUME NEW i \in 1..Len(t)
      PROVE  /\ h[i] \in Views
             /\ Allows(t[i], h[i - 1], b, fall)
             /\ t[i].op # "refuse" => h[i] = Leads(t[i], h[i - 1])
  <2>1. h[i] \in Views
    BY <1>3
  <2>2. CASE i = 1
    <3>1. h[1] = w /\ h[0] = v
      BY <1>3, <1>4, <1>2
    <3> HIDE DEF h
    <3> QED BY <3>1, <2>1, <2>2
  <2>3. CASE i # 1
    <3>1. i - 1 \in 1..Len(Tail(t)) /\ h[i] = g[i - 1] /\ h[i - 1] = g[(i - 1) - 1]
          /\ Tail(t)[i - 1] = t[i]
      BY <1>2, <1>3, <2>3
    <3>2. /\ Allows(Tail(t)[i - 1], g[(i - 1) - 1], b, fall)
          /\ Tail(t)[i - 1].op # "refuse" => g[i - 1] = Leads(Tail(t)[i - 1], g[(i - 1) - 1])
      BY <3>1, <1>1 DEF Path
    <3> HIDE DEF h, w
    <3> QED BY <3>1, <3>2, <2>1
  <2> QED BY <2>2, <2>3
<1>6. Path(t, v, h, b, fall)
  BY <1>3, <1>5 DEF Path
<1> HIDE DEF h, w
<1> QED BY <1>3, <1>6 DEF LeadsTo

\* A function that calls another leads where the two lead, one after the other.
LEMMA Joined ==
  ASSUME NEW a, NEW c \in Seq(Steps), NEW v, NEW mid, NEW goal, NEW b, NEW fall,
         LeadsTo(a, v, mid, b, fall),
         \A w \in mid \cap Views : LeadsTo(c, w, goal, b, fall)
  PROVE  LeadsTo(a \o c, v, goal, b, fall)
<1>1. a \in Seq(Steps) /\ v \in Views
  BY DEF LeadsTo
<1>2. PICK g \in [0..Len(a) -> Views] : Path(a, v, g, b, fall) /\ g[Len(a)] \in mid
  BY DEF LeadsTo
<1>3. Len(a) \in Nat /\ Len(c) \in Nat
  BY <1>1
<1>4. g[Len(a)] \in mid \cap Views
  BY <1>2, <1>3
<1>5. PICK k \in [0..Len(c) -> Views] : Path(c, g[Len(a)], k, b, fall) /\ k[Len(c)] \in goal
  BY <1>4 DEF LeadsTo
<1>6. k[0] = g[Len(a)] /\ g[0] = v
  BY <1>2, <1>5 DEF Path
<1>7. /\ a \o c \in Seq(Steps) /\ Len(a \o c) = Len(a) + Len(c)
      /\ \A i \in 1..Len(a) : (a \o c)[i] = a[i]
      /\ \A i \in (Len(a) + 1)..(Len(a) + Len(c)) : (a \o c)[i] = c[i - Len(a)]
  BY <1>1
<1> DEFINE m == Len(a)
           n == Len(c)
           h == [i \in 0..(m + n) |-> IF i <= m THEN g[i] ELSE k[i - m]]
<1>8. /\ h \in [0..Len(a \o c) -> Views] /\ h[0] = v
      /\ \A i \in 0..m : h[i] = g[i]
      /\ \A i \in m..(m + n) : h[i] = k[i - m]
  <2>0. m \in Nat /\ n \in Nat
    BY <1>3
  <2> HIDE DEF m, n
  <2>1. ASSUME NEW i \in 0..(m + n)
        PROVE  (IF i <= m THEN g[i] ELSE k[i - m]) \in Views
    <3>1. CASE i <= m
      <4>1. i \in 0..m
        BY <3>1, <2>0
      <4> QED BY <4>1, <3>1, <1>2 DEF m
    <3>2. CASE ~(i <= m)
      <4>1. i - m \in 0..n
        BY <3>2, <2>0
      <4> QED BY <4>1, <3>2, <1>5 DEF n
    <3> QED BY <3>1, <3>2
  <2>2. h \in [0..(m + n) -> Views]
    BY <2>1
  <2>3. h[0] = v /\ \A i \in 0..m : h[i] = g[i]
    BY <2>0, <1>6
  <2>4. \A i \in m..(m + n) : h[i] = k[i - m]
    <3>1. TAKE i \in m..(m + n)
    <3>2. CASE i = m
      <4>1. h[i] = g[m] /\ i - m = 0
        BY <3>2, <2>0, <2>3
      <4> QED BY <4>1, <1>6 DEF m
    <3>3. CASE i # m
      BY <3>1, <3>3, <2>0
    <3> QED BY <3>2, <3>3
  <2> HIDE DEF h
  <2> QED BY <2>2, <2>3, <2>4, <1>7 DEF m, n
<1>9. h[Len(a \o c)] \in goal
  BY SMTT(30), <1>8, <1>7, <1>3, <1>5
<1> HIDE DEF h
<1>10. ASSUME NEW i \in 1..Len(a \o c)
       PROVE  /\ h[i] \in Views
              /\ Allows((a \o c)[i], h[i - 1], b, fall)
              /\ (a \o c)[i].op # "refuse" => h[i] = Leads((a \o c)[i], h[i - 1])
  <2>1. h[i] \in Views
    BY <1>8
  <2>2. CASE i <= Len(a)
    <3>0. i \in 1..Len(a) /\ i \in 0..Len(a) /\ i - 1 \in 0..Len(a)
      BY <2>2, <1>3, <1>7
    <3>1. i \in 1..Len(a) /\ h[i] = g[i] /\ h[i - 1] = g[i - 1] /\ (a \o c)[i] = a[i]
      BY <3>0, <1>7, <1>8
    <3>2. Allows(a[i], g[i - 1], b, fall) /\ (a[i].op # "refuse" => g[i] = Leads(a[i], g[i - 1]))
      BY <3>1, <1>2 DEF Path
    <3> QED BY <3>1, <3>2, <2>1
  <2>3. CASE i > Len(a)
    <3> DEFINE j == i - Len(a)
    <3>0. /\ j \in 1..Len(c) /\ i \in (m + 1)..(m + n) /\ i \in m..(m + n)
          /\ i - 1 \in m..(m + n) /\ (i - 1) - m = j - 1
      BY <2>3, <1>3, <1>7
    <3>1. j \in 1..Len(c) /\ h[i] = k[j] /\ h[i - 1] = k[j - 1] /\ (a \o c)[i] = c[j]
      BY <3>0, <1>7, <1>8
    <3> HIDE DEF j
    <3>2. Allows(c[j], k[j - 1], b, fall) /\ (c[j].op # "refuse" => k[j] = Leads(c[j], k[j - 1]))
      BY <3>1, <1>5 DEF Path
    <3> QED BY <3>1, <3>2, <2>1
  <2> QED BY <2>2, <2>3, <1>3, <1>7
<1>11. Path(a \o c, v, h, b, fall)
  BY <1>8, <1>10 DEF Path
<1> QED BY <1>1, <1>7, <1>8, <1>9, <1>11 DEF LeadsTo

\* What each command does to the card's state in a view.
LEMMA StateNexts ==
  ASSUME NEW s
  PROVE  /\ \A c \in {"CMD0", "CMD8", "CMD55", "CMD9", "CMD10", "CMD16", "ACMD6", "CMD13",
            "CMD13_PROG"} :
              StateNext(c, s) = s
         /\ StateNext("CMD2", s) = "ident" /\ StateNext("CMD3", s) = "stby"
         /\ StateNext("ACMD41", s) = "ready"
         /\ StateNext("CMD7", s) = "tran" /\ StateNext("CMD12", s) = "tran"
         /\ StateNext("CMD24", s) = "rcv"
         /\ \A c \in {"ACMD51", "ACMD13", "CMD6", "CMD17", "CMD18"} : StateNext(c, s) = "data"
BY DEF StateNext

\* A command of no block, which neither asks for PROG_DONE: what it needs,
\* and what it makes of a view.
LEMMA PlainCmd ==
  ASSUME NEW x \in Steps, x.op = "cmd", x.cmd \in Commands \ (BlockCmds \cup {"CMD13_PROG"}),
         NEW v \in Views, v.state \in AllowedIn[x.cmd], v.state = "prog"
           => "tran" \in AllowedIn[x.cmd],
         x.cmd = "CMD0" => v.state = "idle", x.cmd \in AppCmds => v.app, ~v.armed,
         NEW w, w = Leads(x, v)
  PROVE  /\ \A b, fall : Allows(x, v, b, fall)
         /\ w \in Views /\ w.state = StateNext(x.cmd, v.state) /\ (x.cmd = "CMD55" => w.app)
           /\ ~w.armed
         /\ (x.cmd = "CMD16" /\ x.arg = BLOCK_SIZE => w.whole)
           /\ (x.cmd # "CMD16" /\ v.whole => w.whole)
         /\ (v.scr => w.scr) /\ (~v.scr => ~w.scr) /\ w.phase = v.phase
<1>1. x.cmd \in Commands /\ x.cmd \notin BlockCmds /\ x.cmd # "CMD13_PROG" /\ x.arg \in Nat
  BY StepFields
<1>2. ASSUME NEW b, NEW fall
      PROVE  Allows(x, v, b, fall)
  <2>1. CmdAllows(x.cmd, x.arg, v, b)
    BY <1>1, AllowedValues DEF CmdAllows
  <2> QED BY <2>1 DEF Allows
<1>3. w = CmdLeads(x.cmd, x.arg, v)
  BY DEF Leads
<1>4. /\ w \in Views /\ w.state = StateNext(x.cmd, v.state) /\ w.app = (x.cmd = "CMD55")
      /\ w.whole = (IF x.cmd = "CMD16" THEN x.arg = BLOCK_SIZE ELSE v.whole \/ x.cmd = "CMD0")
      /\ w.armed = (x.cmd = "CMD13_PROG") /\ w.scr = v.scr
      /\ w.phase = (IF x.cmd \in BlockCmds THEN "set" ELSE v.phase)
  BY <1>1, <1>3, CmdView
<1>5. w.phase = v.phase
  BY <1>4, <1>1
<1>6. ~w.armed
  BY <1>4, <1>1
<1>7. x.cmd = "CMD55" => w.app
  BY <1>4
<1>8. (x.cmd = "CMD16" /\ x.arg = BLOCK_SIZE => w.whole) /\ (x.cmd # "CMD16" /\ v.whole => w.whole)
  BY <1>4
<1> QED BY <1>2, <1>4, <1>5, <1>6, <1>7, <1>8

\* What the steps that are not commands make of a view.
LEMMA DoView ==
  ASSUME NEW x \in Steps, x.op # "cmd", NEW v \in Views, NEW w, w = Leads(x, v)
  PROVE  /\ w \in Views /\ w.app = v.app /\ w.whole = v.whole
         /\ (x.op # "scr" => w.scr = v.scr) /\ (x.op = "scr" => w.scr)
         /\ (x.op # "prog" => w.armed = v.armed) /\ (x.op = "prog" => ~w.armed)
         /\ x.op \in {"rx", "scr", "prog"} => w.state = "tran"
         /\ x.op = "adm" => w.state = IF x.arg > 1 THEN v.state ELSE "tran"
         /\ x.op = "tx" => w.state = "prog" /\ w.phase = "written"
         /\ x.op \in {"rx", "adm"} => w.phase = IF x.arg > 0 THEN "moved" ELSE v.phase
         /\ x.op = "check" => w.phase = IF v.phase = "moved" THEN "checked"
                                        ELSE IF v.phase = "written" THEN "kept" ELSE v.phase
         /\ x.op \in {"check", "clear", "clear_end", "spec", "fast", "refuse", "stuck"}
           => w.state = v.state
         /\ x.op \in {"scr", "prog", "clear", "clear_end", "spec", "fast", "refuse", "stuck"}
           => w.phase = v.phase
<1>1. w \in Views
  BY LeadsView
<1>2. CASE x.op = "check"
  <2>1. PICK p : p = IF v.phase = "moved" THEN "checked" ELSE IF v.phase = "written" THEN "kept"
        ELSE v.phase
    OBVIOUS
  <2>2. w = [v EXCEPT !.phase = p]
    BY <1>2, <2>1 DEF Leads
  <2>3. w = [v EXCEPT !.state = v.state, !.phase = p, !.scr = v.scr, !.armed = v.armed]
    BY <2>2 DEF Views
  <2>4. w.state = v.state /\ w.phase = p /\ w.scr = v.scr /\ w.armed = v.armed /\ w.app = v.app
        /\ w.whole = v.whole
    BY <2>3 DEF Views
  <2> QED BY <1>1, <2>1, <2>4, <1>2
<1>3. CASE x.op \in {"rx", "adm"}
  <2>1. PICK p, s : /\ p = IF x.arg > 0 THEN "moved" ELSE v.phase
                    /\ s = IF x.op = "adm" /\ x.arg > 1 THEN v.state ELSE "tran"
    OBVIOUS
  <2>2. w = [v EXCEPT !.state = s, !.phase = p]
    BY <1>3, <2>1 DEF Leads
  <2>3. w = [v EXCEPT !.state = s, !.phase = p, !.scr = v.scr, !.armed = v.armed]
    BY <2>2 DEF Views
  <2>4. w.state = s /\ w.phase = p /\ w.scr = v.scr /\ w.armed = v.armed /\ w.app = v.app
        /\ w.whole = v.whole
    BY <2>3 DEF Views
  <2> QED BY <1>1, <2>1, <2>4, <1>3
<1>4. CASE x.op = "scr"
  <2>1. w = [v EXCEPT !.state = "tran", !.scr = TRUE]
    BY <1>4 DEF Leads
  <2>2. w = [v EXCEPT !.state = "tran", !.phase = v.phase, !.scr = TRUE, !.armed = v.armed]
    BY <2>1 DEF Views
  <2>3. w.state = "tran" /\ w.phase = v.phase /\ w.scr = TRUE /\ w.armed = v.armed /\ w.app = v.app
        /\ w.whole = v.whole
    BY <2>2 DEF Views
  <2> QED BY <1>1, <1>4, <2>3
<1>5. CASE x.op = "tx"
  <2>1. w = [v EXCEPT !.state = "prog", !.phase = "written"]
    BY <1>5 DEF Leads
  <2>2. w = [v EXCEPT !.state = "prog", !.phase = "written", !.scr = v.scr, !.armed = v.armed]
    BY <2>1 DEF Views
  <2>3. w.state = "prog" /\ w.phase = "written" /\ w.scr = v.scr /\ w.armed = v.armed
        /\ w.app = v.app /\ w.whole = v.whole
    BY <2>2 DEF Views
  <2> QED BY <1>1, <1>5, <2>3
<1>6. CASE x.op = "prog"
  <2>1. w = [v EXCEPT !.state = "tran", !.armed = FALSE]
    BY <1>6 DEF Leads
  <2>2. w = [v EXCEPT !.state = "tran", !.phase = v.phase, !.scr = v.scr, !.armed = FALSE]
    BY <2>1 DEF Views
  <2>3. w.state = "tran" /\ w.phase = v.phase /\ w.scr = v.scr /\ w.armed = FALSE /\ w.app = v.app
        /\ w.whole = v.whole
    BY <2>2 DEF Views
  <2> QED BY <1>1, <1>6, <2>3
<1>7. CASE x.op \notin {"check", "rx", "adm", "scr", "tx", "prog"}
  BY <1>7 DEF Leads
<1> QED BY <1>1, <1>2, <1>3, <1>4, <1>5, <1>6, <1>7

\* What the commands of a block make of a view, and the one that asks for
\* PROG_DONE.
LEMMA BlockCmdView ==
  ASSUME NEW x \in Steps, x.op = "cmd", x.cmd \in BlockCmds \cup {"CMD13_PROG"}, NEW v \in Views,
         NEW w, w = Leads(x, v)
  PROVE  /\ w \in Views /\ w.state = StateNext(x.cmd, v.state) /\ (v.scr => w.scr)
            /\ (v.whole => w.whole)
         /\ (x.cmd # "CMD13_PROG" => ~w.armed) /\ (x.cmd = "CMD13_PROG" => w.armed)
         /\ (x.cmd # "CMD13_PROG" => w.phase = "set") /\ (x.cmd = "CMD13_PROG" => w.phase = v.phase)
<1>0. x.op \in Ops /\ x.arg \in Nat
  BY StepFields
<1>1. w = CmdLeads(x.cmd, x.arg, v)
  BY DEF Leads
<1>2. x.cmd # "CMD16" /\ (x.cmd # "CMD13_PROG" => x.cmd \in BlockCmds)
      /\ "CMD13_PROG" \notin BlockCmds
  BY DEF BlockCmds
<1>3. /\ w \in Views /\ w.state = StateNext(x.cmd, v.state) /\ w.scr = v.scr
      /\ w.whole = (IF x.cmd = "CMD16" THEN x.arg = BLOCK_SIZE ELSE v.whole \/ x.cmd = "CMD0")
      /\ w.armed = (x.cmd = "CMD13_PROG")
      /\ w.phase = (IF x.cmd \in BlockCmds THEN "set" ELSE v.phase)
  BY <1>0, <1>1, CmdView
<1>4. v.whole => w.whole
  BY <1>2, <1>3
<1>5. (x.cmd # "CMD13_PROG" => w.phase = "set") /\ (x.cmd = "CMD13_PROG" => w.phase = v.phase)
  BY <1>2, <1>3
<1>6. (x.cmd # "CMD13_PROG" => ~w.armed) /\ (x.cmd = "CMD13_PROG" => w.armed)
  BY <1>3
<1> QED BY <1>3, <1>4, <1>5, <1>6

\* A command of a block is allowed before its block, in the card's state.
LEMMA BlockCmdAllowed ==
  ASSUME NEW x \in Steps, x.op = "cmd", x.cmd \in BlockCmds, NEW v \in Views, NEW b, NEW fall,
         v.state = "tran", ~v.armed, v.whole, v.phase = "none",
         UnitFor(b, x.arg) = b.at, OnCard(b, 1)
  PROVE  Allows(x, v, b, fall)
<1>1. x.cmd \in {"CMD17", "CMD18", "CMD24"} /\ x.cmd \in Commands /\ x.cmd \notin AppCmds
      /\ x.cmd # "CMD0"
  BY DEF BlockCmds, AppCmds, Commands
<1>2. x.cmd \in DOMAIN AllowedIn /\ AllowedIn[x.cmd] = {"tran"}
  BY <1>1, AllowedValues
<1>3. CmdAllows(x.cmd, x.arg, v, b)
  BY <1>1, <1>2 DEF CmdAllows
<1> QED BY <1>3 DEF Allows

\* The state of the card is asked for with PROG_ENA when a block was written.
LEMMA ProgCmdAllowed ==
  ASSUME NEW x \in Steps, x.op = "cmd", x.cmd = "CMD13_PROG", NEW v \in Views, NEW b, NEW fall,
         v.state = "prog", ~v.armed
  PROVE  Allows(x, v, b, fall)
<1>1. x.cmd \in Commands /\ x.cmd \notin AppCmds /\ x.cmd # "CMD0" /\ x.cmd \notin BlockCmds
  BY DEF BlockCmds, AppCmds, Commands
<1>2. x.cmd \in DOMAIN AllowedIn /\ v.state \in AllowedIn[x.cmd] /\ "tran" \in AllowedIn[x.cmd]
  BY <1>1, AllowedValues
<1>3. CmdAllows(x.cmd, x.arg, v, b)
  BY <1>1, <1>2 DEF CmdAllows
<1> QED BY <1>3 DEF Allows

\* What the identification leads to: an idle card gets ready, is told its
\* address and stands by.
LEMMA Identification ==
  ASSUME NEW v \in Views, NEW b, NEW fall, v.state = "idle", ~v.armed, ~v.scr, v.phase = "none"
  PROVE  LeadsTo(card_identification_selection, v, Identified, b, fall)
<1>1. {"CMD0", "CMD8", "CMD55", "ACMD41", "CMD2", "CMD3"} \subseteq Commands \ (BlockCmds
      \cup {"CMD13_PROG"})
  BY DEF Commands, BlockCmds, Ops
<1>2. PICK x0, x1, x2, x3, x4, x5 :
        /\ x0 = Cmd("CMD0", 0)
        /\ x1 = Cmd("CMD8", 0)
        /\ x2 = Cmd("CMD55", 0)
        /\ x3 = Cmd("ACMD41", 0)
        /\ x4 = Cmd("CMD2", 0)
        /\ x5 = Cmd("CMD3", 0)
  OBVIOUS
<1>3. /\ x0 \in Steps /\ x0.op = "cmd" /\ x0.arg = 0 /\ x0.cmd = "CMD0"
      /\ x1 \in Steps /\ x1.op = "cmd" /\ x1.arg = 0 /\ x1.cmd = "CMD8"
      /\ x2 \in Steps /\ x2.op = "cmd" /\ x2.arg = 0 /\ x2.cmd = "CMD55"
      /\ x3 \in Steps /\ x3.op = "cmd" /\ x3.arg = 0 /\ x3.cmd = "ACMD41"
      /\ x4 \in Steps /\ x4.op = "cmd" /\ x4.arg = 0 /\ x4.cmd = "CMD2"
      /\ x5 \in Steps /\ x5.op = "cmd" /\ x5.arg = 0 /\ x5.cmd = "CMD3"
  BY <1>1, <1>2, StepTypes
<1>4. ASSUME NEW w \in Views, w.state = "ident", ~w.armed, ~w.scr, w.phase = "none"
      PROVE  LeadsTo(<<x5>>, w, Identified, b, fall)
  <2>1. <<x5>> \in Seq(Steps) /\ <<x5>> # <<>> /\ <<x5>>[1] = x5 /\ Tail(<<x5>>) = <<>>
    BY <1>3
  <2>2. PICK u : u = Leads(x5, w)
    OBVIOUS
  <2>3. w.state \in AllowedIn[x5.cmd] /\ (w.state = "prog" => "tran" \in AllowedIn[x5.cmd])
        /\ (x5.cmd = "CMD0" => w.state = "idle") /\ (x5.cmd \in AppCmds => w.app)
    BY <1>3, <1>4, AllowedValues DEF AppCmds, States, Selected
  <2>4. Allows(x5, w, b, fall) /\ u \in Views /\ u.state = StateNext("CMD3", w.state) /\ ~u.armed
        /\ ~u.scr /\ u.phase = w.phase /\ (w.whole => u.whole)
    BY <1>1, <1>3, <1>4, <2>2, <2>3, PlainCmd
  <2>5. LeadsTo(<<>>, u, Identified, b, fall)
    BY <1>4, <2>4, StateNexts, NoSteps DEF Identified
  <2> QED BY <2>1, <2>2, <2>4, <2>5, OneMore
<1>5. ASSUME NEW w \in Views, w.state = "ready", ~w.armed, ~w.scr, w.phase = "none"
      PROVE  LeadsTo(<<x4, x5>>, w, Identified, b, fall)
  <2>1. <<x4, x5>> \in Seq(Steps) /\ <<x4, x5>> # <<>> /\ <<x4, x5>>[1] = x4
        /\ Tail(<<x4, x5>>) = <<x5>>
    BY <1>3
  <2>2. PICK u : u = Leads(x4, w)
    OBVIOUS
  <2>3. w.state \in AllowedIn[x4.cmd] /\ (w.state = "prog" => "tran" \in AllowedIn[x4.cmd])
        /\ (x4.cmd = "CMD0" => w.state = "idle") /\ (x4.cmd \in AppCmds => w.app)
    BY <1>3, <1>5, AllowedValues DEF AppCmds, States, Selected
  <2>4. Allows(x4, w, b, fall) /\ u \in Views /\ u.state = StateNext("CMD2", w.state) /\ ~u.armed
        /\ ~u.scr /\ u.phase = w.phase /\ (w.whole => u.whole)
    BY <1>1, <1>3, <1>5, <2>2, <2>3, PlainCmd
  <2>5. LeadsTo(<<x5>>, u, Identified, b, fall)
    BY <1>5, <1>4, <2>4, StateNexts
  <2> QED BY <2>1, <2>2, <2>4, <2>5, OneMore
<1>6. ASSUME NEW w \in Views, w.state = "idle", w.app, ~w.armed, ~w.scr, w.phase = "none"
      PROVE  LeadsTo(<<x3, x4, x5>>, w, Identified, b, fall)
  <2>1. <<x3, x4, x5>> \in Seq(Steps) /\ <<x3, x4, x5>> # <<>> /\ <<x3, x4, x5>>[1] = x3
        /\ Tail(<<x3, x4, x5>>) = <<x4, x5>>
    BY <1>3
  <2>2. PICK u : u = Leads(x3, w)
    OBVIOUS
  <2>3. w.state \in AllowedIn[x3.cmd] /\ (w.state = "prog" => "tran" \in AllowedIn[x3.cmd])
        /\ (x3.cmd = "CMD0" => w.state = "idle") /\ (x3.cmd \in AppCmds => w.app)
    BY <1>3, <1>6, AllowedValues DEF AppCmds, States, Selected
  <2>4. Allows(x3, w, b, fall) /\ u \in Views /\ u.state = StateNext("ACMD41", w.state) /\ ~u.armed
        /\ ~u.scr /\ u.phase = w.phase /\ (w.whole => u.whole)
    BY <1>1, <1>3, <1>6, <2>2, <2>3, PlainCmd
  <2>5. LeadsTo(<<x4, x5>>, u, Identified, b, fall)
    BY <1>6, <1>5, <2>4, StateNexts
  <2> QED BY <2>1, <2>2, <2>4, <2>5, OneMore
<1>7. ASSUME NEW w \in Views, w.state = "idle", ~w.armed, ~w.scr, w.phase = "none"
      PROVE  LeadsTo(<<x2, x3, x4, x5>>, w, Identified, b, fall)
  <2>1. <<x2, x3, x4, x5>> \in Seq(Steps) /\ <<x2, x3, x4, x5>> # <<>> /\ <<x2, x3, x4, x5>>[1] = x2
        /\ Tail(<<x2, x3, x4, x5>>) = <<x3, x4, x5>>
    BY <1>3
  <2>2. PICK u : u = Leads(x2, w)
    OBVIOUS
  <2>3. w.state \in AllowedIn[x2.cmd] /\ (w.state = "prog" => "tran" \in AllowedIn[x2.cmd])
        /\ (x2.cmd = "CMD0" => w.state = "idle") /\ (x2.cmd \in AppCmds => w.app)
    BY <1>3, <1>7, AllowedValues DEF AppCmds, States, Selected
  <2>4. Allows(x2, w, b, fall) /\ u \in Views /\ u.state = StateNext("CMD55", w.state) /\ ~u.armed
        /\ ~u.scr /\ u.phase = w.phase /\ u.app /\ (w.whole => u.whole)
    BY <1>1, <1>3, <1>7, <2>2, <2>3, PlainCmd
  <2>5. LeadsTo(<<x3, x4, x5>>, u, Identified, b, fall)
    BY <1>7, <1>6, <2>4, StateNexts
  <2> QED BY <2>1, <2>2, <2>4, <2>5, OneMore
<1>8. ASSUME NEW w \in Views, w.state = "idle", ~w.armed, ~w.scr, w.phase = "none"
      PROVE  LeadsTo(<<x1, x2, x3, x4, x5>>, w, Identified, b, fall)
  <2>1. <<x1, x2, x3, x4, x5>> \in Seq(Steps) /\ <<x1, x2, x3, x4, x5>> # <<>>
        /\ <<x1, x2, x3, x4, x5>>[1] = x1 /\ Tail(<<x1, x2, x3, x4, x5>>) = <<x2, x3, x4, x5>>
    BY <1>3
  <2>2. PICK u : u = Leads(x1, w)
    OBVIOUS
  <2>3. w.state \in AllowedIn[x1.cmd] /\ (w.state = "prog" => "tran" \in AllowedIn[x1.cmd])
        /\ (x1.cmd = "CMD0" => w.state = "idle") /\ (x1.cmd \in AppCmds => w.app)
    BY <1>3, <1>8, AllowedValues DEF AppCmds, States, Selected
  <2>4. Allows(x1, w, b, fall) /\ u \in Views /\ u.state = StateNext("CMD8", w.state) /\ ~u.armed
        /\ ~u.scr /\ u.phase = w.phase /\ (w.whole => u.whole)
    BY <1>1, <1>3, <1>8, <2>2, <2>3, PlainCmd
  <2>5. LeadsTo(<<x2, x3, x4, x5>>, u, Identified, b, fall)
    BY <1>8, <1>7, <2>4, StateNexts
  <2> QED BY <2>1, <2>2, <2>4, <2>5, OneMore
<1>9. ASSUME NEW w \in Views, w.state = "idle", ~w.armed, ~w.scr, w.phase = "none"
      PROVE  LeadsTo(<<x0, x1, x2, x3, x4, x5>>, w, Identified, b, fall)
  <2>1. <<x0, x1, x2, x3, x4, x5>> \in Seq(Steps) /\ <<x0, x1, x2, x3, x4, x5>> # <<>>
        /\ <<x0, x1, x2, x3, x4, x5>>[1] = x0 /\ Tail(<<x0, x1, x2, x3, x4, x5>>) = <<x1, x2, x3,
          x4, x5>>
    BY <1>3
  <2>2. PICK u : u = Leads(x0, w)
    OBVIOUS
  <2>3. w.state \in AllowedIn[x0.cmd] /\ (w.state = "prog" => "tran" \in AllowedIn[x0.cmd])
        /\ (x0.cmd = "CMD0" => w.state = "idle") /\ (x0.cmd \in AppCmds => w.app)
    BY <1>3, <1>9, AllowedValues DEF AppCmds, States, Selected
  <2>4. Allows(x0, w, b, fall) /\ u \in Views /\ u.state = StateNext("CMD0", w.state) /\ ~u.armed
        /\ ~u.scr /\ u.phase = w.phase /\ (w.whole => u.whole)
    BY <1>1, <1>3, <1>9, <2>2, <2>3, PlainCmd
  <2>5. LeadsTo(<<x1, x2, x3, x4, x5>>, u, Identified, b, fall)
    BY <1>9, <1>8, <2>4, StateNexts
  <2> QED BY <2>1, <2>2, <2>4, <2>5, OneMore
<1>10. card_identification_selection = <<x0, x1, x2, x3, x4, x5>>
  BY <1>2 DEF card_identification_selection
<1> QED BY <1>9, <1>10

\* The two ends of a block, and an application command, are lists of steps.
LEMMA ClearSteps ==
  /\ check_clear_read_status \in Seq(Steps) /\ check_clear_write_status \in Seq(Steps)
  /\ \A c \in Commands : App(c) \in Seq(Steps)
  /\ \A n \in Nat : card_set_block_size(n) \in Seq(Steps)
<1>1. {"check", "clear", "clear_end"} \subseteq Ops /\ {"CMD55", "CMD16"} \subseteq Commands
  BY DEF Ops, Commands
<1>2. \A n \in {0, 1} : Do("check", n) \in Steps /\ Do("clear", n) \in Steps
      /\ Do("clear_end", n) \in Steps
  BY <1>1, StepTypes
<1>3. check_clear_read_status \in Seq(Steps) /\ check_clear_write_status \in Seq(Steps)
  BY <1>2 DEF check_clear_read_status, check_clear_write_status
<1>4. Rca \in Nat /\ 0 \in Nat
  BY DEF Rca
<1>5. \A c \in Commands : App(c) \in Seq(Steps)
  <2>1. TAKE c \in Commands
  <2>2. Cmd("CMD55", Rca) \in Steps /\ Cmd(c, 0) \in Steps
    BY <1>1, <1>4, StepTypes
  <2> QED BY <2>2 DEF App
<1>6. \A n \in Nat : card_set_block_size(n) \in Seq(Steps)
  BY <1>1, StepTypes DEF card_set_block_size
<1> QED BY <1>3, <1>5, <1>6

\* The end of a block is looked for, told apart and cleared.
LEMMA StatusCleared ==
  ASSUME NEW s, NEW p, NEW q, NEW d \in {0, 1}, NEW long \in BOOLEAN, NEW goal, NEW b, NEW fall,
         q = (IF p = "moved" THEN "checked" ELSE IF p = "written" THEN "kept" ELSE p),
         p = "moved" => d = 0, p = "written" => d = 1,
         goal = {u \in Views : u.state = s /\ ~u.armed /\ u.scr /\ (long => u.whole)
           /\ u.phase = q},
         NEW v \in Views, v.state = s, ~v.armed, v.scr, long => v.whole, v.phase = p
  PROVE  LeadsTo(<<Do("check", d), Do("clear", d), Do("clear_end", d)>>, v, goal, b, fall)
<1>1. {"check", "clear", "clear_end"} \subseteq Ops
  BY DEF Commands, BlockCmds, Ops
<1>2. PICK x0, x1, x2 :
        /\ x0 = Do("check", d)
        /\ x1 = Do("clear", d)
        /\ x2 = Do("clear_end", d)
  OBVIOUS
<1>3. /\ x0 \in Steps /\ x0.op = "check" /\ x0.arg = d
      /\ x1 \in Steps /\ x1.op = "clear" /\ x1.arg = d
      /\ x2 \in Steps /\ x2.op = "clear_end" /\ x2.arg = d
  BY <1>1, <1>2, StepTypes
<1>4. ASSUME NEW w \in Views, w.state = s, ~w.armed, w.scr, long => w.whole, w.phase = q
      PROVE  LeadsTo(<<x2>>, w, goal, b, fall)
  <2>1. <<x2>> \in Seq(Steps) /\ <<x2>> # <<>> /\ <<x2>>[1] = x2 /\ Tail(<<x2>>) = <<>>
    BY <1>3
  <2>2. PICK u : u = Leads(x2, w)
    OBVIOUS
  <2>3. Allows(x2, w, b, fall)
    BY <1>3, <1>4 DEF Allows
  <2>4. /\ u \in Views /\ (w.scr => u.scr) /\ (w.whole => u.whole) /\ (~w.armed => ~u.armed)
        /\ u.state = w.state
        /\ u.phase = w.phase
    BY <1>3, <1>4, <2>2, DoView
  <2>5. LeadsTo(<<>>, u, goal, b, fall)
    BY <1>4, <2>4, NoSteps
  <2> QED BY <2>1, <2>2, <2>3, <2>4, <2>5, OneMore
<1>5. ASSUME NEW w \in Views, w.state = s, ~w.armed, w.scr, long => w.whole, w.phase = q
      PROVE  LeadsTo(<<x1, x2>>, w, goal, b, fall)
  <2>1. <<x1, x2>> \in Seq(Steps) /\ <<x1, x2>> # <<>> /\ <<x1, x2>>[1] = x1
        /\ Tail(<<x1, x2>>) = <<x2>>
    BY <1>3
  <2>2. PICK u : u = Leads(x1, w)
    OBVIOUS
  <2>3. Allows(x1, w, b, fall)
    BY <1>3, <1>5 DEF Allows
  <2>4. /\ u \in Views /\ (w.scr => u.scr) /\ (w.whole => u.whole) /\ (~w.armed => ~u.armed)
        /\ u.state = w.state
        /\ u.phase = w.phase
    BY <1>3, <1>5, <2>2, DoView
  <2>5. LeadsTo(<<x2>>, u, goal, b, fall)
    BY <1>5, <1>4, <2>4
  <2> QED BY <2>1, <2>2, <2>3, <2>4, <2>5, OneMore
<1>6. ASSUME NEW w \in Views, w.state = s, ~w.armed, w.scr, long => w.whole, w.phase = p
      PROVE  LeadsTo(<<x0, x1, x2>>, w, goal, b, fall)
  <2>1. <<x0, x1, x2>> \in Seq(Steps) /\ <<x0, x1, x2>> # <<>> /\ <<x0, x1, x2>>[1] = x0
        /\ Tail(<<x0, x1, x2>>) = <<x1, x2>>
    BY <1>3
  <2>2. PICK u : u = Leads(x0, w)
    OBVIOUS
  <2>3. Allows(x0, w, b, fall)
    BY <1>3, <1>6 DEF Allows
  <2>4. /\ u \in Views /\ (w.scr => u.scr) /\ (w.whole => u.whole) /\ (~w.armed => ~u.armed)
        /\ u.state = w.state
        /\ u.phase = IF w.phase = "moved" THEN "checked" ELSE IF w.phase = "written" THEN "kept"
          ELSE w.phase
    BY <1>3, <1>6, <2>2, DoView
  <2>5. LeadsTo(<<x1, x2>>, u, goal, b, fall)
    BY <1>6, <1>5, <2>4
  <2> QED BY <2>1, <2>2, <2>3, <2>4, <2>5, OneMore
<1> QED BY <1>2, <1>6

BeforeScr == {v \in Views : v.state = "tran" /\ ~v.armed /\ ~v.scr /\ v.phase = "none"}
SendingScr == {v \in Views : v.state = "data" /\ ~v.armed /\ ~v.scr /\ v.phase = "none"}
Sending == {v \in Views : v.state = "data" /\ ~v.armed /\ v.scr /\ v.phase = "none"}

\* The card is asked what it is and selected.
LEMMA SelectLeads ==
  ASSUME NEW b, NEW fall, NEW v \in Identified
  PROVE  LeadsTo(<<Cmd("CMD9", Rca), Cmd("CMD10", Rca), Cmd("CMD7", Rca)>>, v, BeforeScr, b, fall)
<1>1. {"CMD9", "CMD10", "CMD7"} \subseteq Commands \ (BlockCmds \cup {"CMD13_PROG"})
  BY DEF Commands, BlockCmds, Ops
<1>2. PICK x0, x1, x2 :
        /\ x0 = Cmd("CMD9", Rca)
        /\ x1 = Cmd("CMD10", Rca)
        /\ x2 = Cmd("CMD7", Rca)
  OBVIOUS
<1>3. /\ x0 \in Steps /\ x0.op = "cmd" /\ x0.arg = Rca /\ x0.cmd = "CMD9"
      /\ x1 \in Steps /\ x1.op = "cmd" /\ x1.arg = Rca /\ x1.cmd = "CMD10"
      /\ x2 \in Steps /\ x2.op = "cmd" /\ x2.arg = Rca /\ x2.cmd = "CMD7"
  BY <1>1, <1>2, StepTypes DEF Rca
<1>4. ASSUME NEW w \in Views, w.state = "stby", ~w.armed, ~w.scr, w.phase = "none"
      PROVE  LeadsTo(<<x2>>, w, BeforeScr, b, fall)
  <2>1. <<x2>> \in Seq(Steps) /\ <<x2>> # <<>> /\ <<x2>>[1] = x2 /\ Tail(<<x2>>) = <<>>
    BY <1>3
  <2>2. PICK u : u = Leads(x2, w)
    OBVIOUS
  <2>3. w.state \in AllowedIn[x2.cmd] /\ (w.state = "prog" => "tran" \in AllowedIn[x2.cmd])
        /\ (x2.cmd = "CMD0" => w.state = "idle") /\ (x2.cmd \in AppCmds => w.app)
    BY <1>3, <1>4, AllowedValues DEF AppCmds, States, Selected
  <2>4. Allows(x2, w, b, fall) /\ u \in Views /\ u.state = StateNext("CMD7", w.state) /\ ~u.armed
        /\ ~u.scr /\ u.phase = w.phase /\ (w.whole => u.whole)
    BY <1>1, <1>3, <1>4, <2>2, <2>3, PlainCmd
  <2>5. LeadsTo(<<>>, u, BeforeScr, b, fall)
    BY <1>4, <2>4, StateNexts, NoSteps DEF Transferring, InTran, BeforeScr, Sending, SendingScr,
       Identified
  <2> QED BY <2>1, <2>2, <2>4, <2>5, OneMore
<1>5. ASSUME NEW w \in Views, w.state = "stby", ~w.armed, ~w.scr, w.phase = "none"
      PROVE  LeadsTo(<<x1, x2>>, w, BeforeScr, b, fall)
  <2>1. <<x1, x2>> \in Seq(Steps) /\ <<x1, x2>> # <<>> /\ <<x1, x2>>[1] = x1
        /\ Tail(<<x1, x2>>) = <<x2>>
    BY <1>3
  <2>2. PICK u : u = Leads(x1, w)
    OBVIOUS
  <2>3. w.state \in AllowedIn[x1.cmd] /\ (w.state = "prog" => "tran" \in AllowedIn[x1.cmd])
        /\ (x1.cmd = "CMD0" => w.state = "idle") /\ (x1.cmd \in AppCmds => w.app)
    BY <1>3, <1>5, AllowedValues DEF AppCmds, States, Selected
  <2>4. Allows(x1, w, b, fall) /\ u \in Views /\ u.state = StateNext("CMD10", w.state) /\ ~u.armed
        /\ ~u.scr /\ u.phase = w.phase /\ (w.whole => u.whole)
    BY <1>1, <1>3, <1>5, <2>2, <2>3, PlainCmd
  <2>5. LeadsTo(<<x2>>, u, BeforeScr, b, fall)
    BY <1>5, <1>4, <2>4, StateNexts
  <2> QED BY <2>1, <2>2, <2>4, <2>5, OneMore
<1>6. ASSUME NEW w \in Views, w.state = "stby", ~w.armed, ~w.scr, w.phase = "none"
      PROVE  LeadsTo(<<x0, x1, x2>>, w, BeforeScr, b, fall)
  <2>1. <<x0, x1, x2>> \in Seq(Steps) /\ <<x0, x1, x2>> # <<>> /\ <<x0, x1, x2>>[1] = x0
        /\ Tail(<<x0, x1, x2>>) = <<x1, x2>>
    BY <1>3
  <2>2. PICK u : u = Leads(x0, w)
    OBVIOUS
  <2>3. w.state \in AllowedIn[x0.cmd] /\ (w.state = "prog" => "tran" \in AllowedIn[x0.cmd])
        /\ (x0.cmd = "CMD0" => w.state = "idle") /\ (x0.cmd \in AppCmds => w.app)
    BY <1>3, <1>6, AllowedValues DEF AppCmds, States, Selected
  <2>4. Allows(x0, w, b, fall) /\ u \in Views /\ u.state = StateNext("CMD9", w.state) /\ ~u.armed
        /\ ~u.scr /\ u.phase = w.phase /\ (w.whole => u.whole)
    BY <1>1, <1>3, <1>6, <2>2, <2>3, PlainCmd
  <2>5. LeadsTo(<<x1, x2>>, u, BeforeScr, b, fall)
    BY <1>6, <1>5, <2>4, StateNexts
  <2> QED BY <2>1, <2>2, <2>4, <2>5, OneMore
<1>7. v \in Views /\ v.state = "stby" /\ ~v.armed /\ ~v.scr /\ v.phase = "none"
  BY DEF Transferring, InTran, BeforeScr, Sending, SendingScr, Identified
<1> QED BY <1>2, <1>6, <1>7

\* The length of the SCR is set.
LEMMA ScrSizeLeads ==
  ASSUME NEW b, NEW fall, NEW v \in BeforeScr
  PROVE  LeadsTo(card_set_block_size(8), v, BeforeScr, b, fall)
<1>1. {"CMD16"} \subseteq Commands \ (BlockCmds \cup {"CMD13_PROG"})
  BY DEF Commands, BlockCmds, Ops
<1>2. PICK x0 :
        /\ x0 = Cmd("CMD16", 8)
  OBVIOUS
<1>3. /\ x0 \in Steps /\ x0.op = "cmd" /\ x0.arg = 8 /\ x0.cmd = "CMD16"
  BY <1>1, <1>2, StepTypes
<1>4. ASSUME NEW w \in Views, w.state = "tran", ~w.armed, ~w.scr, w.phase = "none"
      PROVE  LeadsTo(<<x0>>, w, BeforeScr, b, fall)
  <2>1. <<x0>> \in Seq(Steps) /\ <<x0>> # <<>> /\ <<x0>>[1] = x0 /\ Tail(<<x0>>) = <<>>
    BY <1>3
  <2>2. PICK u : u = Leads(x0, w)
    OBVIOUS
  <2>3. w.state \in AllowedIn[x0.cmd] /\ (w.state = "prog" => "tran" \in AllowedIn[x0.cmd])
        /\ (x0.cmd = "CMD0" => w.state = "idle") /\ (x0.cmd \in AppCmds => w.app)
    BY <1>3, <1>4, AllowedValues DEF AppCmds, States, Selected
  <2>4. Allows(x0, w, b, fall) /\ u \in Views /\ u.state = StateNext("CMD16", w.state) /\ ~u.armed
        /\ ~u.scr /\ u.phase = w.phase
    BY <1>1, <1>3, <1>4, <2>2, <2>3, PlainCmd
  <2>5. LeadsTo(<<>>, u, BeforeScr, b, fall)
    BY <1>4, <2>4, StateNexts, NoSteps DEF Transferring, InTran, BeforeScr, Sending, SendingScr,
       Identified
  <2> QED BY <2>1, <2>2, <2>4, <2>5, OneMore
<1>5. v \in Views /\ v.state = "tran" /\ ~v.armed /\ ~v.scr /\ v.phase = "none"
  BY DEF Transferring, InTran, BeforeScr, Sending, SendingScr, Identified
<1> QED BY <1>2, <1>4, <1>5 DEF card_set_block_size

\* The SCR is asked for.
LEMMA ScrAskLeads ==
  ASSUME NEW b, NEW fall, NEW v \in BeforeScr
  PROVE  LeadsTo(App("ACMD51"), v, SendingScr, b, fall)
<1>1. {"CMD55", "ACMD51"} \subseteq Commands \ (BlockCmds \cup {"CMD13_PROG"})
  BY DEF Commands, BlockCmds, Ops
<1>2. PICK x0, x1 :
        /\ x0 = Cmd("CMD55", Rca)
        /\ x1 = Cmd("ACMD51", 0)
  OBVIOUS
<1>3. /\ x0 \in Steps /\ x0.op = "cmd" /\ x0.arg = Rca /\ x0.cmd = "CMD55"
      /\ x1 \in Steps /\ x1.op = "cmd" /\ x1.arg = 0 /\ x1.cmd = "ACMD51"
  BY <1>1, <1>2, StepTypes DEF Rca
<1>4. ASSUME NEW w \in Views, w.state = "tran", ~w.armed, ~w.scr, w.phase = "none", w.app
      PROVE  LeadsTo(<<x1>>, w, SendingScr, b, fall)
  <2>1. <<x1>> \in Seq(Steps) /\ <<x1>> # <<>> /\ <<x1>>[1] = x1 /\ Tail(<<x1>>) = <<>>
    BY <1>3
  <2>2. PICK u : u = Leads(x1, w)
    OBVIOUS
  <2>3. w.state \in AllowedIn[x1.cmd] /\ (w.state = "prog" => "tran" \in AllowedIn[x1.cmd])
        /\ (x1.cmd = "CMD0" => w.state = "idle") /\ (x1.cmd \in AppCmds => w.app)
    BY <1>3, <1>4, AllowedValues DEF AppCmds, States, Selected
  <2>4. Allows(x1, w, b, fall) /\ u \in Views /\ u.state = StateNext("ACMD51", w.state) /\ ~u.armed
        /\ ~u.scr /\ u.phase = w.phase /\ (w.whole => u.whole)
    BY <1>1, <1>3, <1>4, <2>2, <2>3, PlainCmd
  <2>5. LeadsTo(<<>>, u, SendingScr, b, fall)
    BY <1>4, <2>4, StateNexts, NoSteps DEF Transferring, InTran, BeforeScr, Sending, SendingScr,
       Identified
  <2> QED BY <2>1, <2>2, <2>4, <2>5, OneMore
<1>5. ASSUME NEW w \in Views, w.state = "tran", ~w.armed, ~w.scr, w.phase = "none"
      PROVE  LeadsTo(<<x0, x1>>, w, SendingScr, b, fall)
  <2>1. <<x0, x1>> \in Seq(Steps) /\ <<x0, x1>> # <<>> /\ <<x0, x1>>[1] = x0
        /\ Tail(<<x0, x1>>) = <<x1>>
    BY <1>3
  <2>2. PICK u : u = Leads(x0, w)
    OBVIOUS
  <2>3. w.state \in AllowedIn[x0.cmd] /\ (w.state = "prog" => "tran" \in AllowedIn[x0.cmd])
        /\ (x0.cmd = "CMD0" => w.state = "idle") /\ (x0.cmd \in AppCmds => w.app)
    BY <1>3, <1>5, AllowedValues DEF AppCmds, States, Selected
  <2>4. Allows(x0, w, b, fall) /\ u \in Views /\ u.state = StateNext("CMD55", w.state) /\ ~u.armed
        /\ ~u.scr /\ u.phase = w.phase /\ u.app /\ (w.whole => u.whole)
    BY <1>1, <1>3, <1>5, <2>2, <2>3, PlainCmd
  <2>5. LeadsTo(<<x1>>, u, SendingScr, b, fall)
    BY <1>5, <1>4, <2>4, StateNexts
  <2> QED BY <2>1, <2>2, <2>4, <2>5, OneMore
<1>6. v \in Views /\ v.state = "tran" /\ ~v.armed /\ ~v.scr /\ v.phase = "none"
  BY DEF Transferring, InTran, BeforeScr, Sending, SendingScr, Identified
<1> QED BY <1>2, <1>5, <1>6 DEF App

\* The SCR is read.
LEMMA ScrLeads ==
  ASSUME NEW b, NEW fall, NEW v \in SendingScr
  PROVE  LeadsTo(<<Do("scr", 0)>>, v, Transferring, b, fall)
<1>1. {"scr"} \subseteq Ops
  BY DEF Commands, BlockCmds, Ops
<1>2. PICK x0 :
        /\ x0 = Do("scr", 0)
  OBVIOUS
<1>3. /\ x0 \in Steps /\ x0.op = "scr" /\ x0.arg = 0
  BY <1>1, <1>2, StepTypes
<1>4. ASSUME NEW w \in Views, w.state = "data", ~w.armed, ~w.scr, w.phase = "none"
      PROVE  LeadsTo(<<x0>>, w, Transferring, b, fall)
  <2>1. <<x0>> \in Seq(Steps) /\ <<x0>> # <<>> /\ <<x0>>[1] = x0 /\ Tail(<<x0>>) = <<>>
    BY <1>3
  <2>2. PICK u : u = Leads(x0, w)
    OBVIOUS
  <2>3. Allows(x0, w, b, fall)
    BY <1>3, <1>4 DEF Allows
  <2>4. /\ u \in Views /\ u.scr /\ (w.whole => u.whole) /\ (~w.armed => ~u.armed)
        /\ u.state = "tran"
        /\ u.phase = w.phase
    BY <1>3, <1>4, <2>2, DoView
  <2>5. LeadsTo(<<>>, u, Transferring, b, fall)
    BY <1>4, <2>4, NoSteps DEF Transferring, InTran, BeforeScr, Sending, SendingScr, Identified
  <2> QED BY <2>1, <2>2, <2>3, <2>4, <2>5, OneMore
<1>5. v \in Views /\ v.state = "data" /\ ~v.armed /\ ~v.scr /\ v.phase = "none"
  BY DEF Transferring, InTran, BeforeScr, Sending, SendingScr, Identified
<1> QED BY <1>2, <1>4, <1>5

\* The bus is widened.
LEMMA BusLeads ==
  ASSUME NEW b, NEW fall, NEW v \in Transferring
  PROVE  LeadsTo(App("ACMD6"), v, Transferring, b, fall)
<1>1. {"CMD55", "ACMD6"} \subseteq Commands \ (BlockCmds \cup {"CMD13_PROG"})
  BY DEF Commands, BlockCmds, Ops
<1>2. PICK x0, x1 :
        /\ x0 = Cmd("CMD55", Rca)
        /\ x1 = Cmd("ACMD6", 0)
  OBVIOUS
<1>3. /\ x0 \in Steps /\ x0.op = "cmd" /\ x0.arg = Rca /\ x0.cmd = "CMD55"
      /\ x1 \in Steps /\ x1.op = "cmd" /\ x1.arg = 0 /\ x1.cmd = "ACMD6"
  BY <1>1, <1>2, StepTypes DEF Rca
<1>4. ASSUME NEW w \in Views, w.state = "tran", ~w.armed, w.scr, w.phase = "none", w.app
      PROVE  LeadsTo(<<x1>>, w, Transferring, b, fall)
  <2>1. <<x1>> \in Seq(Steps) /\ <<x1>> # <<>> /\ <<x1>>[1] = x1 /\ Tail(<<x1>>) = <<>>
    BY <1>3
  <2>2. PICK u : u = Leads(x1, w)
    OBVIOUS
  <2>3. w.state \in AllowedIn[x1.cmd] /\ (w.state = "prog" => "tran" \in AllowedIn[x1.cmd])
        /\ (x1.cmd = "CMD0" => w.state = "idle") /\ (x1.cmd \in AppCmds => w.app)
    BY <1>3, <1>4, AllowedValues DEF AppCmds, States, Selected
  <2>4. Allows(x1, w, b, fall) /\ u \in Views /\ u.state = StateNext("ACMD6", w.state) /\ ~u.armed
        /\ u.scr /\ u.phase = w.phase /\ (w.whole => u.whole)
    BY <1>1, <1>3, <1>4, <2>2, <2>3, PlainCmd
  <2>5. LeadsTo(<<>>, u, Transferring, b, fall)
    BY <1>4, <2>4, StateNexts, NoSteps DEF Transferring, InTran, BeforeScr, Sending, SendingScr,
       Identified
  <2> QED BY <2>1, <2>2, <2>4, <2>5, OneMore
<1>5. ASSUME NEW w \in Views, w.state = "tran", ~w.armed, w.scr, w.phase = "none"
      PROVE  LeadsTo(<<x0, x1>>, w, Transferring, b, fall)
  <2>1. <<x0, x1>> \in Seq(Steps) /\ <<x0, x1>> # <<>> /\ <<x0, x1>>[1] = x0
        /\ Tail(<<x0, x1>>) = <<x1>>
    BY <1>3
  <2>2. PICK u : u = Leads(x0, w)
    OBVIOUS
  <2>3. w.state \in AllowedIn[x0.cmd] /\ (w.state = "prog" => "tran" \in AllowedIn[x0.cmd])
        /\ (x0.cmd = "CMD0" => w.state = "idle") /\ (x0.cmd \in AppCmds => w.app)
    BY <1>3, <1>5, AllowedValues DEF AppCmds, States, Selected
  <2>4. Allows(x0, w, b, fall) /\ u \in Views /\ u.state = StateNext("CMD55", w.state) /\ ~u.armed
        /\ u.scr /\ u.phase = w.phase /\ u.app /\ (w.whole => u.whole)
    BY <1>1, <1>3, <1>5, <2>2, <2>3, PlainCmd
  <2>5. LeadsTo(<<x1>>, u, Transferring, b, fall)
    BY <1>5, <1>4, <2>4, StateNexts
  <2> QED BY <2>1, <2>2, <2>4, <2>5, OneMore
<1>6. v \in Views /\ v.state = "tran" /\ ~v.armed /\ v.scr /\ v.phase = "none"
  BY DEF Transferring, InTran, BeforeScr, Sending, SendingScr, Identified
<1> QED BY <1>2, <1>5, <1>6 DEF App

\* The card is asked for its state.
LEMMA StateLeads ==
  ASSUME NEW b, NEW fall, NEW v \in Transferring
  PROVE  LeadsTo(<<Cmd("CMD13", Rca)>>, v, Transferring, b, fall)
<1>1. {"CMD13"} \subseteq Commands \ (BlockCmds \cup {"CMD13_PROG"})
  BY DEF Commands, BlockCmds, Ops
<1>2. PICK x0 :
        /\ x0 = Cmd("CMD13", Rca)
  OBVIOUS
<1>3. /\ x0 \in Steps /\ x0.op = "cmd" /\ x0.arg = Rca /\ x0.cmd = "CMD13"
  BY <1>1, <1>2, StepTypes DEF Rca
<1>4. ASSUME NEW w \in Views, w.state = "tran", ~w.armed, w.scr, w.phase = "none"
      PROVE  LeadsTo(<<x0>>, w, Transferring, b, fall)
  <2>1. <<x0>> \in Seq(Steps) /\ <<x0>> # <<>> /\ <<x0>>[1] = x0 /\ Tail(<<x0>>) = <<>>
    BY <1>3
  <2>2. PICK u : u = Leads(x0, w)
    OBVIOUS
  <2>3. w.state \in AllowedIn[x0.cmd] /\ (w.state = "prog" => "tran" \in AllowedIn[x0.cmd])
        /\ (x0.cmd = "CMD0" => w.state = "idle") /\ (x0.cmd \in AppCmds => w.app)
    BY <1>3, <1>4, AllowedValues DEF AppCmds, States, Selected
  <2>4. Allows(x0, w, b, fall) /\ u \in Views /\ u.state = StateNext("CMD13", w.state) /\ ~u.armed
        /\ u.scr /\ u.phase = w.phase /\ (w.whole => u.whole)
    BY <1>1, <1>3, <1>4, <2>2, <2>3, PlainCmd
  <2>5. LeadsTo(<<>>, u, Transferring, b, fall)
    BY <1>4, <2>4, StateNexts, NoSteps DEF Transferring, InTran, BeforeScr, Sending, SendingScr,
       Identified
  <2> QED BY <2>1, <2>2, <2>4, <2>5, OneMore
<1>5. v \in Views /\ v.state = "tran" /\ ~v.armed /\ v.scr /\ v.phase = "none"
  BY DEF Transferring, InTran, BeforeScr, Sending, SendingScr, Identified
<1> QED BY <1>2, <1>4, <1>5

\* The length of the status is set.
LEMMA StatusSizeLeads ==
  ASSUME NEW b, NEW fall, NEW v \in Transferring
  PROVE  LeadsTo(card_set_block_size(64), v, Transferring, b, fall)
<1>1. {"CMD16"} \subseteq Commands \ (BlockCmds \cup {"CMD13_PROG"})
  BY DEF Commands, BlockCmds, Ops
<1>2. PICK x0 :
        /\ x0 = Cmd("CMD16", 64)
  OBVIOUS
<1>3. /\ x0 \in Steps /\ x0.op = "cmd" /\ x0.arg = 64 /\ x0.cmd = "CMD16"
  BY <1>1, <1>2, StepTypes
<1>4. ASSUME NEW w \in Views, w.state = "tran", ~w.armed, w.scr, w.phase = "none"
      PROVE  LeadsTo(<<x0>>, w, Transferring, b, fall)
  <2>1. <<x0>> \in Seq(Steps) /\ <<x0>> # <<>> /\ <<x0>>[1] = x0 /\ Tail(<<x0>>) = <<>>
    BY <1>3
  <2>2. PICK u : u = Leads(x0, w)
    OBVIOUS
  <2>3. w.state \in AllowedIn[x0.cmd] /\ (w.state = "prog" => "tran" \in AllowedIn[x0.cmd])
        /\ (x0.cmd = "CMD0" => w.state = "idle") /\ (x0.cmd \in AppCmds => w.app)
    BY <1>3, <1>4, AllowedValues DEF AppCmds, States, Selected
  <2>4. Allows(x0, w, b, fall) /\ u \in Views /\ u.state = StateNext("CMD16", w.state) /\ ~u.armed
        /\ u.scr /\ u.phase = w.phase
    BY <1>1, <1>3, <1>4, <2>2, <2>3, PlainCmd
  <2>5. LeadsTo(<<>>, u, Transferring, b, fall)
    BY <1>4, <2>4, StateNexts, NoSteps DEF Transferring, InTran, BeforeScr, Sending, SendingScr,
       Identified
  <2> QED BY <2>1, <2>2, <2>4, <2>5, OneMore
<1>5. v \in Views /\ v.state = "tran" /\ ~v.armed /\ v.scr /\ v.phase = "none"
  BY DEF Transferring, InTran, BeforeScr, Sending, SendingScr, Identified
<1> QED BY <1>2, <1>4, <1>5 DEF card_set_block_size

\* The status is asked for.
LEMMA StatusAskLeads ==
  ASSUME NEW b, NEW fall, NEW v \in Transferring
  PROVE  LeadsTo(App("ACMD13"), v, Sending, b, fall)
<1>1. {"CMD55", "ACMD13"} \subseteq Commands \ (BlockCmds \cup {"CMD13_PROG"})
  BY DEF Commands, BlockCmds, Ops
<1>2. PICK x0, x1 :
        /\ x0 = Cmd("CMD55", Rca)
        /\ x1 = Cmd("ACMD13", 0)
  OBVIOUS
<1>3. /\ x0 \in Steps /\ x0.op = "cmd" /\ x0.arg = Rca /\ x0.cmd = "CMD55"
      /\ x1 \in Steps /\ x1.op = "cmd" /\ x1.arg = 0 /\ x1.cmd = "ACMD13"
  BY <1>1, <1>2, StepTypes DEF Rca
<1>4. ASSUME NEW w \in Views, w.state = "tran", ~w.armed, w.scr, w.phase = "none", w.app
      PROVE  LeadsTo(<<x1>>, w, Sending, b, fall)
  <2>1. <<x1>> \in Seq(Steps) /\ <<x1>> # <<>> /\ <<x1>>[1] = x1 /\ Tail(<<x1>>) = <<>>
    BY <1>3
  <2>2. PICK u : u = Leads(x1, w)
    OBVIOUS
  <2>3. w.state \in AllowedIn[x1.cmd] /\ (w.state = "prog" => "tran" \in AllowedIn[x1.cmd])
        /\ (x1.cmd = "CMD0" => w.state = "idle") /\ (x1.cmd \in AppCmds => w.app)
    BY <1>3, <1>4, AllowedValues DEF AppCmds, States, Selected
  <2>4. Allows(x1, w, b, fall) /\ u \in Views /\ u.state = StateNext("ACMD13", w.state) /\ ~u.armed
        /\ u.scr /\ u.phase = w.phase /\ (w.whole => u.whole)
    BY <1>1, <1>3, <1>4, <2>2, <2>3, PlainCmd
  <2>5. LeadsTo(<<>>, u, Sending, b, fall)
    BY <1>4, <2>4, StateNexts, NoSteps DEF Transferring, InTran, BeforeScr, Sending, SendingScr,
       Identified
  <2> QED BY <2>1, <2>2, <2>4, <2>5, OneMore
<1>5. ASSUME NEW w \in Views, w.state = "tran", ~w.armed, w.scr, w.phase = "none"
      PROVE  LeadsTo(<<x0, x1>>, w, Sending, b, fall)
  <2>1. <<x0, x1>> \in Seq(Steps) /\ <<x0, x1>> # <<>> /\ <<x0, x1>>[1] = x0
        /\ Tail(<<x0, x1>>) = <<x1>>
    BY <1>3
  <2>2. PICK u : u = Leads(x0, w)
    OBVIOUS
  <2>3. w.state \in AllowedIn[x0.cmd] /\ (w.state = "prog" => "tran" \in AllowedIn[x0.cmd])
        /\ (x0.cmd = "CMD0" => w.state = "idle") /\ (x0.cmd \in AppCmds => w.app)
    BY <1>3, <1>5, AllowedValues DEF AppCmds, States, Selected
  <2>4. Allows(x0, w, b, fall) /\ u \in Views /\ u.state = StateNext("CMD55", w.state) /\ ~u.armed
        /\ u.scr /\ u.phase = w.phase /\ u.app /\ (w.whole => u.whole)
    BY <1>1, <1>3, <1>5, <2>2, <2>3, PlainCmd
  <2>5. LeadsTo(<<x1>>, u, Sending, b, fall)
    BY <1>5, <1>4, <2>4, StateNexts
  <2> QED BY <2>1, <2>2, <2>4, <2>5, OneMore
<1>6. v \in Views /\ v.state = "tran" /\ ~v.armed /\ v.scr /\ v.phase = "none"
  BY DEF Transferring, InTran, BeforeScr, Sending, SendingScr, Identified
<1> QED BY <1>2, <1>5, <1>6 DEF App

\* A status is read.
LEMMA RegisterLeads ==
  ASSUME NEW b, NEW fall, NEW v \in Sending
  PROVE  LeadsTo(<<Do("rx", 0)>>, v, Transferring, b, fall)
<1>1. {"rx"} \subseteq Ops
  BY DEF Commands, BlockCmds, Ops
<1>2. PICK x0 :
        /\ x0 = Do("rx", 0)
  OBVIOUS
<1>3. /\ x0 \in Steps /\ x0.op = "rx" /\ x0.arg = 0
  BY <1>1, <1>2, StepTypes
<1>4. ASSUME NEW w \in Views, w.state = "data", ~w.armed, w.scr, w.phase = "none"
      PROVE  LeadsTo(<<x0>>, w, Transferring, b, fall)
  <2>1. <<x0>> \in Seq(Steps) /\ <<x0>> # <<>> /\ <<x0>>[1] = x0 /\ Tail(<<x0>>) = <<>>
    BY <1>3
  <2>2. PICK u : u = Leads(x0, w)
    OBVIOUS
  <2>3. Allows(x0, w, b, fall)
    BY <1>3, <1>4 DEF Allows
  <2>4. /\ u \in Views /\ (w.scr => u.scr) /\ (w.whole => u.whole) /\ (~w.armed => ~u.armed)
        /\ u.state = "tran"
        /\ u.phase = IF 0 > 0 THEN "moved" ELSE w.phase
    BY <1>3, <1>4, <2>2, DoView
  <2>5. LeadsTo(<<>>, u, Transferring, b, fall)
    BY <1>4, <2>4, NoSteps DEF Transferring, InTran, BeforeScr, Sending, SendingScr, Identified
  <2> QED BY <2>1, <2>2, <2>3, <2>4, <2>5, OneMore
<1>5. v \in Views /\ v.state = "data" /\ ~v.armed /\ v.scr /\ v.phase = "none"
  BY DEF Transferring, InTran, BeforeScr, Sending, SendingScr, Identified
<1> QED BY <1>2, <1>4, <1>5

\* The switch function is asked for, or set.
LEMMA SwitchAskLeads ==
  ASSUME NEW b, NEW fall, NEW v \in Transferring
  PROVE  LeadsTo(<<Cmd("CMD6", 0), Do("rx", 0)>>, v, Transferring, b, fall)
<1>1. {"CMD6"} \subseteq Commands \ (BlockCmds \cup {"CMD13_PROG"}) /\ {"rx"} \subseteq Ops
  BY DEF Commands, BlockCmds, Ops
<1>2. PICK x0, x1 :
        /\ x0 = Cmd("CMD6", 0)
        /\ x1 = Do("rx", 0)
  OBVIOUS
<1>3. /\ x0 \in Steps /\ x0.op = "cmd" /\ x0.arg = 0 /\ x0.cmd = "CMD6"
      /\ x1 \in Steps /\ x1.op = "rx" /\ x1.arg = 0
  BY <1>1, <1>2, StepTypes
<1>4. ASSUME NEW w \in Views, w.state = "data", ~w.armed, w.scr, w.phase = "none"
      PROVE  LeadsTo(<<x1>>, w, Transferring, b, fall)
  <2>1. <<x1>> \in Seq(Steps) /\ <<x1>> # <<>> /\ <<x1>>[1] = x1 /\ Tail(<<x1>>) = <<>>
    BY <1>3
  <2>2. PICK u : u = Leads(x1, w)
    OBVIOUS
  <2>3. Allows(x1, w, b, fall)
    BY <1>3, <1>4 DEF Allows
  <2>4. /\ u \in Views /\ (w.scr => u.scr) /\ (w.whole => u.whole) /\ (~w.armed => ~u.armed)
        /\ u.state = "tran"
        /\ u.phase = IF 0 > 0 THEN "moved" ELSE w.phase
    BY <1>3, <1>4, <2>2, DoView
  <2>5. LeadsTo(<<>>, u, Transferring, b, fall)
    BY <1>4, <2>4, NoSteps DEF Transferring, InTran, BeforeScr, Sending, SendingScr, Identified
  <2> QED BY <2>1, <2>2, <2>3, <2>4, <2>5, OneMore
<1>5. ASSUME NEW w \in Views, w.state = "tran", ~w.armed, w.scr, w.phase = "none"
      PROVE  LeadsTo(<<x0, x1>>, w, Transferring, b, fall)
  <2>1. <<x0, x1>> \in Seq(Steps) /\ <<x0, x1>> # <<>> /\ <<x0, x1>>[1] = x0
        /\ Tail(<<x0, x1>>) = <<x1>>
    BY <1>3
  <2>2. PICK u : u = Leads(x0, w)
    OBVIOUS
  <2>3. w.state \in AllowedIn[x0.cmd] /\ (w.state = "prog" => "tran" \in AllowedIn[x0.cmd])
        /\ (x0.cmd = "CMD0" => w.state = "idle") /\ (x0.cmd \in AppCmds => w.app)
    BY <1>3, <1>5, AllowedValues DEF AppCmds, States, Selected
  <2>4. Allows(x0, w, b, fall) /\ u \in Views /\ u.state = StateNext("CMD6", w.state) /\ ~u.armed
        /\ u.scr /\ u.phase = w.phase /\ (w.whole => u.whole)
    BY <1>1, <1>3, <1>5, <2>2, <2>3, PlainCmd
  <2>5. LeadsTo(<<x1>>, u, Transferring, b, fall)
    BY <1>5, <1>4, <2>4, StateNexts
  <2> QED BY <2>1, <2>2, <2>4, <2>5, OneMore
<1>6. v \in Views /\ v.state = "tran" /\ ~v.armed /\ v.scr /\ v.phase = "none"
  BY DEF Transferring, InTran, BeforeScr, Sending, SendingScr, Identified
<1> QED BY <1>2, <1>5, <1>6

\* The switch function is asked for, or set.
LEMMA SwitchSetLeads ==
  ASSUME NEW b, NEW fall, NEW v \in Transferring
  PROVE  LeadsTo(<<Cmd("CMD6", 1), Do("rx", 0)>>, v, Transferring, b, fall)
<1>1. {"CMD6"} \subseteq Commands \ (BlockCmds \cup {"CMD13_PROG"}) /\ {"rx"} \subseteq Ops
  BY DEF Commands, BlockCmds, Ops
<1>2. PICK x0, x1 :
        /\ x0 = Cmd("CMD6", 1)
        /\ x1 = Do("rx", 0)
  OBVIOUS
<1>3. /\ x0 \in Steps /\ x0.op = "cmd" /\ x0.arg = 1 /\ x0.cmd = "CMD6"
      /\ x1 \in Steps /\ x1.op = "rx" /\ x1.arg = 0
  BY <1>1, <1>2, StepTypes
<1>4. ASSUME NEW w \in Views, w.state = "data", ~w.armed, w.scr, w.phase = "none"
      PROVE  LeadsTo(<<x1>>, w, Transferring, b, fall)
  <2>1. <<x1>> \in Seq(Steps) /\ <<x1>> # <<>> /\ <<x1>>[1] = x1 /\ Tail(<<x1>>) = <<>>
    BY <1>3
  <2>2. PICK u : u = Leads(x1, w)
    OBVIOUS
  <2>3. Allows(x1, w, b, fall)
    BY <1>3, <1>4 DEF Allows
  <2>4. /\ u \in Views /\ (w.scr => u.scr) /\ (w.whole => u.whole) /\ (~w.armed => ~u.armed)
        /\ u.state = "tran"
        /\ u.phase = IF 0 > 0 THEN "moved" ELSE w.phase
    BY <1>3, <1>4, <2>2, DoView
  <2>5. LeadsTo(<<>>, u, Transferring, b, fall)
    BY <1>4, <2>4, NoSteps DEF Transferring, InTran, BeforeScr, Sending, SendingScr, Identified
  <2> QED BY <2>1, <2>2, <2>3, <2>4, <2>5, OneMore
<1>5. ASSUME NEW w \in Views, w.state = "tran", ~w.armed, w.scr, w.phase = "none"
      PROVE  LeadsTo(<<x0, x1>>, w, Transferring, b, fall)
  <2>1. <<x0, x1>> \in Seq(Steps) /\ <<x0, x1>> # <<>> /\ <<x0, x1>>[1] = x0
        /\ Tail(<<x0, x1>>) = <<x1>>
    BY <1>3
  <2>2. PICK u : u = Leads(x0, w)
    OBVIOUS
  <2>3. w.state \in AllowedIn[x0.cmd] /\ (w.state = "prog" => "tran" \in AllowedIn[x0.cmd])
        /\ (x0.cmd = "CMD0" => w.state = "idle") /\ (x0.cmd \in AppCmds => w.app)
    BY <1>3, <1>5, AllowedValues DEF AppCmds, States, Selected
  <2>4. Allows(x0, w, b, fall) /\ u \in Views /\ u.state = StateNext("CMD6", w.state) /\ ~u.armed
        /\ u.scr /\ u.phase = w.phase /\ (w.whole => u.whole)
    BY <1>1, <1>3, <1>5, <2>2, <2>3, PlainCmd
  <2>5. LeadsTo(<<x1>>, u, Transferring, b, fall)
    BY <1>5, <1>4, <2>4, StateNexts
  <2> QED BY <2>1, <2>2, <2>4, <2>5, OneMore
<1>6. v \in Views /\ v.state = "tran" /\ ~v.armed /\ v.scr /\ v.phase = "none"
  BY DEF Transferring, InTran, BeforeScr, Sending, SendingScr, Identified
<1> QED BY <1>2, <1>5, <1>6

\* A test that may fail where it stands.
LEMMA SpecLeads ==
  ASSUME NEW b, NEW fall, Transferring \subseteq fall, NEW v \in Transferring
  PROVE  LeadsTo(<<Do("spec", 0)>>, v, Transferring, b, fall)
<1>1. {"spec"} \subseteq Ops
  BY DEF Commands, BlockCmds, Ops
<1>2. PICK x0 :
        /\ x0 = Do("spec", 0)
  OBVIOUS
<1>3. /\ x0 \in Steps /\ x0.op = "spec" /\ x0.arg = 0
  BY <1>1, <1>2, StepTypes
<1>4. ASSUME NEW w \in Views, w.state = "tran", ~w.armed, w.scr, w.phase = "none"
      PROVE  LeadsTo(<<x0>>, w, Transferring, b, fall)
  <2>1. <<x0>> \in Seq(Steps) /\ <<x0>> # <<>> /\ <<x0>>[1] = x0 /\ Tail(<<x0>>) = <<>>
    BY <1>3
  <2>2. PICK u : u = Leads(x0, w)
    OBVIOUS
  <2>3. Allows(x0, w, b, fall)
    BY <1>3, <1>4 DEF Transferring, InTran, Allows
  <2>4. /\ u \in Views /\ (w.scr => u.scr) /\ (w.whole => u.whole) /\ (~w.armed => ~u.armed)
        /\ u.state = w.state
        /\ u.phase = w.phase
    BY <1>3, <1>4, <2>2, DoView
  <2>5. LeadsTo(<<>>, u, Transferring, b, fall)
    BY <1>4, <2>4, NoSteps DEF Transferring, InTran, BeforeScr, Sending, SendingScr, Identified
  <2> QED BY <2>1, <2>2, <2>3, <2>4, <2>5, OneMore
<1>5. v \in Views /\ v.state = "tran" /\ ~v.armed /\ v.scr /\ v.phase = "none"
  BY DEF Transferring, InTran, BeforeScr, Sending, SendingScr, Identified
<1> QED BY <1>2, <1>4, <1>5

\* A test that may fail where it stands.
LEMMA FastLeads ==
  ASSUME NEW b, NEW fall, Transferring \subseteq fall, NEW v \in Transferring
  PROVE  LeadsTo(<<Do("fast", 0)>>, v, Transferring, b, fall)
<1>1. {"fast"} \subseteq Ops
  BY DEF Commands, BlockCmds, Ops
<1>2. PICK x0 :
        /\ x0 = Do("fast", 0)
  OBVIOUS
<1>3. /\ x0 \in Steps /\ x0.op = "fast" /\ x0.arg = 0
  BY <1>1, <1>2, StepTypes
<1>4. ASSUME NEW w \in Views, w.state = "tran", ~w.armed, w.scr, w.phase = "none"
      PROVE  LeadsTo(<<x0>>, w, Transferring, b, fall)
  <2>1. <<x0>> \in Seq(Steps) /\ <<x0>> # <<>> /\ <<x0>>[1] = x0 /\ Tail(<<x0>>) = <<>>
    BY <1>3
  <2>2. PICK u : u = Leads(x0, w)
    OBVIOUS
  <2>3. Allows(x0, w, b, fall)
    BY <1>3, <1>4 DEF Transferring, InTran, Allows
  <2>4. /\ u \in Views /\ (w.scr => u.scr) /\ (w.whole => u.whole) /\ (~w.armed => ~u.armed)
        /\ u.state = w.state
        /\ u.phase = w.phase
    BY <1>3, <1>4, <2>2, DoView
  <2>5. LeadsTo(<<>>, u, Transferring, b, fall)
    BY <1>4, <2>4, NoSteps DEF Transferring, InTran, BeforeScr, Sending, SendingScr, Identified
  <2> QED BY <2>1, <2>2, <2>3, <2>4, <2>5, OneMore
<1>5. v \in Views /\ v.state = "tran" /\ ~v.armed /\ v.scr /\ v.phase = "none"
  BY DEF Transferring, InTran, BeforeScr, Sending, SendingScr, Identified
<1> QED BY <1>2, <1>4, <1>5

\* A status that was read is cleared.
LEMMA ClearedLeads ==
  ASSUME NEW b, NEW fall, NEW w \in Transferring
  PROVE  LeadsTo(check_clear_read_status, w, Transferring, b, fall)
<1>1. w \in Views /\ w.state = "tran" /\ ~w.armed /\ w.scr /\ w.phase = "none"
  BY DEF Transferring, InTran
<1>2. {u \in Views : u.state = "tran" /\ ~u.armed /\ u.scr /\ (FALSE => u.whole)
      /\ u.phase = "none"} = Transferring
  BY DEF Transferring, InTran
<1>3. "none" = (IF "none" = "moved" THEN "checked" ELSE IF "none" = "written" THEN "kept"
      ELSE "none")
  OBVIOUS
<1>4. LeadsTo(<<Do("check", 0), Do("clear", 0), Do("clear_end", 0)>>, w, 
        {u \in Views : u.state = "tran" /\ ~u.armed /\ u.scr /\ (FALSE => u.whole)
          /\ u.phase = "none"}, b, fall)
  BY <1>1, <1>3, StatusCleared
<1> QED BY <1>2, <1>4 DEF check_clear_read_status

\* Before a block is asked for, when it has come, has come with others to
\* come, has been checked; has gone, has been checked, is on the card.
Asked == {v \in Ready : v.phase = "none"}
Moved == {v \in Ready : v.phase = "moved"}
MovedMany == {v \in Views : v.state = "data" /\ ~v.armed /\ v.scr /\ v.whole /\ v.phase = "moved"}
Checked == {v \in Ready : v.phase = "checked"}
Written == {v \in Views : v.state = "prog" /\ ~v.armed /\ v.scr /\ v.whole /\ v.phase = "written"}
KeptYet == {v \in Views : v.state = "prog" /\ ~v.armed /\ v.scr /\ v.whole /\ v.phase = "kept"}
Kept == {v \in Ready : v.phase = "kept"}


\* A block of the card is asked for and comes.
LEMMA BlockComes ==
  ASSUME NEW b, NEW fall, NEW a \in Nat, NEW v \in Asked, UnitFor(b, a) = b.at, OnCard(b, 1)
  PROVE  LeadsTo(<<Cmd("CMD17", a), Do("rx", 1)>>, v, Moved, b, fall)
<1>1. {"CMD17"} \subseteq Commands /\ {"rx"} \subseteq Ops
  BY DEF Commands, BlockCmds, Ops
<1>2. PICK x0, x1 :
        /\ x0 = Cmd("CMD17", a)
        /\ x1 = Do("rx", 1)
  OBVIOUS
<1>3. /\ x0 \in Steps /\ x0.op = "cmd" /\ x0.arg = a /\ x0.cmd = "CMD17"
      /\ x1 \in Steps /\ x1.op = "rx" /\ x1.arg = 1
  BY <1>1, <1>2, StepTypes
<1>4. ASSUME NEW w \in Views, w.state = "data", w.phase = "set", ~w.armed, w.scr, w.whole
      PROVE  LeadsTo(<<x1>>, w, Moved, b, fall)
  <2>1. <<x1>> \in Seq(Steps) /\ <<x1>> # <<>> /\ <<x1>>[1] = x1 /\ Tail(<<x1>>) = <<>>
    BY <1>3
  <2>2. PICK u : u = Leads(x1, w)
    OBVIOUS
  <2>3. Allows(x1, w, b, fall)
    BY <1>3, <1>4 DEF Allows
  <2>4. /\ u \in Views /\ (w.scr => u.scr) /\ (w.whole => u.whole) /\ (~w.armed => ~u.armed)
        /\ u.state = "tran"
        /\ u.phase = IF 1 > 0 THEN "moved" ELSE w.phase
    BY <1>3, <1>4, <2>2, DoView
  <2>5. LeadsTo(<<>>, u, Moved, b, fall)
    BY <1>4, <2>4, NoSteps DEF Asked, Moved, MovedMany, Checked, Written, KeptYet, Kept, Ready,
       InTran
  <2> QED BY <2>1, <2>2, <2>3, <2>4, <2>5, OneMore
<1>5. ASSUME NEW w \in Views, w.state = "tran", w.phase = "none", ~w.armed, w.scr, w.whole
      PROVE  LeadsTo(<<x0, x1>>, w, Moved, b, fall)
  <2>1. <<x0, x1>> \in Seq(Steps) /\ <<x0, x1>> # <<>> /\ <<x0, x1>>[1] = x0
        /\ Tail(<<x0, x1>>) = <<x1>>
    BY <1>3
  <2>2. PICK u : u = Leads(x0, w)
    OBVIOUS
  <2>3. Allows(x0, w, b, fall)
    BY <1>3, <1>5, BlockCmdAllowed DEF BlockCmds
  <2>4. u \in Views /\ u.state = StateNext("CMD17", w.state) /\ u.scr /\ (w.whole => u.whole)
        /\ ~u.armed /\ u.phase = "set"
    BY <1>3, <1>5, <2>2, BlockCmdView DEF BlockCmds
  <2>5. LeadsTo(<<x1>>, u, Moved, b, fall)
    BY <1>5, <1>4, <2>4, StateNexts
  <2> QED BY <2>1, <2>2, <2>3, <2>4, <2>5, OneMore
<1>6. v \in Views /\ v.state = "tran" /\ v.phase = "none" /\ ~v.armed /\ v.scr /\ v.whole
  BY DEF Asked, Moved, MovedMany, Checked, Written, KeptYet, Kept, Ready, InTran
<1> QED BY <1>2, <1>5, <1>6

\* The data mover takes the block.
LEMMA BlockComesToMover ==
  ASSUME NEW b, NEW fall, NEW a \in Nat, NEW v \in Asked, UnitFor(b, a) = b.at, OnCard(b, 1)
  PROVE  LeadsTo(<<Cmd("CMD17", a), Do("adm", 1)>>, v, Moved, b, fall)
<1>1. {"CMD17"} \subseteq Commands /\ {"adm"} \subseteq Ops
  BY DEF Commands, BlockCmds, Ops
<1>2. PICK x0, x1 :
        /\ x0 = Cmd("CMD17", a)
        /\ x1 = Do("adm", 1)
  OBVIOUS
<1>3. /\ x0 \in Steps /\ x0.op = "cmd" /\ x0.arg = a /\ x0.cmd = "CMD17"
      /\ x1 \in Steps /\ x1.op = "adm" /\ x1.arg = 1
  BY <1>1, <1>2, StepTypes
<1>4. ASSUME NEW w \in Views, w.state = "data", w.phase = "set", ~w.armed, w.scr, w.whole
      PROVE  LeadsTo(<<x1>>, w, Moved, b, fall)
  <2>1. <<x1>> \in Seq(Steps) /\ <<x1>> # <<>> /\ <<x1>>[1] = x1 /\ Tail(<<x1>>) = <<>>
    BY <1>3
  <2>2. PICK u : u = Leads(x1, w)
    OBVIOUS
  <2>3. Allows(x1, w, b, fall)
    BY <1>3, <1>4 DEF Allows
  <2>4. /\ u \in Views /\ (w.scr => u.scr) /\ (w.whole => u.whole) /\ (~w.armed => ~u.armed)
        /\ u.state = IF 1 > 1 THEN w.state ELSE "tran"
        /\ u.phase = IF 1 > 0 THEN "moved" ELSE w.phase
    BY <1>3, <1>4, <2>2, DoView
  <2>5. LeadsTo(<<>>, u, Moved, b, fall)
    BY <1>4, <2>4, NoSteps DEF Asked, Moved, MovedMany, Checked, Written, KeptYet, Kept, Ready,
       InTran
  <2> QED BY <2>1, <2>2, <2>3, <2>4, <2>5, OneMore
<1>5. ASSUME NEW w \in Views, w.state = "tran", w.phase = "none", ~w.armed, w.scr, w.whole
      PROVE  LeadsTo(<<x0, x1>>, w, Moved, b, fall)
  <2>1. <<x0, x1>> \in Seq(Steps) /\ <<x0, x1>> # <<>> /\ <<x0, x1>>[1] = x0
        /\ Tail(<<x0, x1>>) = <<x1>>
    BY <1>3
  <2>2. PICK u : u = Leads(x0, w)
    OBVIOUS
  <2>3. Allows(x0, w, b, fall)
    BY <1>3, <1>5, BlockCmdAllowed DEF BlockCmds
  <2>4. u \in Views /\ u.state = StateNext("CMD17", w.state) /\ u.scr /\ (w.whole => u.whole)
        /\ ~u.armed /\ u.phase = "set"
    BY <1>3, <1>5, <2>2, BlockCmdView DEF BlockCmds
  <2>5. LeadsTo(<<x1>>, u, Moved, b, fall)
    BY <1>5, <1>4, <2>4, StateNexts
  <2> QED BY <2>1, <2>2, <2>3, <2>4, <2>5, OneMore
<1>6. v \in Views /\ v.state = "tran" /\ v.phase = "none" /\ ~v.armed /\ v.scr /\ v.whole
  BY DEF Asked, Moved, MovedMany, Checked, Written, KeptYet, Kept, Ready, InTran
<1> QED BY <1>2, <1>5, <1>6

\* The data mover takes several, one after the other.
LEMMA BlocksCome ==
  ASSUME NEW b, NEW fall, NEW a \in Nat, NEW k \in Nat, k > 1, NEW v \in Asked,
         UnitFor(b, a) = b.at, OnCard(b, 1), OnCard(b, k)
  PROVE  LeadsTo(<<Cmd("CMD18", a), Do("adm", k)>>, v, MovedMany, b, fall)
<1>1. {"CMD18"} \subseteq Commands /\ {"adm"} \subseteq Ops
  BY DEF Commands, BlockCmds, Ops
<1>2. PICK x0, x1 :
        /\ x0 = Cmd("CMD18", a)
        /\ x1 = Do("adm", k)
  OBVIOUS
<1>3. /\ x0 \in Steps /\ x0.op = "cmd" /\ x0.arg = a /\ x0.cmd = "CMD18"
      /\ x1 \in Steps /\ x1.op = "adm" /\ x1.arg = k
  BY <1>1, <1>2, StepTypes
<1>4. ASSUME NEW w \in Views, w.state = "data", w.phase = "set", ~w.armed, w.scr, w.whole
      PROVE  LeadsTo(<<x1>>, w, MovedMany, b, fall)
  <2>1. <<x1>> \in Seq(Steps) /\ <<x1>> # <<>> /\ <<x1>>[1] = x1 /\ Tail(<<x1>>) = <<>>
    BY <1>3
  <2>2. PICK u : u = Leads(x1, w)
    OBVIOUS
  <2>3. Allows(x1, w, b, fall)
    BY <1>3, <1>4 DEF Allows
  <2>4. /\ u \in Views /\ (w.scr => u.scr) /\ (w.whole => u.whole) /\ (~w.armed => ~u.armed)
        /\ u.state = IF k > 1 THEN w.state ELSE "tran"
        /\ u.phase = IF k > 0 THEN "moved" ELSE w.phase
    BY <1>3, <1>4, <2>2, DoView
  <2>5. LeadsTo(<<>>, u, MovedMany, b, fall)
    BY <1>4, <2>4, NoSteps DEF Asked, Moved, MovedMany, Checked, Written, KeptYet, Kept, Ready,
       InTran
  <2> QED BY <2>1, <2>2, <2>3, <2>4, <2>5, OneMore
<1>5. ASSUME NEW w \in Views, w.state = "tran", w.phase = "none", ~w.armed, w.scr, w.whole
      PROVE  LeadsTo(<<x0, x1>>, w, MovedMany, b, fall)
  <2>1. <<x0, x1>> \in Seq(Steps) /\ <<x0, x1>> # <<>> /\ <<x0, x1>>[1] = x0
        /\ Tail(<<x0, x1>>) = <<x1>>
    BY <1>3
  <2>2. PICK u : u = Leads(x0, w)
    OBVIOUS
  <2>3. Allows(x0, w, b, fall)
    BY <1>3, <1>5, BlockCmdAllowed DEF BlockCmds
  <2>4. u \in Views /\ u.state = StateNext("CMD18", w.state) /\ u.scr /\ (w.whole => u.whole)
        /\ ~u.armed /\ u.phase = "set"
    BY <1>3, <1>5, <2>2, BlockCmdView DEF BlockCmds
  <2>5. LeadsTo(<<x1>>, u, MovedMany, b, fall)
    BY <1>5, <1>4, <2>4, StateNexts
  <2> QED BY <2>1, <2>2, <2>3, <2>4, <2>5, OneMore
<1>6. v \in Views /\ v.state = "tran" /\ v.phase = "none" /\ ~v.armed /\ v.scr /\ v.whole
  BY DEF Asked, Moved, MovedMany, Checked, Written, KeptYet, Kept, Ready, InTran
<1> QED BY <1>2, <1>5, <1>6

\* The card is told to stop sending.
LEMMA BlocksStop ==
  ASSUME NEW b, NEW fall, NEW a \in Nat, NEW v \in MovedMany
  PROVE  LeadsTo(<<Cmd("CMD12", a)>>, v, Moved, b, fall)
<1>1. {"CMD12"} \subseteq Commands \ (BlockCmds \cup {"CMD13_PROG"})
  BY DEF Commands, BlockCmds, Ops
<1>2. PICK x0 :
        /\ x0 = Cmd("CMD12", a)
  OBVIOUS
<1>3. /\ x0 \in Steps /\ x0.op = "cmd" /\ x0.arg = a /\ x0.cmd = "CMD12"
  BY <1>1, <1>2, StepTypes
<1>4. ASSUME NEW w \in Views, w.state = "data", w.phase = "moved", ~w.armed, w.scr, w.whole
      PROVE  LeadsTo(<<x0>>, w, Moved, b, fall)
  <2>1. <<x0>> \in Seq(Steps) /\ <<x0>> # <<>> /\ <<x0>>[1] = x0 /\ Tail(<<x0>>) = <<>>
    BY <1>3
  <2>2. PICK u : u = Leads(x0, w)
    OBVIOUS
  <2>3. w.state \in AllowedIn[x0.cmd] /\ (w.state = "prog" => "tran" \in AllowedIn[x0.cmd])
        /\ (x0.cmd = "CMD0" => w.state = "idle") /\ (x0.cmd \in AppCmds => w.app)
    BY <1>3, <1>4, AllowedValues DEF AppCmds, States, Selected
  <2>4. Allows(x0, w, b, fall) /\ u \in Views /\ u.state = StateNext("CMD12", w.state) /\ ~u.armed
        /\ u.scr /\ u.phase = w.phase /\ (w.whole => u.whole)
    BY <1>1, <1>3, <1>4, <2>2, <2>3, PlainCmd
  <2>5. LeadsTo(<<>>, u, Moved, b, fall)
    BY <1>4, <2>4, StateNexts, NoSteps DEF Asked, Moved, MovedMany, Checked, Written, KeptYet, Kept,
       Ready, InTran
  <2> QED BY <2>1, <2>2, <2>4, <2>5, OneMore
<1>5. v \in Views /\ v.state = "data" /\ v.phase = "moved" /\ ~v.armed /\ v.scr /\ v.whole
  BY DEF Asked, Moved, MovedMany, Checked, Written, KeptYet, Kept, Ready, InTran
<1> QED BY <1>2, <1>4, <1>5

\* A block is sent to the card.
LEMMA BlockGoes ==
  ASSUME NEW b, NEW fall, NEW a \in Nat, NEW v \in Asked, UnitFor(b, a) = b.at, OnCard(b, 1)
  PROVE  LeadsTo(<<Cmd("CMD24", a), Do("tx", 1)>>, v, Written, b, fall)
<1>1. {"CMD24"} \subseteq Commands /\ {"tx"} \subseteq Ops
  BY DEF Commands, BlockCmds, Ops
<1>2. PICK x0, x1 :
        /\ x0 = Cmd("CMD24", a)
        /\ x1 = Do("tx", 1)
  OBVIOUS
<1>3. /\ x0 \in Steps /\ x0.op = "cmd" /\ x0.arg = a /\ x0.cmd = "CMD24"
      /\ x1 \in Steps /\ x1.op = "tx" /\ x1.arg = 1
  BY <1>1, <1>2, StepTypes
<1>4. ASSUME NEW w \in Views, w.state = "rcv", w.phase = "set", ~w.armed, w.scr, w.whole
      PROVE  LeadsTo(<<x1>>, w, Written, b, fall)
  <2>1. <<x1>> \in Seq(Steps) /\ <<x1>> # <<>> /\ <<x1>>[1] = x1 /\ Tail(<<x1>>) = <<>>
    BY <1>3
  <2>2. PICK u : u = Leads(x1, w)
    OBVIOUS
  <2>3. Allows(x1, w, b, fall)
    BY <1>3, <1>4 DEF Allows
  <2>4. /\ u \in Views /\ (w.scr => u.scr) /\ (w.whole => u.whole) /\ (~w.armed => ~u.armed)
        /\ u.state = "prog"
        /\ u.phase = "written"
    BY <1>3, <1>4, <2>2, DoView
  <2>5. LeadsTo(<<>>, u, Written, b, fall)
    BY <1>4, <2>4, NoSteps DEF Asked, Moved, MovedMany, Checked, Written, KeptYet, Kept, Ready,
       InTran
  <2> QED BY <2>1, <2>2, <2>3, <2>4, <2>5, OneMore
<1>5. ASSUME NEW w \in Views, w.state = "tran", w.phase = "none", ~w.armed, w.scr, w.whole
      PROVE  LeadsTo(<<x0, x1>>, w, Written, b, fall)
  <2>1. <<x0, x1>> \in Seq(Steps) /\ <<x0, x1>> # <<>> /\ <<x0, x1>>[1] = x0
        /\ Tail(<<x0, x1>>) = <<x1>>
    BY <1>3
  <2>2. PICK u : u = Leads(x0, w)
    OBVIOUS
  <2>3. Allows(x0, w, b, fall)
    BY <1>3, <1>5, BlockCmdAllowed DEF BlockCmds
  <2>4. u \in Views /\ u.state = StateNext("CMD24", w.state) /\ u.scr /\ (w.whole => u.whole)
        /\ ~u.armed /\ u.phase = "set"
    BY <1>3, <1>5, <2>2, BlockCmdView DEF BlockCmds
  <2>5. LeadsTo(<<x1>>, u, Written, b, fall)
    BY <1>5, <1>4, <2>4, StateNexts
  <2> QED BY <2>1, <2>2, <2>3, <2>4, <2>5, OneMore
<1>6. v \in Views /\ v.state = "tran" /\ v.phase = "none" /\ ~v.armed /\ v.scr /\ v.whole
  BY DEF Asked, Moved, MovedMany, Checked, Written, KeptYet, Kept, Ready, InTran
<1> QED BY <1>2, <1>5, <1>6

\* The card is waited for until it has programmed the block.
LEMMA BlockKept ==
  ASSUME NEW b, NEW fall, NEW v \in KeptYet
  PROVE  LeadsTo(<<Cmd("CMD13_PROG", Rca), Do("prog", 0)>>, v, Kept, b, fall)
<1>1. {"CMD13_PROG"} \subseteq Commands /\ {"prog"} \subseteq Ops
  BY DEF Commands, BlockCmds, Ops
<1>2. PICK x0, x1 :
        /\ x0 = Cmd("CMD13_PROG", Rca)
        /\ x1 = Do("prog", 0)
  OBVIOUS
<1>3. /\ x0 \in Steps /\ x0.op = "cmd" /\ x0.arg = Rca /\ x0.cmd = "CMD13_PROG"
      /\ x1 \in Steps /\ x1.op = "prog" /\ x1.arg = 0
  BY <1>1, <1>2, StepTypes DEF Rca
<1>4. ASSUME NEW w \in Views, w.state = "prog", w.phase = "kept", w.armed, w.scr, w.whole
      PROVE  LeadsTo(<<x1>>, w, Kept, b, fall)
  <2>1. <<x1>> \in Seq(Steps) /\ <<x1>> # <<>> /\ <<x1>>[1] = x1 /\ Tail(<<x1>>) = <<>>
    BY <1>3
  <2>2. PICK u : u = Leads(x1, w)
    OBVIOUS
  <2>3. Allows(x1, w, b, fall)
    BY <1>3, <1>4 DEF Allows
  <2>4. /\ u \in Views /\ (w.scr => u.scr) /\ (w.whole => u.whole) /\ ~u.armed
        /\ u.state = "tran"
        /\ u.phase = w.phase
    BY <1>3, <1>4, <2>2, DoView
  <2>5. LeadsTo(<<>>, u, Kept, b, fall)
    BY <1>4, <2>4, NoSteps DEF Asked, Moved, MovedMany, Checked, Written, KeptYet, Kept, Ready,
       InTran
  <2> QED BY <2>1, <2>2, <2>3, <2>4, <2>5, OneMore
<1>5. ASSUME NEW w \in Views, w.state = "prog", w.phase = "kept", ~w.armed, w.scr, w.whole
      PROVE  LeadsTo(<<x0, x1>>, w, Kept, b, fall)
  <2>1. <<x0, x1>> \in Seq(Steps) /\ <<x0, x1>> # <<>> /\ <<x0, x1>>[1] = x0
        /\ Tail(<<x0, x1>>) = <<x1>>
    BY <1>3
  <2>2. PICK u : u = Leads(x0, w)
    OBVIOUS
  <2>3. Allows(x0, w, b, fall)
    BY <1>3, <1>5, ProgCmdAllowed DEF BlockCmds
  <2>4. u \in Views /\ u.state = StateNext("CMD13_PROG", w.state) /\ u.scr /\ (w.whole => u.whole)
        /\ u.armed /\ u.phase = w.phase
    BY <1>3, <1>5, <2>2, BlockCmdView DEF BlockCmds
  <2>5. LeadsTo(<<x1>>, u, Kept, b, fall)
    BY <1>5, <1>4, <2>4, StateNexts
  <2> QED BY <2>1, <2>2, <2>3, <2>4, <2>5, OneMore
<1>6. v \in Views /\ v.state = "prog" /\ v.phase = "kept" /\ ~v.armed /\ v.scr /\ v.whole
  BY DEF Asked, Moved, MovedMany, Checked, Written, KeptYet, Kept, Ready, InTran
<1> QED BY <1>2, <1>5, <1>6

\* The end of a block that has come is seen and cleared.
LEMMA BlockChecked ==
  ASSUME NEW b, NEW fall, NEW w \in Moved
  PROVE  LeadsTo(check_clear_read_status, w, Checked, b, fall)
<1>1. w \in Views /\ w.state = "tran" /\ ~w.armed /\ w.scr /\ w.phase = "moved" /\ w.whole
  BY DEF Asked, Moved, MovedMany, Checked, Written, KeptYet, Kept, Ready, InTran
<1>2. {u \in Views : u.state = "tran" /\ ~u.armed /\ u.scr /\ (TRUE => u.whole)
      /\ u.phase = "checked"} = Checked
  BY DEF Asked, Moved, MovedMany, Checked, Written, KeptYet, Kept, Ready, InTran
<1>3. "checked" = (IF "moved" = "moved" THEN "checked" ELSE IF "moved" = "written" THEN "kept"
      ELSE "moved")
  OBVIOUS
<1>4. LeadsTo(<<Do("check", 0), Do("clear", 0), Do("clear_end", 0)>>, w,
        {u \in Views : u.state = "tran" /\ ~u.armed /\ u.scr /\ (TRUE => u.whole)
          /\ u.phase = "checked"}, b, fall)
  BY <1>1, <1>3, StatusCleared
<1> QED BY <1>2, <1>4 DEF check_clear_read_status

\* The end of a block that has gone is seen and cleared.
LEMMA WriteChecked ==
  ASSUME NEW b, NEW fall, NEW w \in Written
  PROVE  LeadsTo(check_clear_write_status, w, KeptYet, b, fall)
<1>1. w \in Views /\ w.state = "prog" /\ ~w.armed /\ w.scr /\ w.phase = "written" /\ w.whole
  BY DEF Asked, Moved, MovedMany, Checked, Written, KeptYet, Kept, Ready, InTran
<1>2. {u \in Views : u.state = "prog" /\ ~u.armed /\ u.scr /\ (TRUE => u.whole)
      /\ u.phase = "kept"} = KeptYet
  BY DEF Asked, Moved, MovedMany, Checked, Written, KeptYet, Kept, Ready, InTran
<1>3. "kept" = (IF "written" = "moved" THEN "checked" ELSE IF "written" = "written" THEN "kept"
      ELSE "written")
  OBVIOUS
<1>4. LeadsTo(<<Do("check", 1), Do("clear", 1), Do("clear_end", 1)>>, w,
        {u \in Views : u.state = "prog" /\ ~u.armed /\ u.scr /\ (TRUE => u.whole)
          /\ u.phase = "kept"}, b, fall)
  BY <1>1, <1>3, StatusCleared
<1> QED BY <1>2, <1>4 DEF check_clear_write_status

\* A list followed by nothing is the list.
LEMMA AndNothing ==
  ASSUME NEW s \in Seq(Steps)
  PROVE  s \o <<>> = s
OBVIOUS

\* A read of one block through the FIFO leads to a block whose status was checked.
LEMMA ReadLeads ==
  ASSUME NEW b, NEW fall, NEW n \in Nat, b.at = n, NEW v \in Asked, Address(n) \in Nat,
         UnitFor(b, Address(n)) = n, OnCard(b, 1)
  PROVE  LeadsTo(read_a_block(n), v, Checked, b, fall)
<1>1. LeadsTo(<<Cmd("CMD17", Address(n)), Do("rx", 1)>>, v, Moved, b, fall)
  BY BlockComes
<1>2. \A w \in Moved \cap Views : LeadsTo(check_clear_read_status, w, Checked, b, fall)
  BY BlockChecked
<1> QED BY <1>1, <1>2, ClearSteps, Joined DEF read_a_block

\* The same through the data mover, one block or many of them.
LEMMA ReadByMoverLeads ==
  ASSUME NEW b, NEW fall, NEW n \in Nat, b.at = n, NEW v \in Asked, Address(n) \in Nat,
         UnitFor(b, Address(n)) = n, OnCard(b, 1), NEW k \in Nat \ {0}, OnCard(b, k)
  PROVE  LeadsTo(read_a_block_dm(n, k), v, Checked, b, fall)
<1>1. \A w \in Moved \cap Views : LeadsTo(check_clear_read_status, w, Checked, b, fall)
  BY BlockChecked
<1>2. CASE k = 1
  <2>1. LeadsTo(<<Cmd("CMD17", Address(n)), Do("adm", 1)>>, v, Moved, b, fall)
    BY BlockComesToMover
  <2>2. <<Cmd("CMD17", Address(n)), Do("adm", 1)>> \in Seq(Steps)
    BY <2>1 DEF LeadsTo
  <2>3. <<Cmd("CMD17", Address(n)), Do("adm", 1)>>
        \o <<>> = <<Cmd("CMD17", Address(n)), Do("adm", 1)>>
    BY <2>2, AndNothing
  <2>4. LeadsTo(<<Cmd("CMD17", Address(n)), Do("adm", 1)>> \o check_clear_read_status, v, Checked,
        b, fall)
    BY <1>1, <2>1, ClearSteps, Joined
  <2>5. read_a_block_dm(n, 1) = <<Cmd("CMD17", Address(n)), Do("adm", 1)>> \o <<>>
        \o check_clear_read_status
    BY DEF read_a_block_dm
  <2> QED BY <1>2, <2>3, <2>4, <2>5
<1>3. CASE k # 1
  <2>1. k > 1 /\ k \in Nat /\ k # 1
    BY <1>3
  <2>2. LeadsTo(<<Cmd("CMD18", Address(n)), Do("adm", k)>>, v, MovedMany, b, fall)
    BY <2>1, BlocksCome
  <2>3. \A w \in MovedMany \cap Views : LeadsTo(<<Cmd("CMD12", Address(n))>>, w, Moved, b, fall)
    BY BlocksStop
  <2>4. <<Cmd("CMD12", Address(n))>> \in Seq(Steps)
    BY StepTypes DEF Commands
  <2>5. LeadsTo(<<Cmd("CMD18", Address(n)), Do("adm", k)>> \o <<Cmd("CMD12", Address(n))>>, v,
        Moved, b, fall)
    BY <2>2, <2>3, <2>4, Joined
  <2>6. LeadsTo((<<Cmd("CMD18", Address(n)), Do("adm", k)>> \o <<Cmd("CMD12", Address(n))>>)
        \o check_clear_read_status, v, Checked, b, fall)
    BY <1>1, <2>5, ClearSteps, Joined
  <2>7. read_a_block_dm(n, k) = (<<Cmd("CMD18", Address(n)), Do("adm", k)>>
        \o <<Cmd("CMD12", Address(n))>>) \o check_clear_read_status
    BY <2>1 DEF read_a_block_dm
  <2> QED BY <2>6, <2>7
<1> QED BY <1>2, <1>3

\* A block is written, and the card has taken it, when its function ends.
LEMMA WriteLeads ==
  ASSUME NEW b, NEW fall, NEW n \in Nat, b.at = n, NEW v \in Asked, Address(n) \in Nat,
         UnitFor(b, Address(n)) = n, OnCard(b, 1)
  PROVE  LeadsTo(write_a_block(n), v, Kept, b, fall)
<1>1. LeadsTo(<<Cmd("CMD24", Address(n)), Do("tx", 1)>>, v, Written, b, fall)
  BY BlockGoes
<1>2. \A w \in Written \cap Views : LeadsTo(check_clear_write_status, w, KeptYet, b, fall)
  BY WriteChecked
<1>3. \A w \in KeptYet \cap Views : LeadsTo(<<Cmd("CMD13_PROG", Rca), Do("prog", 0)>>, w, Kept, b,
      fall)
  BY BlockKept
<1>4. <<Cmd("CMD13_PROG", Rca), Do("prog", 0)>> \in Seq(Steps)
  BY StepTypes DEF Commands, Ops, Rca
<1>5. LeadsTo(<<Cmd("CMD24", Address(n)), Do("tx", 1)>> \o check_clear_write_status, v, KeptYet, b,
      fall)
  BY <1>1, <1>2, ClearSteps, Joined
<1>6. LeadsTo((<<Cmd("CMD24", Address(n)), Do("tx", 1)>> \o check_clear_write_status)
                \o <<Cmd("CMD13_PROG", Rca), Do("prog", 0)>>, v, Kept, b, fall)
  BY <1>3, <1>4, <1>5, Joined
<1> QED BY <1>6 DEF write_a_block

\* A refusal comes to no end at all.
LEMMA RefusalLeads ==
  ASSUME NEW b, NEW fall, NEW v \in fall \cap Views, NEW goal, NEW w \in goal \cap Views
  PROVE  LeadsTo(<<Do("refuse", 0)>>, v, goal, b, fall)
<1>1. PICK x : x = Do("refuse", 0)
  OBVIOUS
<1>2. x \in Steps /\ x.op = "refuse"
  BY <1>1, StepTypes DEF Ops
<1>3. Allows(x, v, b, fall)
  BY <1>2 DEF Allows
<1>4. <<x>> \in Seq(Steps) /\ Len(<<x>>) = 1 /\ <<x>>[1] = x
  BY <1>2
<1> DEFINE h == [i \in 0..1 |-> IF i = 0 THEN v ELSE w]
<1>5. h \in [0..1 -> Views] /\ h[0] = v /\ h[1] = w
  OBVIOUS
<1> HIDE DEF h
<1>6. Path(<<x>>, v, h, b, fall)
  <2>1. \A i \in 1..Len(<<x>>) : i = 1
    BY <1>4
  <2> QED BY <1>2, <1>3, <1>4, <1>5, <2>1 DEF Path
<1>7. LeadsTo(<<x>>, v, goal, b, fall)
  BY <1>4, <1>5, <1>6 DEF LeadsTo
<1> QED BY <1>1, <1>7

\* The pieces that functions are put together from are lists of steps.
LEMMA ListSteps ==
  /\ check_clear_read_status \in Seq(Steps)
  /\ App("ACMD51") \in Seq(Steps) /\ App("ACMD6") \in Seq(Steps) /\ App("ACMD13") \in Seq(Steps)
  /\ card_set_block_size(8) \in Seq(Steps) /\ card_set_block_size(64) \in Seq(Steps)
  /\ <<Do("scr", 0)>> \in Seq(Steps) /\ <<Do("rx", 0)>> \in Seq(Steps)
  /\ <<Do("spec", 0)>> \in Seq(Steps) /\ <<Do("fast", 0)>> \in Seq(Steps)
  /\ <<Cmd("CMD13", Rca)>> \in Seq(Steps)
  /\ <<Cmd("CMD6", 0), Do("rx", 0)>> \in Seq(Steps)
    /\ <<Cmd("CMD6", 1), Do("rx", 0)>> \in Seq(Steps)
  /\ read_SCR_register \in Seq(Steps)
<1>1. {"scr", "rx", "spec", "fast"} \subseteq Ops
      /\ {"ACMD51", "ACMD6", "ACMD13", "CMD13", "CMD6"} \subseteq Commands
  BY DEF Ops, Commands
<1>2. App("ACMD51") \in Seq(Steps) /\ App("ACMD6") \in Seq(Steps) /\ App("ACMD13") \in Seq(Steps)
  BY <1>1, ClearSteps
<1>3. card_set_block_size(8) \in Seq(Steps) /\ card_set_block_size(64) \in Seq(Steps)
      /\ check_clear_read_status \in Seq(Steps)
  BY ClearSteps
<1>4. Do("scr", 0) \in Steps /\ Do("rx", 0) \in Steps /\ Do("spec", 0) \in Steps
      /\ Do("fast", 0) \in Steps
  BY <1>1, StepTypes
<1>5. Cmd("CMD13", Rca) \in Steps /\ Cmd("CMD6", 0) \in Steps /\ Cmd("CMD6", 1) \in Steps
  BY <1>1, StepTypes DEF Rca
<1>6. read_SCR_register \in Seq(Steps)
  BY <1>2, <1>3, <1>4 DEF read_SCR_register
<1> QED BY <1>2, <1>3, <1>4, <1>5, <1>6

\* The SCR is read.
LEMMA RegisterOfCard ==
  ASSUME NEW b, NEW fall, NEW v \in BeforeScr
  PROVE  LeadsTo(read_SCR_register, v, Transferring, b, fall)
<1>1. LeadsTo(card_set_block_size(8), v, BeforeScr, b, fall)
  BY ScrSizeLeads
<1>2. \A w \in BeforeScr \cap Views : LeadsTo(App("ACMD51"), w, SendingScr, b, fall)
  BY ScrAskLeads
<1>3. App("ACMD51") \in Seq(Steps)
  BY ListSteps
<1>4. LeadsTo(card_set_block_size(8) \o App("ACMD51"), v, SendingScr, b, fall)
  BY <1>1, <1>2, <1>3, Joined
<1>5. \A w \in SendingScr \cap Views : LeadsTo(<<Do("scr", 0)>>, w, Transferring, b, fall)
  BY ScrLeads
<1>6. <<Do("scr", 0)>> \in Seq(Steps)
  BY ListSteps
<1>7. LeadsTo((card_set_block_size(8) \o App("ACMD51")) \o <<Do("scr", 0)>>, v, Transferring, b,
      fall)
  BY <1>4, <1>5, <1>6, Joined
<1> QED BY <1>7 DEF read_SCR_register

\* card_transfer_init.
LEMMA TransferLeads ==
  ASSUME NEW b, NEW fall, NEW v \in Identified
  PROVE  LeadsTo(card_transfer_init, v, Transferring, b, fall)
<1>1. LeadsTo(<<Cmd("CMD9", Rca), Cmd("CMD10", Rca), Cmd("CMD7", Rca)>>, v, BeforeScr, b, fall)
  BY SelectLeads
<1>2. \A w \in BeforeScr \cap Views : LeadsTo(read_SCR_register, w, Transferring, b, fall)
  BY RegisterOfCard
<1>3. read_SCR_register \in Seq(Steps)
  BY ListSteps
<1>4. LeadsTo(<<Cmd("CMD9", Rca), Cmd("CMD10", Rca), Cmd("CMD7", Rca)>> \o read_SCR_register, v,
      Transferring, b, fall)
  BY <1>1, <1>2, <1>3, Joined
<1> DEFINE f == <<Cmd("CMD9", Rca), Cmd("CMD10", Rca), Cmd("CMD7", Rca)>> \o read_SCR_register
           g == f \o (IF mmcBuild.fourBit THEN App("ACMD6") ELSE <<>>)
<1>5. LeadsTo(g, v, Transferring, b, fall)
  <2>1. CASE mmcBuild.fourBit
    <3>1. \A w \in Transferring \cap Views : LeadsTo(App("ACMD6"), w, Transferring, b, fall)
      BY BusLeads
    <3>2. g = f \o App("ACMD6")
      BY <2>1
    <3> HIDE DEF f, g
    <3> QED BY <3>1, <3>2, <1>4, ListSteps, Joined DEF f
  <2>2. CASE ~mmcBuild.fourBit
    <3>1. f \in Seq(Steps)
      BY <1>4 DEF LeadsTo
    <3>2. g = f \o <<>>
      BY <2>2
    <3> HIDE DEF f, g
    <3> QED BY <3>1, <3>2, <1>4, AndNothing DEF f
  <2> QED BY <2>1, <2>2
<1>6. \A w \in Transferring \cap Views : LeadsTo(<<Cmd("CMD13", Rca)>>, w, Transferring, b, fall)
  BY StateLeads
<1>7. LeadsTo(g \o <<Cmd("CMD13", Rca)>>, v, Transferring, b, fall)
  <2> HIDE DEF g
  <2> QED BY <1>5, <1>6, ListSteps, Joined
<1> QED BY <1>7 DEF card_transfer_init

\* read_SD_status.
LEMMA StatusLeads ==
  ASSUME NEW b, NEW fall, NEW v \in Transferring
  PROVE  LeadsTo(read_SD_status, v, Transferring, b, fall)
<1>1. LeadsTo(card_set_block_size(64), v, Transferring, b, fall)
  BY StatusSizeLeads
<1>2. \A w \in Transferring \cap Views : LeadsTo(App("ACMD13"), w, Sending, b, fall)
  BY StatusAskLeads
<1>3. App("ACMD13") \in Seq(Steps)
  BY ListSteps
<1>4. LeadsTo(card_set_block_size(64) \o App("ACMD13"), v, Sending, b, fall)
  BY <1>1, <1>2, <1>3, Joined
<1>5. \A w \in Sending \cap Views : LeadsTo(<<Do("rx", 0)>>, w, Transferring, b, fall)
  BY RegisterLeads
<1>6. <<Do("rx", 0)>> \in Seq(Steps)
  BY ListSteps
<1>7. LeadsTo((card_set_block_size(64) \o App("ACMD13")) \o <<Do("rx", 0)>>, v, Transferring, b,
      fall)
  BY <1>4, <1>5, <1>6, Joined
<1>8. \A w \in Transferring \cap Views : LeadsTo(check_clear_read_status, w, Transferring, b, fall)
  BY ClearedLeads
<1>9. check_clear_read_status \in Seq(Steps)
  BY ListSteps
<1>10. LeadsTo(((card_set_block_size(64) \o App("ACMD13")) \o <<Do("rx", 0)>>)
       \o check_clear_read_status, v, Transferring, b, fall)
  BY <1>7, <1>8, <1>9, Joined
<1> QED BY <1>10 DEF read_SD_status

\* switch_mode, which may fail where its tests stand.
LEMMA SwitchLeads ==
  ASSUME NEW b, NEW fall, Transferring \subseteq fall, NEW v \in Transferring
  PROVE  LeadsTo(switch_mode, v, Transferring, b, fall)
<1>1. LeadsTo(<<Do("spec", 0)>>, v, Transferring, b, fall)
  BY SpecLeads
<1>2. \A w \in Transferring \cap Views : LeadsTo(card_set_block_size(64), w, Transferring, b, fall)
  BY StatusSizeLeads
<1>3. card_set_block_size(64) \in Seq(Steps)
  BY ListSteps
<1>4. LeadsTo(<<Do("spec", 0)>> \o card_set_block_size(64), v, Transferring, b, fall)
  BY <1>1, <1>2, <1>3, Joined
<1>5. \A w \in Transferring \cap Views : LeadsTo(<<Cmd("CMD6", 0), Do("rx", 0)>>, w, Transferring,
      b, fall)
  BY SwitchAskLeads
<1>6. <<Cmd("CMD6", 0), Do("rx", 0)>> \in Seq(Steps)
  BY ListSteps
<1>7. LeadsTo((<<Do("spec", 0)>> \o card_set_block_size(64)) \o <<Cmd("CMD6", 0), Do("rx", 0)>>, v,
      Transferring, b, fall)
  BY <1>4, <1>5, <1>6, Joined
<1>8. \A w \in Transferring \cap Views : LeadsTo(check_clear_read_status, w, Transferring, b, fall)
  BY ClearedLeads
<1>9. check_clear_read_status \in Seq(Steps)
  BY ListSteps
<1>10. LeadsTo(((<<Do("spec", 0)>> \o card_set_block_size(64)) \o <<Cmd("CMD6", 0), Do("rx", 0)>>)
       \o check_clear_read_status, v, Transferring, b, fall)
  BY <1>7, <1>8, <1>9, Joined
<1>11. \A w \in Transferring \cap Views : LeadsTo(<<Do("fast", 0)>>, w, Transferring, b, fall)
  BY FastLeads
<1>12. <<Do("fast", 0)>> \in Seq(Steps)
  BY ListSteps
<1>13. LeadsTo((((<<Do("spec", 0)>> \o card_set_block_size(64)) \o <<Cmd("CMD6", 0), Do("rx", 0)>>)
       \o check_clear_read_status) \o <<Do("fast", 0)>>, v, Transferring, b, fall)
  BY <1>10, <1>11, <1>12, Joined
<1>14. \A w \in Transferring \cap Views : LeadsTo(<<Cmd("CMD6", 1), Do("rx", 0)>>, w, Transferring,
       b, fall)
  BY SwitchSetLeads
<1>15. <<Cmd("CMD6", 1), Do("rx", 0)>> \in Seq(Steps)
  BY ListSteps
<1>16. LeadsTo(((((<<Do("spec", 0)>> \o card_set_block_size(64)) \o <<Cmd("CMD6", 0), Do("rx", 0)>>)
       \o check_clear_read_status) \o <<Do("fast", 0)>>) \o <<Cmd("CMD6", 1), Do("rx", 0)>>, v,
         Transferring, b, fall)
  BY <1>13, <1>14, <1>15, Joined
<1>17. \A w \in Transferring \cap Views : LeadsTo(check_clear_read_status, w, Transferring, b, fall)
  BY ClearedLeads
<1>18. check_clear_read_status \in Seq(Steps)
  BY ListSteps
<1>19. LeadsTo((((((<<Do("spec", 0)>> \o card_set_block_size(64))
       \o <<Cmd("CMD6", 0), Do("rx", 0)>>) \o check_clear_read_status) \o <<Do("fast", 0)>>)
         \o <<Cmd("CMD6", 1), Do("rx", 0)>>) \o check_clear_read_status, v, Transferring, b, fall)
  BY <1>16, <1>17, <1>18, Joined
<1> QED BY <1>19 DEF switch_mode

\* The addresses of a block that is asked for are its own.
LEMMA Addresses ==
  ASSUME NEW b, NEW n \in Nat, b.at = n, b.kind.hc \in BOOLEAN, mmcDrv.highCapacity <=> b.kind.hc
  PROVE  Address(n) \in Nat /\ UnitFor(b, Address(n)) = n
<1>1. CASE b.kind.hc
  BY <1>1 DEF Address, UnitFor
<1>2. CASE ~b.kind.hc
  <2>1. Address(n) = n * 512 /\ UnitFor(b, Address(n)) = (n * 512) \div 512
    BY <1>2 DEF Address, UnitFor, BLOCK_SIZE
  <2> QED BY <2>1
<1> QED BY <1>1, <1>2

\* Before the first block is read its length is set.
LEMMA LengthLeads ==
  ASSUME NEW b, NEW fall, NEW v \in Transferring
  PROVE  LeadsTo(card_set_block_size(BLOCK_SIZE), v, Asked, b, fall)
<1>1. {"CMD16"} \subseteq Commands \ (BlockCmds \cup {"CMD13_PROG"})
  BY DEF Commands, BlockCmds, Ops
<1>2. PICK x0 :
        /\ x0 = Cmd("CMD16", BLOCK_SIZE)
  OBVIOUS
<1>3. /\ x0 \in Steps /\ x0.op = "cmd" /\ x0.arg = BLOCK_SIZE /\ x0.cmd = "CMD16"
  BY <1>1, <1>2, StepTypes DEF BLOCK_SIZE
<1>4. ASSUME NEW w \in Views, w.state = "tran", ~w.armed, w.scr, w.phase = "none"
      PROVE  LeadsTo(<<x0>>, w, Asked, b, fall)
  <2>1. <<x0>> \in Seq(Steps) /\ <<x0>> # <<>> /\ <<x0>>[1] = x0 /\ Tail(<<x0>>) = <<>>
    BY <1>3
  <2>2. PICK u : u = Leads(x0, w)
    OBVIOUS
  <2>3. w.state \in AllowedIn[x0.cmd] /\ (w.state = "prog" => "tran" \in AllowedIn[x0.cmd])
        /\ (x0.cmd = "CMD0" => w.state = "idle") /\ (x0.cmd \in AppCmds => w.app)
    BY <1>3, <1>4, AllowedValues DEF AppCmds, States, Selected
  <2>4. Allows(x0, w, b, fall) /\ u \in Views /\ u.state = StateNext("CMD16", w.state) /\ ~u.armed
        /\ u.scr /\ u.phase = w.phase /\ u.whole
    BY <1>1, <1>3, <1>4, <2>2, <2>3, PlainCmd
  <2>5. LeadsTo(<<>>, u, Asked, b, fall)
    BY <1>4, <2>4, StateNexts, NoSteps DEF Asked, Ready, InTran, Transferring
  <2> QED BY <2>1, <2>2, <2>4, <2>5, OneMore
<1>5. v \in Views /\ v.state = "tran" /\ ~v.armed /\ v.scr /\ v.phase = "none"
  BY DEF Asked, Ready, InTran, Transferring
<1> QED BY <1>2, <1>4, <1>5 DEF card_set_block_size

\* The stages of the initialisation.
LEMMA StagesLead ==
  ASSUME NEW b, NEW fall, Transferring \subseteq fall
  PROVE  /\ \A v \in Identified : LeadsTo(Stage(2), v, Transferring, b, fall)
         /\ \A v \in Transferring : LeadsTo(Stage(3), v, Transferring, b, fall)
         /\ \A v \in Transferring : LeadsTo(Stage(4), v, Transferring, b, fall)
         /\ b.at = 0 /\ b.kind.hc \in BOOLEAN /\ (mmcDrv.highCapacity <=> b.kind.hc)
           /\ OnCard(b, 1) =>
              \A v \in Transferring : LeadsTo(Stage(5), v, Checked, b, fall)
<1>1. Stage(2) = card_transfer_init /\ Stage(3) = read_SD_status
      /\ Stage(4) = (IF mmcBuild.highSpeed THEN switch_mode ELSE <<Do("refuse", 0)>>)
      /\ Stage(5) = card_set_block_size(BLOCK_SIZE)
                      \o (IF mmcBuild.mult > 1 THEN read_a_block_dm(0, 1) ELSE read_a_block(0))
  BY DEF Stage
<1>2. \A v \in Identified : LeadsTo(Stage(2), v, Transferring, b, fall)
  BY <1>1, TransferLeads
<1>3. \A v \in Transferring : LeadsTo(Stage(3), v, Transferring, b, fall)
  BY <1>1, StatusLeads
<1>4. ASSUME NEW v \in Transferring
      PROVE  LeadsTo(Stage(4), v, Transferring, b, fall)
  <2>1. CASE mmcBuild.highSpeed
    BY <1>1, <2>1, SwitchLeads
  <2>2. CASE ~mmcBuild.highSpeed
    <3>1. v \in fall \cap Views /\ v \in Transferring \cap Views
      BY DEF Transferring
    <3> QED BY <1>1, <2>2, <3>1, RefusalLeads
  <2> QED BY <2>1, <2>2
<1>5. ASSUME b.at = 0, b.kind.hc \in BOOLEAN, mmcDrv.highCapacity <=> b.kind.hc, OnCard(b, 1),
      NEW v \in Transferring
      PROVE  LeadsTo(Stage(5), v, Checked, b, fall)
  <2>1. LeadsTo(card_set_block_size(BLOCK_SIZE), v, Asked, b, fall)
    BY LengthLeads
  <2>2. Address(0) \in Nat /\ UnitFor(b, Address(0)) = 0
    BY <1>5, Addresses
  <2>3. PICK r : r = (IF mmcBuild.mult > 1 THEN read_a_block_dm(0, 1) ELSE read_a_block(0))
    OBVIOUS
  <2>4. \A w \in Asked : LeadsTo(r, w, Checked, b, fall)
    <3>1. CASE mmcBuild.mult > 1
      BY <2>2, <2>3, <3>1, <1>5, ReadByMoverLeads
    <3>2. CASE ~(mmcBuild.mult > 1)
      BY <2>2, <2>3, <3>2, <1>5, ReadLeads
    <3> QED BY <3>1, <3>2
  <2>5. r \in Seq(Steps)
    <3>1. PICK u \in Asked : TRUE
      <4>1. [state |-> "tran", app |-> FALSE, whole |-> TRUE, armed |-> FALSE, scr |-> TRUE,
            phase |-> "none"] \in Asked
        BY DEF Asked, Ready, InTran, Views, States, Selected, Phases
      <4> QED BY <4>1
    <3> QED BY <3>1, <2>4 DEF LeadsTo
  <2>6. LeadsTo(card_set_block_size(BLOCK_SIZE) \o r, v, Checked, b, fall)
    BY <2>1, <2>4, <2>5, Joined
  <2> QED BY <1>1, <2>3, <2>6
<1> QED BY <1>2, <1>3, <1>4, <1>5

\* A round of a call.
LEMMA RoundLeads ==
  ASSUME NEW b, NEW fall, NEW n \in Nat, b.at = n, NEW left \in Nat \ {0},
         NEW kind \in {"read", "write"},
         NEW i, i = LeastOf(mmcBuild.mult, left), mmcBuild.mult \in Nat \ {0},
         b.kind.hc \in BOOLEAN, mmcDrv.highCapacity <=> b.kind.hc, OnCard(b, i),
           b.kind.units \in Nat, b.off \in BOOLEAN,
         NEW v \in Asked, Asked \subseteq fall
  PROVE  LeadsTo(Round(kind, n, left), v, IF kind = "read" THEN Checked ELSE Kept, b, fall)
<1>1. Address(n) \in Nat /\ UnitFor(b, Address(n)) = n
  BY Addresses
<1>2. i \in Nat \ {0}
  BY DEF LeastOf
<1>3. OnCard(b, 1)
  BY <1>2 DEF OnCard
<1>4. CASE kind = "read"
  <2>1. CASE i = 1
    <3>1. Round(kind, n, left) = read_a_block(n)
      BY <1>4, <2>1 DEF Round
    <3> QED BY <1>1, <1>3, <1>4, <3>1, ReadLeads
  <2>2. CASE i # 1
    <3>1. Round(kind, n, left) = read_a_block_dm(n, i)
      BY <1>4, <2>2 DEF Round
    <3> QED BY <1>1, <1>2, <1>3, <1>4, <3>1, ReadByMoverLeads
  <2> QED BY <2>1, <2>2
<1>5. CASE kind = "write"
  <2>1. CASE i = 1
    <3>1. Round(kind, n, left) = write_a_block(n)
      BY <1>5, <2>1 DEF Round
    <3> QED BY <1>1, <1>3, <1>5, <3>1, WriteLeads
  <2>2. CASE i # 1
    <3>1. Round(kind, n, left) = <<Do("refuse", 0)>>
      BY <1>5, <2>2 DEF Round, write_a_block_dm
    <3>2. [state |-> "tran", app |-> FALSE, whole |-> TRUE, armed |-> FALSE, scr |-> TRUE,
          phase |-> "kept"] \in Kept \cap Views
      BY DEF Kept, Ready, InTran, Views, States, Selected, Phases
    <3>3. v \in fall \cap Views
      BY DEF Asked, Ready
    <3>4. LeadsTo(<<Do("refuse", 0)>>, v, Kept, b, fall)
      BY <3>2, <3>3, RefusalLeads
    <3> QED BY <1>5, <3>1, <3>4
  <2> QED BY <2>1, <2>2
<1> QED BY <1>4, <1>5

-----------------------------------------------------------------------------
(* What every step may count on.                                            *)

\* The fields of the variables.
LEMMA Fields ==
  ASSUME TypesOK
  PROVE  /\ sdCard.kind \in Cards /\ sdCard.state \in States /\ sdCard.app \in BOOLEAN
            /\ sdCard.up \in BOOLEAN
         /\ sdCard.blocklen \in Nat /\ sdCard.unit \in Nat /\ sdCard.good \in BOOLEAN
         /\ sdCard.fresh \in BOOLEAN /\ sdCard.legal \in BOOLEAN /\ sdCard.off \in BOOLEAN
         /\ sdCard.kind.units \in Nat \ {0} /\ sdCard.kind.hc \in BOOLEAN
           /\ sdCard.kind.blLen \in Nat \ {0}
         /\ sdcc.flags \subseteq Flags /\ sdcc.coming \subseteq Flags /\ sdcc.armed \in BOOLEAN
         /\ sdcc.mclk \in [1..4 -> Nat] /\ sdcc.hclk \subseteq 1..4 /\ sdcc.pins \subseteq 1..4
         /\ mmcDrv.scrValid \in BOOLEAN /\ mmcDrv.hcSupport \in BOOLEAN
           /\ mmcDrv.highCapacity \in BOOLEAN
         /\ mmcDrv.ready \in BOOLEAN /\ mmcDrv.dev \in [ops : BOOLEAN, blksz : Nat, lba : Nat]
         /\ mmcRun.todo \in Seq(Steps) /\ mmcRun.ok \in BOOLEAN
         /\ mmcCall.kind \in {"none", "init", "read", "write"} /\ mmcCall.stage \in 0..5
         /\ mmcCall.blk \in Nat /\ mmcCall.left \in Nat /\ mmcCall.run \in Nat
         /\ mmcFaults \in Nat /\ mmcFaults <= MaxFaults /\ MaxFaults \in Nat
         /\ mmcBuild.mult \in Nat \ {0} /\ SDC_INSTANCE \in 1..4
         /\ media.last \in Nat /\ media.blksz \in Nat /\ sdPc \in Stages
         /\ sdReq.kind \in {"none", "read", "write"} /\ sdReq.lba \in Nat /\ sdReq.size \in Nat
<1>1. /\ sdCard.kind \in Cards /\ sdCard.state \in States /\ sdCard.app \in BOOLEAN
         /\ sdCard.up \in BOOLEAN
      /\ sdCard.blocklen \in Nat /\ sdCard.unit \in Nat /\ sdCard.good \in BOOLEAN
      /\ sdCard.fresh \in BOOLEAN /\ sdCard.legal \in BOOLEAN /\ sdCard.off \in BOOLEAN
  BY DEF TypesOK, CardSet
<1>2. /\ sdcc.flags \subseteq Flags /\ sdcc.coming \subseteq Flags /\ sdcc.armed \in BOOLEAN
      /\ sdcc.mclk \in [1..4 -> Nat] /\ sdcc.hclk \subseteq 1..4 /\ sdcc.pins \subseteq 1..4
  BY DEF TypesOK, ControllerSet
<1>3. /\ mmcDrv.scrValid \in BOOLEAN /\ mmcDrv.hcSupport \in BOOLEAN
         /\ mmcDrv.highCapacity \in BOOLEAN
      /\ mmcDrv.ready \in BOOLEAN /\ mmcDrv.dev \in [ops : BOOLEAN, blksz : Nat, lba : Nat]
  BY DEF TypesOK, DriverSet
<1>4. mmcRun.todo \in Seq(Steps) /\ mmcRun.ok \in BOOLEAN
  BY DEF TypesOK, RunSet
<1>5. /\ mmcCall.kind \in {"none", "init", "read", "write"} /\ mmcCall.stage \in 0..5
      /\ mmcCall.blk \in Nat /\ mmcCall.left \in Nat /\ mmcCall.run \in Nat
  BY DEF TypesOK, CallSet
<1>6. /\ media.last \in Nat /\ media.blksz \in Nat /\ sdPc \in Stages
      /\ sdReq.kind \in {"none", "read", "write"} /\ sdReq.lba \in Nat /\ sdReq.size \in Nat
  BY DEF TypesOK, RequestSet
<1>7. /\ mmcFaults \in Nat /\ mmcFaults <= MaxFaults /\ MaxFaults \in Nat
      /\ mmcBuild.mult \in Nat \ {0} /\ SDC_INSTANCE \in 1..4
  BY MmcAssumption DEF TypesOK
<1>8. sdCard.kind.units \in Nat \ {0} /\ sdCard.kind.hc \in BOOLEAN
      /\ sdCard.kind.blLen \in Nat \ {0}
  BY <1>1, MmcAssumption
<1> QED BY <1>1, <1>2, <1>3, <1>4, <1>5, <1>6, <1>7, <1>8

\* A step that is to come is allowed in the view the driver has, and the
\* others lead on from it.
LEMMA AtWork ==
  ASSUME TypesOK, Places, RunFacts, DriverStands, mmcRun.todo # <<>>, Head1.op # "stuck"
  PROVE  /\ Going /\ ~Stopped /\ mmcRun.ok
         /\ Head1 \in Steps /\ Tail(mmcRun.todo) \in Seq(Steps)
         /\ \E v \in Views :
              /\ Shows(v) /\ Allows(Head1, v, Target, Fall)
              /\ Head1.op # "refuse" => LeadsTo(Tail(mmcRun.todo), Leads(Head1, v), Goal, Target,
                Fall)
              /\ LeadsTo(mmcRun.todo, v, Goal, Target, Fall)
              /\ Later => v.state \in Selected /\ v.scr
<1>1. mmcRun.ok /\ ~Stopped
  BY DEF RunFacts, Stopped
<1>2. Going
  <2>1. sdPc # "off" /\ mmcCall.kind # "none"
    BY <1>1 DEF Places, RunFacts
  <2>2. mmcCall.kind \in {"none", "init", "read", "write"}
    BY Fields
  <2> QED BY <1>1, <2>1, <2>2 DEF Going
<1>3. PICK v \in Views : Stands(v)
  BY <1>2 DEF DriverStands
<1>4. mmcRun.todo # <<Do("stuck", 0)>>
  <2>1. Do("stuck", 0).op = "stuck"
    BY DEF Do
  <2>2. <<Do("stuck", 0)>>[1] = Do("stuck", 0)
    OBVIOUS
  <2> QED BY <2>1, <2>2 DEF Head1
<1>5. Shows(v) /\ LeadsTo(mmcRun.todo, v, Goal, Target, Fall)
      /\ (Later => v.state \in Selected /\ v.scr)
  BY <1>1, <1>3, <1>4 DEF Stands
<1>6. /\ mmcRun.todo[1] \in Steps /\ Tail(mmcRun.todo) \in Seq(Steps)
      /\ Allows(mmcRun.todo[1], v, Target, Fall)
      /\ mmcRun.todo[1].op # "refuse" => LeadsTo(Tail(mmcRun.todo), Leads(mmcRun.todo[1], v), Goal,
        Target, Fall)
  BY <1>5, FirstStep
<1> QED BY <1>1, <1>2, <1>5, <1>6 DEF Head1

\* A step that is allowed keeps a card that is selected, and what was read.
LEMMA LeadsStays ==
  ASSUME NEW v \in Views, NEW x \in Steps, NEW b, NEW fall, Allows(x, v, b, fall),
         v.state \in Selected, v.scr, NEW w, w = Leads(x, v)
  PROVE  w \in Views /\ w.state \in Selected /\ w.scr
<1>1. CASE x.op = "cmd"
  <2>1. CmdAllows(x.cmd, x.arg, v, b)
    BY <1>1 DEF Allows
  <2>2. x.cmd \in Commands /\ v.state \in AllowedIn[x.cmd] /\ x.arg \in Nat
    BY <2>1, AllowedValues, StepFields DEF CmdAllows
  <2>3. x.cmd \notin {"CMD2", "CMD3", "ACMD41"}
    BY <2>2, AllowedValues DEF Selected
  <2>4. StateNext(x.cmd, v.state) \in Selected
    BY <2>3 DEF StateNext, Selected
  <2>5. w = CmdLeads(x.cmd, x.arg, v)
    BY <1>1 DEF Leads
  <2> QED BY <2>2, <2>4, <2>5, CmdView
<1>2. CASE x.op # "cmd"
  <2>1. w \in Views
    BY LeadsView
  <2>2. (x.op # "scr" => w.scr = v.scr) /\ (x.op = "scr" => w.scr)
    BY <1>2, DoView
  <2>3. /\ x.op \in {"rx", "scr", "prog"} => w.state = "tran"
        /\ x.op = "adm" => w.state = IF x.arg > 1 THEN v.state ELSE "tran"
        /\ x.op = "tx" => w.state = "prog"
        /\ x.op \in {"check", "clear", "clear_end", "spec", "fast", "refuse", "stuck"}
          => w.state = v.state
    BY <1>2, DoView
  <2>4. x.op \in Ops
    BY StepFields
  <2>5. w.state \in Selected
    BY <1>2, <2>3, <2>4 DEF Ops, Selected
  <2>6. v.scr \in BOOLEAN /\ w.scr \in BOOLEAN
    BY <2>1 DEF Views
  <2> QED BY <2>1, <2>2, <2>5, <2>6
<1> QED BY <1>1, <1>2

-----------------------------------------------------------------------------
(* Steps of a function and of the hardware: the call stays as it is.        *)

WorkFrame ==
  /\ UNCHANGED <<mmcBuild, sdcn, mmcCall, mmcGot, sdPc, media, sdReq>>
  /\ sdCard'.kind = sdCard.kind /\ sdCard'.off = sdCard.off
  /\ \/ sdCard'.disk = sdCard.disk
     \/ mmcRun.todo # <<>> /\ sdCard'.disk = [sdCard.disk EXCEPT ![mmcCall.blk] = mmcCall.run]
  /\ sdcc'.mclk = sdcc.mclk /\ sdcc'.hclk = sdcc.hclk
  /\ mmcDrv'.dev = mmcDrv.dev /\ mmcDrv'.ready = mmcDrv.ready
  /\ mmcRun' # mmcRun =>
       mmcRun.todo # <<>> /\ (mmcRun' = Fails \/ (mmcRun'.ok = mmcRun.ok /\ Head1.op # "refuse"))

\* What is asked of the driver stays.
LEMMA FrameSame ==
  ASSUME WorkFrame
  PROVE  /\ Goal' = Goal /\ Target' = Target /\ Fall' = Fall
         /\ (Later' <=> Later) /\ Base' = Base /\ (InCall' <=> InCall) /\ (Whole' <=> Whole)
<1>1. mmcCall' = mmcCall /\ sdCard'.kind = sdCard.kind /\ sdCard'.off = sdCard.off /\ media' = media
  BY DEF WorkFrame
<1>2. Goal' = Goal
  BY <1>1 DEF Goal
<1>3. Target' = Target
  BY <1>1 DEF Target
<1>4. Fall' = Fall
  BY <1>1 DEF Fall
<1>5. (Later' <=> Later) /\ Base' = Base /\ (InCall' <=> InCall) /\ (Whole' <=> Whole)
  BY <1>1 DEF Later, Base, InCall, Whole
<1> QED BY <1>2, <1>3, <1>4, <1>5

\* The clocks.
LEMMA ClocksKept ==
  ASSUME ClockFacts, DeinitRestores, WorkFrame
  PROVE  ClockFacts' /\ DeinitRestores'
<1>1. /\ mmcCall' = mmcCall /\ sdPc' = sdPc /\ sdcn' = sdcn /\ sdcc'.mclk = sdcc.mclk
         /\ sdcc'.hclk = sdcc.hclk
      /\ mmcDrv'.dev = mmcDrv.dev /\ mmcDrv'.ready = mmcDrv.ready
  BY DEF WorkFrame
<1>2. ClockFacts'
  BY <1>1 DEF ClockFacts
<1>3. DeinitRestores'
  BY <1>1 DEF DeinitRestores
<1> QED BY <1>2, <1>3

\* What is left to run ends only once.
LEMMA RunKept ==
  ASSUME TypesOK, Places, RunFacts, WorkFrame
  PROVE  /\ Places' /\ RunFacts' /\ (Stopped => Stopped') /\ (~Stopped' => ~Stopped)
<1>1. /\ mmcCall' = mmcCall /\ sdPc' = sdPc /\ mmcGot' = mmcGot /\ mmcBuild' = mmcBuild
         /\ sdReq' = sdReq
      /\ sdCard'.off = sdCard.off
      /\ mmcDrv'.dev = mmcDrv.dev /\ mmcDrv'.ready = mmcDrv.ready
  BY DEF WorkFrame
<1>2. InCall' <=> InCall
  BY FrameSame
<1>3. CASE mmcRun' = mmcRun
  <2>1. Stopped' <=> Stopped
    BY <1>3 DEF Stopped
  <2>2. Places'
    BY <1>1, <1>2, <2>1 DEF Places
  <2>3. RunFacts'
    BY <1>1, <1>2, <1>3, <2>1 DEF RunFacts
  <2> QED BY <2>1, <2>2, <2>3
<1>4. CASE mmcRun' # mmcRun
  <2>1. mmcRun.todo # <<>> /\ (mmcRun' = Fails \/ (mmcRun'.ok = mmcRun.ok /\ Head1.op # "refuse"))
    BY <1>4 DEF WorkFrame
  <2>2. mmcRun.ok /\ ~Stopped /\ mmcCall.kind # "none"
    BY <2>1 DEF RunFacts, Stopped
  <2>3. mmcRun' = Fails => mmcRun'.todo = <<>> /\ ~mmcRun'.ok /\ Stopped'
    BY DEF Fails, Stopped
  <2>4. Places'
    BY <1>1, <1>2, <2>2 DEF Places
  <2>5. mmcRun.todo # <<Do("refuse", 0)>> \/ Stopped'
    <3>1. Do("refuse", 0).op = "refuse"
      BY DEF Do
    <3>2. <<Do("refuse", 0)>>[1] = Do("refuse", 0)
      OBVIOUS
    <3> QED BY <2>1, <2>3, <3>1, <3>2 DEF Head1
  <2>6. mmcRun'.todo # <<>> => mmcRun'.ok
    BY <2>1, <2>2, <2>3
  <2>7. RunFacts'
    BY <1>1, <1>2, <2>2, <2>5, <2>6 DEF RunFacts
  <2> QED BY <2>2, <2>4, <2>7
<1> QED BY <1>3, <1>4

\* A call's blocks.
LEMMA CallKept ==
  ASSUME TypesOK, Places, RunFacts, CallFacts, WorkFrame
  PROVE  CallFacts'
<1>1. /\ mmcCall' = mmcCall /\ mmcGot' = mmcGot /\ sdCard'.kind = sdCard.kind
         /\ sdCard'.off = sdCard.off
      /\ (InCall' <=> InCall) /\ Base' = Base /\ (~Stopped' => ~Stopped)
  BY FrameSame, RunKept DEF WorkFrame
<1>2. CASE ~InCall
  BY <1>1, <1>2 DEF CallFacts
<1>3. CASE InCall
  <2>1. /\ mmcCall.run \in 0..mmcCall.blk
        /\ ~Stopped => mmcCall.left >= 1
        /\ ~sdCard.off => mmcCall.blk + mmcCall.left <= sdCard.kind.units
        /\ Len(mmcGot) = mmcCall.run
        /\ \A k \in 1..mmcCall.run : mmcGot[k].unit = Base + k - 1
          /\ (mmcGot[k].fresh => mmcGot[k].good)
        /\ \A u \in DOMAIN sdCard.disk : sdCard.disk[u] # -1 =>
             u = Base + sdCard.disk[u] /\ u < mmcCall.blk + mmcCall.left
        /\ mmcCall.kind = "write" =>
             \A j \in 0..(mmcCall.run - 1) : mmcGot[j + 1].good => sdCard.disk[Base + j] = j
    BY <1>3 DEF CallFacts
  <2>2. mmcCall.blk \in Nat /\ mmcCall.run \in Nat /\ mmcCall.left \in Nat
        /\ Base = mmcCall.blk - mmcCall.run
    BY Fields DEF Base
  <2>3. PICK d : d = sdCard'.disk
    OBVIOUS
  <2>4. sdCard.disk \in [0..(sdCard.kind.units - 1) -> Int]
    BY DEF TypesOK
  <2>5. CASE d = sdCard.disk
    BY <1>1, <2>1, <2>3, <2>5 DEF CallFacts
  <2>6. CASE d # sdCard.disk
    <3>1. mmcRun.todo # <<>> /\ d = [sdCard.disk EXCEPT ![mmcCall.blk] = mmcCall.run]
      BY <2>3, <2>6 DEF WorkFrame
    <3>2. mmcCall.left >= 1
      BY <2>1, <3>1 DEF Stopped
    <3>3. DOMAIN d = DOMAIN sdCard.disk
      BY <3>1
    <3>4. ASSUME NEW u \in DOMAIN d, d[u] # -1
          PROVE  u = Base + d[u] /\ u < mmcCall.blk + mmcCall.left
      <4>1. CASE u = mmcCall.blk
        <5>1. d[u] = mmcCall.run
          BY <3>1, <3>3, <4>1
        <5> QED BY <2>2, <3>2, <4>1, <5>1
      <4>2. CASE u # mmcCall.blk
        <5>1. d[u] = sdCard.disk[u] /\ u \in DOMAIN sdCard.disk
          BY <3>1, <3>3, <4>2
        <5> QED BY <2>1, <3>4, <5>1
      <4> QED BY <4>1, <4>2
    <3>5. ASSUME mmcCall.kind = "write", NEW j \in 0..(mmcCall.run - 1), mmcGot[j + 1].good
          PROVE  d[Base + j] = j
      <4>1. Base + j # mmcCall.blk
        BY <2>2
      <4>2. sdCard.disk[Base + j] = j
        BY <2>1, <3>5
      <4> QED BY <3>1, <4>1, <4>2
    <3> QED BY <1>1, <2>1, <2>3, <3>2, <3>4, <3>5 DEF CallFacts
  <2> QED BY <2>5, <2>6
<1> QED BY <1>2, <1>3

\* A request.
LEMMA RequestKept ==
  ASSUME RequestFacts, WorkFrame
  PROVE  RequestFacts'
<1>1. /\ mmcCall' = mmcCall /\ sdPc' = sdPc /\ media' = media /\ sdReq' = sdReq
         /\ mmcDrv'.dev = mmcDrv.dev
      /\ Base' = Base /\ (Whole' <=> Whole)
  BY FrameSame DEF WorkFrame
<1> QED BY <1>1 DEF RequestFacts

\* All that the steps of a function leave as it is.
LEMMA WorkKeeps ==
  ASSUME TypesOK, Facts, DeinitRestores, WorkFrame, CapacityFacts', StartFacts'
  PROVE  Facts' /\ DeinitRestores'
BY ClocksKept, RunKept, CallKept, RequestKept DEF Facts

\* After a step that is done the driver stands where the step leads.
LEMMA StandsOn ==
  ASSUME WorkFrame, NEW w \in Views, Shows(w)', mmcRun'.ok,
         LeadsTo(mmcRun'.todo, w, Goal, Target, Fall), Later => w.state \in Selected /\ w.scr
  PROVE  DriverStands'
<1>1. ~Stopped'
  BY DEF Stopped
<1>2. LeadsTo(mmcRun'.todo, w, Goal', Target', Fall') /\ (Later' => w.state \in Selected /\ w.scr)
  BY FrameSame
<1>3. Stands(w)'
  BY <1>1, <1>2 DEF Stands
<1> QED BY <1>3 DEF DriverStands

Resting == [state |-> "tran", app |-> FALSE, whole |-> TRUE, armed |-> FALSE, scr |-> TRUE,
           phase |-> "none"]

\* A card at rest is a view that tests may fail in and blocks may be asked in.
LEMMA RestingView ==
  Resting \in Views /\ Resting \in Ready /\ Resting \in Transferring /\ Resting \in Asked
BY DEF Resting, Views, Ready, Transferring, Asked, InTran, States, Selected, Phases

\* A function that fails because something went wrong leaves a card at rest,
\* as far as the driver can tell.
LEMMA StandsFallen ==
  ASSUME WorkFrame, ~Well', mmcRun' = Fails, Later => sdCard'.state \in Selected /\ mmcDrv'.scrValid
  PROVE  DriverStands'
<1>1. Stopped'
  BY DEF Stopped, Fails
<1>2. Resting \in Fall'
  BY RestingView DEF Fall
<1>3. ASSUME Going'
      PROVE  Stands(Resting)'
  <2>1. mmcCall' = mmcCall
    BY DEF WorkFrame
  <2>2. Later
    BY <1>1, <1>3, <2>1 DEF Going, Later
  <2>3. Holds(Resting)'
    BY <2>2 DEF Holds, Resting
  <2>4. Shows(Resting)'
    BY <2>3 DEF Shows
  <2>5. Resting.state \in Selected /\ Resting.scr
    BY DEF Resting, Selected
  <2> QED BY <1>1, <1>2, <2>4, <2>5 DEF Stands
<1> QED BY <1>3, RestingView DEF DriverStands

-----------------------------------------------------------------------------
(* A command.                                                               *)

Replied(c, a, r) ==
  /\ \/ /\ Legal(c) /\ r.taken /\ r.card = CardAfter(c, a) /\ r.flag \in {"crc", "end"}
        /\ r.fault = 0 => r.flag = IF c = "ACMD41" THEN "crc" ELSE "end"
     \/ /\ ~r.taken /\ r.card = [sdCard EXCEPT !.app = FALSE] /\ r.flag = "timeout"
        /\ r.fault = 0 => ~Legal(c)
  /\ r.fault \in {0, 1} /\ (r.fault = 1 => mmcFaults # MaxFaults)

\* A reply is that of a card that took the command or of one that did not.
LEMMA Reply ==
  ASSUME NEW c, NEW a, NEW r \in Replies(c, a)
  PROVE  Replied(c, a, r)
<1>1. CASE r = Taken(c, a) /\ Legal(c)
  BY <1>1 DEF Taken, Replied
<1>2. CASE r = Refused /\ ~Legal(c)
  BY <1>2 DEF Refused, Replied
<1>3. CASE r = [Refused EXCEPT !.fault = 1] /\ mmcFaults # MaxFaults
  BY <1>3 DEF Refused, Replied
<1>4. CASE r = [Taken(c, a) EXCEPT !.flag = "crc", !.fault = 1] /\ Legal(c) /\ mmcFaults # MaxFaults
  BY <1>4 DEF Taken, Replied
<1> QED BY <1>1, <1>2, <1>3, <1>4 DEF Replies

\* The card after a command that it took.
LEMMA CardAfterFields ==
  ASSUME TypesOK, NEW c \in Commands, NEW a \in Nat, NEW d, d = CardAfter(c, a)
  PROVE  /\ d \in CardSet /\ d.state = StateAfter(c, a) /\ (d.app <=> c = "CMD55")
         /\ d.blocklen = (IF c = "CMD16" THEN a ELSE IF c = "CMD0" THEN BLOCK_SIZE
           ELSE sdCard.blocklen)
         /\ d.unit = (IF c \in BlockCmds THEN UnitOf(a) ELSE sdCard.unit)
         /\ d.kind = sdCard.kind /\ d.up = sdCard.up /\ d.good = sdCard.good
           /\ d.fresh = sdCard.fresh
         /\ d.legal = sdCard.legal /\ d.off = sdCard.off /\ d.disk = sdCard.disk
<1>1. StateAfter(c, a) \in States
  <2>1. sdCard.state \in States
    BY Fields
  <2> QED BY <2>1 DEF StateAfter, States, Selected
<1>2. UnitOf(a) \in Nat
  BY DEF UnitOf, BLOCK_SIZE
<1>3. PICK s, p, l, u : /\ s = StateAfter(c, a) /\ p = (c = "CMD55")
                        /\ l = (IF c = "CMD16" THEN a ELSE IF c = "CMD0" THEN BLOCK_SIZE
                          ELSE sdCard.blocklen)
                        /\ u = (IF c \in BlockCmds THEN UnitOf(a) ELSE sdCard.unit)
  OBVIOUS
<1>4. s \in States /\ p \in BOOLEAN /\ l \in Nat /\ u \in Nat
  BY <1>1, <1>2, <1>3, Fields DEF BLOCK_SIZE
<1>5. d = [sdCard EXCEPT !.state = s, !.app = p, !.blocklen = l, !.unit = u]
  BY <1>3 DEF CardAfter
<1>6. sdCard \in CardSet
  BY DEF TypesOK
<1>7. d \in CardSet
  BY <1>4, <1>5, <1>6 DEF CardSet
<1>8. /\ d.state = s /\ d.app = p /\ d.blocklen = l /\ d.unit = u
      /\ d.kind = sdCard.kind /\ d.up = sdCard.up /\ d.good = sdCard.good /\ d.fresh = sdCard.fresh
      /\ d.legal = sdCard.legal /\ d.off = sdCard.off /\ d.disk = sdCard.disk
  BY <1>5, <1>6 DEF CardSet
<1> QED BY <1>3, <1>7, <1>8

\* The card after a command that it did not take.
LEMMA RefusedFields ==
  ASSUME TypesOK, NEW d, d = [sdCard EXCEPT !.app = FALSE]
  PROVE  /\ d \in CardSet /\ d.state = sdCard.state /\ ~d.app
         /\ d.blocklen = sdCard.blocklen /\ d.unit = sdCard.unit
         /\ d.kind = sdCard.kind /\ d.up = sdCard.up /\ d.good = sdCard.good
           /\ d.fresh = sdCard.fresh
         /\ d.legal = sdCard.legal /\ d.off = sdCard.off /\ d.disk = sdCard.disk
<1>1. sdCard \in CardSet
  BY DEF TypesOK
<1> QED BY <1>1 DEF CardSet

\* A command that is allowed in the view is legal, as long as all is well.
LEMMA LegalCmd ==
  ASSUME TypesOK, NEW v \in Views, HoldsWell(v), NEW c, NEW a, CmdAllows(c, a, v, Target)
  PROVE  c # "CMD8" => Legal(c)
<1>1. v.state \in AllowedIn[c] /\ (v.state = "prog" => "tran" \in AllowedIn[c])
      /\ (c \in AppCmds => v.app) /\ (c \in BlockCmds => sdCard.kind.hc \/ v.whole)
  BY DEF CmdAllows, Target
<1>2. sdCard.state = v.state \/ (v.state = "prog" /\ sdCard.state = "tran")
  BY DEF HoldsWell
<1>3. (v.app => sdCard.app) /\ (v.whole => sdCard.blocklen = BLOCK_SIZE)
  BY DEF HoldsWell
<1>4. sdCard.state \in AllowedIn[c]
  BY <1>1, <1>2
<1> QED BY <1>1, <1>3, <1>4 DEF Legal

\* A command keeps a card that is selected.
LEMMA StaysSelected ==
  ASSUME TypesOK, NEW c \in Commands, NEW a, sdCard.state \in Selected, c # "CMD0", Legal(c)
  PROVE  StateAfter(c, a) \in Selected
<1>1. sdCard.state \in AllowedIn[c]
  BY DEF Legal
<1>2. c \notin {"CMD2", "CMD3", "ACMD41"}
  BY <1>1, AllowedValues DEF Selected
<1> QED BY <1>2 DEF StateAfter, Selected

\* What a view says of the card after a command that was accepted.
LEMMA CmdHolds ==
  ASSUME TypesOK, NEW v \in Views, Holds(v), NEW x \in Steps, x.op = "cmd",
         CmdAllows(x.cmd, x.arg, v, Target), sdcc.coming = {}, NEW r \in Replies(x.cmd, x.arg),
         Accepted(x.cmd, x.arg, r.flag) \/ x.cmd = "CMD8",
         x.cmd = "ACMD41" => r.card.state = "ready",
         sdCard' = [r.card EXCEPT !.legal = sdCard'.legal],
         sdcc'.flags = sdcc.flags, sdcc'.coming = sdcc.coming,
         mmcDrv'.scrValid = mmcDrv.scrValid, mmcCall' = mmcCall,
         NEW w, w = Leads(x, v)
  PROVE  Holds(w)'
<1>0. Replied(x.cmd, x.arg, r)
  BY Reply
<1>1. x.cmd \in Commands /\ x.arg \in Nat /\ v.state \in AllowedIn[x.cmd]
      /\ (x.cmd \in BlockCmds => UnitFor(Target, x.arg) = mmcCall.blk /\ v.phase = "none")
      /\ (x.cmd = "CMD0" => v.state = "idle")
  BY AllowedValues, StepFields DEF CmdAllows, Target
<1>2. w = CmdLeads(x.cmd, x.arg, v)
  BY DEF Leads
<1>3. w \in Views /\ w.state = StateNext(x.cmd, v.state) /\ w.scr = v.scr
      /\ w.phase = (IF x.cmd \in BlockCmds THEN "set" ELSE v.phase)
  BY <1>1, <1>2, CmdView
<1>4. r.card \in CardSet /\ r.card.good = sdCard.good /\ r.card.fresh = sdCard.fresh
      /\ r.card.kind = sdCard.kind /\ r.card.disk = sdCard.disk
  BY <1>0, <1>1, CardAfterFields, RefusedFields DEF Replied
<1>5. sdCard'.state = r.card.state /\ sdCard'.unit = r.card.unit /\ sdCard'.good = sdCard.good
      /\ sdCard'.fresh = sdCard.fresh /\ sdCard'.kind = sdCard.kind /\ sdCard'.disk = sdCard.disk
  BY <1>4 DEF CardSet
<1>6. ASSUME w.state \in Selected
      PROVE  sdCard'.state \in Selected
  <2>1. CASE x.cmd \in {"CMD0", "CMD8"}
    <3>1. v.state = "idle" /\ StateNext(x.cmd, v.state) = v.state
      BY <1>1, <2>1, AllowedValues, StateNexts
    <3> QED BY <1>3, <1>6, <3>1 DEF Selected
  <2>2. CASE x.cmd \notin {"CMD0", "CMD8"} /\ r.taken
    <3>1. Legal(x.cmd) /\ r.card.state = StateAfter(x.cmd, x.arg)
      BY <1>0, <1>1, <2>2, CardAfterFields DEF Replied
    <3>2. CASE v.state \in Selected
      <4>1. sdCard.state \in Selected
        BY <3>2 DEF Holds
      <4> QED BY <1>1, <1>5, <2>2, <3>1, <4>1, StaysSelected
    <3>3. CASE v.state \notin Selected
      <4>1. StateNext(x.cmd, v.state) \in Selected
        BY <1>3, <1>6
      <4>2. x.cmd \in {"CMD7", "CMD12", "CMD24", "ACMD51", "ACMD13", "CMD6", "CMD17", "CMD18"}
        BY <1>1, <3>3, <4>1 DEF StateNext, Commands, Selected
      <4>3. StateAfter(x.cmd, x.arg) \in Selected
        BY <4>2 DEF StateAfter, Selected, BlockCmds
      <4> QED BY <1>5, <3>1, <4>3
    <3> QED BY <3>2, <3>3
  <2>3. CASE x.cmd \notin {"CMD0", "CMD8"} /\ ~r.taken
    <3>1. r.flag = "timeout" /\ r.card = [sdCard EXCEPT !.app = FALSE]
      BY <2>3, <1>0 DEF Replied
    <3>2. x.cmd = "CMD55"
      BY <1>1, <2>3, <3>1 DEF Accepted, Commands
    <3>3. v.state \in Selected
      BY <1>3, <1>6, <3>2, StateNexts
    <3>4. r.card.state = sdCard.state
      BY <3>1, RefusedFields
    <3> QED BY <1>5, <3>3, <3>4 DEF Holds
  <2> QED BY <2>1, <2>2, <2>3
<1>7. w.scr => mmcDrv'.scrValid
  BY <1>3 DEF Holds
<1>8. w.phase # "none" => sdCard'.unit = mmcCall'.blk
  <2>1. CASE x.cmd \in BlockCmds
    <3>1. r.taken
      <4>1. x.cmd \notin {"CMD0", "CMD8", "CMD5", "CMD55"}
        BY <2>1 DEF BlockCmds
      <4>2. r.flag # "timeout"
        BY <4>1 DEF Accepted
      <4> QED BY <4>2, <1>0 DEF Replied
    <3>2. r.card.unit = UnitOf(x.arg)
      BY <1>0, <1>1, <2>1, <3>1, CardAfterFields DEF Replied
    <3>3. UnitOf(x.arg) = UnitFor(Target, x.arg)
      BY DEF UnitOf, UnitFor, Target
    <3> QED BY <1>1, <1>5, <2>1, <3>2, <3>3
  <2>2. CASE x.cmd \notin BlockCmds
    <3>1. r.card.unit = sdCard.unit
      BY <1>0, <1>1, <2>2, CardAfterFields, RefusedFields DEF Replied
    <3> QED BY <1>3, <1>5, <2>2, <3>1 DEF Holds
  <2> QED BY <2>1, <2>2
<1>9. w.phase # "none" => w.phase = "set" \/ w.phase = v.phase
  BY <1>3
<1>10. Damaged(0)' = Damaged(0) /\ Damaged(1)' = Damaged(1)
  BY DEF Damaged
<1>11. /\ w.phase = "set" => sdcc'.coming = {}
       /\ w.phase = "moved" => (sdCard'.fresh => sdCard'.good \/ Damaged(0)')
       /\ w.phase = "written" => (sdCard'.fresh => sdCard'.good \/ Damaged(1)')
       /\ w.phase \in {"checked", "kept"} => (sdCard'.fresh => sdCard'.good)
       /\ w.phase \in {"written", "kept"} =>
            (sdCard'.good => mmcCall'.blk < sdCard'.kind.units
              /\ sdCard'.disk[mmcCall'.blk] = mmcCall'.run)
  BY <1>5, <1>9, <1>10 DEF Holds
<1> QED BY <1>6, <1>7, <1>8, <1>11 DEF Holds

WellAnswered(c, a, r) ==
  /\ Accepted(c, a, r.flag) \/ c = "CMD8"
  /\ c # "CMD8" => r.taken /\ r.card = CardAfter(c, a)
  /\ c = "CMD8" => \/ r.card = CardAfter(c, a)
                   \/ r.card = [sdCard EXCEPT !.app = FALSE]

\* As long as all is well every command is accepted.
LEMMA CmdAccepted ==
  ASSUME TypesOK, NEW v \in Views, HoldsWell(v), NEW c, NEW a, CmdAllows(c, a, v, Target),
         NEW r \in Replies(c, a), r.fault = 0
  PROVE  WellAnswered(c, a, r)
<1>1. c # "CMD8" => Legal(c)
  BY LegalCmd
<1>2. \/ /\ Legal(c) /\ r.taken /\ r.card = CardAfter(c, a)
         /\ r.flag = IF c = "ACMD41" THEN "crc" ELSE "end"
      \/ r.card = [sdCard EXCEPT !.app = FALSE] /\ ~Legal(c)
  <2>1. Replied(c, a, r)
    BY Reply
  <2> QED BY <2>1 DEF Replied
<1>3. Legal(c) => Accepted(c, a, r.flag)
  BY <1>2 DEF Accepted
<1> QED BY <1>1, <1>2, <1>3 DEF WellAnswered

\* What a view says of the card after a command, as long as all is well.
LEMMA CmdWell ==
  ASSUME TypesOK, NEW v \in Views, HoldsWell(v), NEW x \in Steps, x.op = "cmd", ~sdCard.off,
         CmdAllows(x.cmd, x.arg, v, Target), sdcc.coming = {}, NEW r \in Replies(x.cmd, x.arg),
           r.fault = 0,
         x.cmd = "ACMD41" => r.card.state = "ready",
         sdCard' = [r.card EXCEPT !.legal = sdCard'.legal],
         sdcc'.flags = sdcc.flags, sdcc'.coming = sdcc.coming,
         sdcc'.armed => sdcc.armed \/ x.cmd = "CMD13_PROG",
         NEW w, w = Leads(x, v)
  PROVE  HoldsWell(w)'
<1>1. x.cmd \in Commands /\ x.arg \in Nat /\ v.state \in AllowedIn[x.cmd] /\ ~v.armed
      /\ (x.cmd = "CMD0" => v.state = "idle")
      /\ (x.cmd \in BlockCmds => UnitFor(Target, x.arg) = mmcCall.blk /\ OnCard(Target, 1))
  BY AllowedValues, StepFields DEF CmdAllows, Target
<1>2. w = CmdLeads(x.cmd, x.arg, v)
  BY DEF Leads
<1>3. /\ w \in Views /\ w.state = StateNext(x.cmd, v.state) /\ w.app = (x.cmd = "CMD55")
      /\ w.whole = (IF x.cmd = "CMD16" THEN x.arg = BLOCK_SIZE ELSE v.whole \/ x.cmd = "CMD0")
      /\ w.armed = (x.cmd = "CMD13_PROG")
  BY <1>1, <1>2, CmdView
<1>4. /\ x.cmd # "CMD8" => r.taken /\ r.card = CardAfter(x.cmd, x.arg)
      /\ x.cmd = "CMD8" => \/ r.card = CardAfter(x.cmd, x.arg)
                           \/ r.card = [sdCard EXCEPT !.app = FALSE]
  <2>1. WellAnswered(x.cmd, x.arg, r)
    BY CmdAccepted
  <2> QED BY <2>1 DEF WellAnswered
<1>5. r.card \in CardSet
  BY <1>1, <1>4, CardAfterFields, RefusedFields
<1>6. sdCard'.state = r.card.state /\ sdCard'.app = r.card.app /\ sdCard'.blocklen = r.card.blocklen
  BY <1>5 DEF CardSet
<1>7. /\ (sdcc.flags \cup sdcc.coming) \cap Errors = {}
      /\ sdCard.state = v.state \/ (v.state = "prog" /\ sdCard.state = "tran")
      /\ (v.app => sdCard.app) /\ (v.whole => sdCard.blocklen = BLOCK_SIZE)
      /\ ~sdcc.armed /\ "prog_done" \notin sdcc.flags /\ "prog_done" \notin sdcc.coming
  BY <1>1 DEF HoldsWell
<1>8. CASE x.cmd = "CMD8"
  <2>1. w.state = v.state /\ v.state = "idle"
    BY <1>1, <1>3, <1>8, StateNexts, AllowedValues
  <2>2. StateAfter(x.cmd, x.arg) = sdCard.state
    BY <1>8 DEF StateAfter, BlockCmds
  <2>3. r.card.state = sdCard.state /\ r.card.blocklen = sdCard.blocklen
    BY <1>1, <1>4, <1>8, <2>2, CardAfterFields, RefusedFields
  <2>4. ~w.app /\ (w.whole => v.whole)
    BY <1>3, <1>8
  <2>5. ~sdcc'.armed /\ "prog_done" \notin sdcc'.flags
    BY <1>7, <1>8
  <2> QED BY <1>6, <1>7, <2>1, <2>3, <2>4, <2>5 DEF HoldsWell
<1>9. CASE x.cmd # "CMD8"
  <2>1. /\ sdCard'.state = StateAfter(x.cmd, x.arg) /\ (sdCard'.app <=> x.cmd = "CMD55")
        /\ sdCard'.blocklen = (IF x.cmd = "CMD16" THEN x.arg ELSE IF x.cmd = "CMD0" THEN BLOCK_SIZE
          ELSE sdCard.blocklen)
    BY <1>1, <1>4, <1>6, <1>9, CardAfterFields
  <2>2. ~(x.cmd \in BlockCmds /\ UnitOf(x.arg) >= sdCard.kind.units)
    <3>1. ASSUME x.cmd \in BlockCmds
          PROVE  ~(UnitOf(x.arg) >= sdCard.kind.units)
      <4>1. UnitOf(x.arg) = mmcCall.blk
        BY <1>1, <3>1 DEF UnitOf, UnitFor, Target
      <4>2. mmcCall.blk + 1 <= sdCard.kind.units
        BY <1>1, <3>1 DEF OnCard, Target
      <4>3. mmcCall.blk \in Nat /\ sdCard.kind.units \in Nat
        BY Fields
      <4> QED BY <4>1, <4>2, <4>3
    <3> QED BY <3>1
  <2>3. sdCard'.state = w.state \/ (w.state = "prog" /\ sdCard'.state = "tran")
    <3>1. CASE x.cmd = "ACMD41"
      <4>1. sdCard'.state = "ready"
        BY <1>6, <3>1
      <4> QED BY <4>1, <3>1, <1>3, StateNexts
    <3>2. CASE x.cmd = "CMD0"
      <4>1. sdCard'.state = "idle"
        BY <2>1, <3>2 DEF StateAfter, BlockCmds
      <4> QED BY <4>1, <3>2, <1>1, <1>3, StateNexts
    <3>3. CASE x.cmd \in {"CMD2", "CMD3", "CMD7", "CMD12", "CMD24", "ACMD51", "ACMD13", "CMD6",
          "CMD17", "CMD18"}
      <4>1. StateAfter(x.cmd, x.arg) = StateNext(x.cmd, v.state)
        BY <2>2, <3>3 DEF StateAfter, StateNext, BlockCmds
      <4> QED BY <4>1, <2>1, <1>3
    <3>4. CASE x.cmd \in {"CMD9", "CMD10", "CMD16", "ACMD6", "CMD13", "CMD13_PROG", "CMD55"}
      <4>1. StateAfter(x.cmd, x.arg) = sdCard.state /\ StateNext(x.cmd, v.state) = v.state
        BY <3>4 DEF StateAfter, StateNext, BlockCmds
      <4> QED BY <4>1, <2>1, <1>3, <1>7
    <3> QED BY <1>1, <1>9, <3>1, <3>2, <3>3, <3>4 DEF Commands
  <2>4. w.app => sdCard'.app
    BY <1>3, <2>1
  <2>5. w.whole => sdCard'.blocklen = BLOCK_SIZE
    BY <1>3, <1>7, <2>1
  <2>6. (sdcc'.armed => w.armed) /\ "prog_done" \notin sdcc'.flags
    BY <1>3, <1>7
  <2> QED BY <1>7, <2>3, <2>4, <2>5, <2>6 DEF HoldsWell
<1> QED BY <1>8, <1>9

\* The card is asked whether it is ready again and again; each time the two
\* commands that ask come before the steps that are left.
LEMMA Again ==
  ASSUME NEW t \in Seq(Steps), NEW v \in Views, v.state = "idle", v.app, ~v.armed,
         NEW goal, NEW b, NEW fall, LeadsTo(t, v, goal, b, fall),
         NEW u, u = [v EXCEPT !.app = FALSE]
  PROVE  /\ u \in Views /\ LeadsTo(<<Cmd("CMD55", 0)>> \o t, u, goal, b, fall)
         /\ u.state = "idle" /\ ~u.app /\ ~u.armed /\ (u.scr => v.scr) /\ u.phase = v.phase
           /\ (u.whole => v.whole)
<1>1. PICK x : x = Cmd("CMD55", 0)
  OBVIOUS
<1>2. x \in Steps /\ x.op = "cmd" /\ x.cmd = "CMD55" /\ x.arg = 0
  BY <1>1, StepTypes DEF Commands
<1>3. u \in Views
  BY DEF Views
<1>4. u.state = "idle" /\ ~u.app /\ ~u.armed /\ u.scr = v.scr /\ u.phase = v.phase
      /\ u.whole = v.whole
  BY DEF Views
<1>5. x.cmd \in Commands \ (BlockCmds \cup {"CMD13_PROG"}) /\ x.cmd \notin AppCmds
      /\ u.state \in AllowedIn[x.cmd]
  BY <1>2, <1>4, AllowedValues DEF Commands, BlockCmds, AppCmds
<1>6. Allows(x, u, b, fall)
  <2>1. PICK l : l = Leads(x, u)
    OBVIOUS
  <2>2. (u.state = "prog" => "tran" \in AllowedIn[x.cmd]) /\ (x.cmd = "CMD0" => u.state = "idle")
        /\ (x.cmd \in AppCmds => u.app) /\ ~u.armed
    BY <1>2, <1>4, <1>5
  <2>3. \A c, f : Allows(x, u, c, f)
    BY <1>2, <1>3, <1>5, <2>1, <2>2, PlainCmd
  <2> QED BY <2>3
<1>7. Leads(x, u) = v
  <2>1. Leads(x, u) = CmdLeads("CMD55", 0, u)
    BY <1>2 DEF Leads
  <2>2. CmdLeads("CMD55", 0, u) = [u EXCEPT !.state = u.state, !.app = TRUE, !.whole = u.whole,
                                            !.armed = FALSE, !.phase = u.phase]
    <3>1. StateNext("CMD55", u.state) = u.state
      BY StateNexts
    <3>2. (u.whole \/ "CMD55" = "CMD0") = u.whole
      BY <1>3 DEF Views
    <3> QED BY <3>1, <3>2, <1>3 DEF CmdLeads, BlockCmds, Views
  <2>3. v.app = TRUE /\ v.armed = FALSE
    BY DEF Views
  <2>4. v = [state |-> "idle", app |-> TRUE, whole |-> v.whole, armed |-> FALSE, scr |-> v.scr,
        phase |-> v.phase]
    BY <2>3 DEF Views
  <2>5. [u EXCEPT !.state = u.state, !.app = TRUE, !.whole = u.whole, !.armed = FALSE,
        !.phase = u.phase]
          = [state |-> "idle", app |-> TRUE, whole |-> v.whole, armed |-> FALSE, scr |-> v.scr,
            phase |-> v.phase]
    BY <1>3, <1>4 DEF Views
  <2> QED BY <2>1, <2>2, <2>4, <2>5
<1>8. <<x>> \o t \in Seq(Steps) /\ <<x>> \o t # <<>> /\ (<<x>> \o t)[1] = x /\ Tail(<<x>> \o t) = t
  BY <1>2
<1>9. LeadsTo(<<x>> \o t, u, goal, b, fall)
  BY <1>3, <1>6, <1>7, <1>8, OneMore
<1> QED BY <1>1, <1>3, <1>4, <1>9

\* What sdcc_send_cmd makes of the card, the controller and the driver.
LEMMA SendTypes ==
  ASSUME TypesOK, Head1 \in Steps, Head1.op = "cmd", mmcRun.todo # <<>>,
         NEW r \in Replies(Head1.cmd, Head1.arg),
         Head1.cmd \in Commands,
         sdCard' = [r.card EXCEPT !.legal = @ /\ (Legal(Head1.cmd) \/ Head1.cmd = "CMD8"
           \/ sdCard.off)]
  PROVE  /\ sdCard' \in CardSet /\ sdCard'.disk = sdCard.disk /\ sdCard'.kind = sdCard.kind
         /\ sdCard'.off = sdCard.off /\ sdCard'.state = r.card.state
         /\ sdCard' = [r.card EXCEPT !.legal = sdCard'.legal]
         /\ (sdCard'.legal <=> sdCard.legal /\ (Legal(Head1.cmd) \/ Head1.cmd = "CMD8"
           \/ sdCard.off))
<1>1. Head1.arg \in Nat
  BY StepFields
<1>2. \/ r.card = CardAfter(Head1.cmd, Head1.arg)
      \/ r.card = [sdCard EXCEPT !.app = FALSE]
  <2>1. Replied(Head1.cmd, Head1.arg, r)
    BY Reply
  <2> QED BY <2>1 DEF Replied
<1>3. r.card \in CardSet /\ r.card.disk = sdCard.disk /\ r.card.kind = sdCard.kind
      /\ r.card.off = sdCard.off /\ r.card.legal = sdCard.legal
  BY <1>1, <1>2, CardAfterFields, RefusedFields
<1>4. PICK l \in BOOLEAN : l = (r.card.legal /\ (Legal(Head1.cmd) \/ Head1.cmd = "CMD8"
      \/ sdCard.off))
  OBVIOUS
<1>5. sdCard' = [r.card EXCEPT !.legal = l]
  BY <1>4
<1>6. sdCard' \in CardSet /\ sdCard'.disk = r.card.disk /\ sdCard'.kind = r.card.kind
      /\ sdCard'.off = r.card.off /\ sdCard'.state = r.card.state /\ sdCard'.legal = l
  BY <1>3, <1>5 DEF CardSet
<1> QED BY <1>3, <1>4, <1>5, <1>6

\* A command keeps the invariant.
LEMMA SendCmd ==
  ASSUME SdInv, sdcc_send_cmd, UNCHANGED <<sdPc, media, sdReq>>
  PROVE  SdInv'
<1>1. TypesOK /\ DriverStands /\ Facts /\ CommandsLegal /\ DeinitRestores
  BY DEF SdInv
<1>2. CapacityFacts /\ StartFacts /\ Places /\ RunFacts
  BY <1>1 DEF Facts
<1>3. mmcRun.todo # <<>> /\ Head1.op = "cmd" /\ sdcc.coming = {}
  BY DEF sdcc_send_cmd, At
<1>4. PICK v \in Views :
        /\ Shows(v) /\ Allows(Head1, v, Target, Fall)
        /\ Head1.op # "refuse" => LeadsTo(Tail(mmcRun.todo), Leads(Head1, v), Goal, Target, Fall)
        /\ LeadsTo(mmcRun.todo, v, Goal, Target, Fall)
        /\ Later => v.state \in Selected /\ v.scr
  BY <1>1, <1>2, <1>3, AtWork
<1> DEFINE c == Head1.cmd
           a == Head1.arg
<1>5. c = Head1.cmd /\ a = Head1.arg
  OBVIOUS
<1>6. Head1 \in Steps /\ mmcRun.ok /\ Going /\ ~Stopped /\ Tail(mmcRun.todo) \in Seq(Steps)
  BY <1>1, <1>2, <1>3, AtWork
<1>7. CmdAllows(c, a, v, Target) /\ c \in Commands /\ a \in Nat
  BY <1>3, <1>4, <1>5, <1>6, StepFields, AllowedValues DEF Allows, CmdAllows
<1>8. PICK r \in Replies(c, a) :
        /\ sdCard' = [r.card EXCEPT !.legal = @ /\ (Legal(c) \/ c = "CMD8" \/ sdCard.off)]
        /\ mmcFaults' = mmcFaults + r.fault
        /\ mmcDrv' = [mmcDrv EXCEPT
             !.hcSupport = IF c = "CMD8" THEN Accepted(c, a, r.flag) ELSE @,
             !.highCapacity = @ \/ (c = "ACMD41" /\ Accepted(c, a, r.flag) /\ PoweredUp
               /\ mmcDrv.hcSupport
                                      /\ sdCard.kind.hc)]
        /\ mmcRun' = IF ~Accepted(c, a, r.flag) /\ c # "CMD8" THEN Fails
                     ELSE IF c = "ACMD41" /\ r.card.state # "ready"
                       THEN [mmcRun EXCEPT !.todo = <<Cmd("CMD55", 0)>> \o @]
                       ELSE Rest
        /\ sdcc' = [sdcc EXCEPT !.armed = @ \/ (c = "CMD13_PROG" /\ r.taken)]
  BY DEF sdcc_send_cmd
<1> HIDE DEF c, a
<1>82. Replied(c, a, r)
  BY Reply
<1>9. UNCHANGED <<mmcBuild, sdcn, mmcCall, mmcGot>>
  BY DEF sdcc_send_cmd
<1>10. PICK ok \in BOOLEAN : ok <=> Accepted(c, a, r.flag)
  BY DEF Accepted
<1>11. /\ sdCard' \in CardSet /\ sdCard'.disk = sdCard.disk /\ sdCard'.kind = sdCard.kind
       /\ sdCard'.off = sdCard.off /\ sdCard'.state = r.card.state
       /\ sdCard' = [r.card EXCEPT !.legal = sdCard'.legal]
       /\ (sdCard'.legal <=> sdCard.legal /\ (Legal(c) \/ c = "CMD8" \/ sdCard.off))
  BY <1>1, <1>3, <1>5, <1>6, <1>7, <1>8, SendTypes
<1>12. /\ sdcc' \in ControllerSet /\ sdcc'.flags = sdcc.flags /\ sdcc'.coming = sdcc.coming
       /\ sdcc'.mclk = sdcc.mclk /\ sdcc'.hclk = sdcc.hclk
       /\ (sdcc'.armed => sdcc.armed \/ c = "CMD13_PROG")
  <2>1. PICK p \in BOOLEAN : p = (sdcc.armed \/ (c = "CMD13_PROG" /\ r.taken))
    OBVIOUS
  <2>2. sdcc' = [sdcc EXCEPT !.armed = p]
    BY <1>8, <2>1
  <2>3. sdcc \in ControllerSet
    BY <1>1 DEF TypesOK
  <2>4. /\ sdcc' \in ControllerSet /\ sdcc'.flags = sdcc.flags /\ sdcc'.coming = sdcc.coming
        /\ sdcc'.mclk = sdcc.mclk /\ sdcc'.hclk = sdcc.hclk /\ sdcc'.armed = p
    BY <2>2, <2>3 DEF ControllerSet
  <2> QED BY <2>1, <2>4
<1>13. /\ mmcDrv' \in DriverSet /\ mmcDrv'.scrValid = mmcDrv.scrValid /\ mmcDrv'.dev = mmcDrv.dev
       /\ mmcDrv'.ready = mmcDrv.ready
       /\ (mmcDrv'.highCapacity <=> mmcDrv.highCapacity
             \/ (c = "ACMD41" /\ ok /\ PoweredUp /\ mmcDrv.hcSupport /\ sdCard.kind.hc))
  <2>1. PICK p \in BOOLEAN, q \in BOOLEAN :
          /\ p = (IF c = "CMD8" THEN Accepted(c, a, r.flag) ELSE mmcDrv.hcSupport)
          /\ q = (mmcDrv.highCapacity \/ (c = "ACMD41" /\ Accepted(c, a, r.flag) /\ PoweredUp
                    /\ mmcDrv.hcSupport /\ sdCard.kind.hc))
    BY <1>1, Fields DEF Accepted
  <2>2. mmcDrv' = [mmcDrv EXCEPT !.hcSupport = p, !.highCapacity = q]
    BY <1>8, <2>1
  <2>3. mmcDrv \in DriverSet
    BY <1>1 DEF TypesOK
  <2>4. /\ mmcDrv' \in DriverSet /\ mmcDrv'.scrValid = mmcDrv.scrValid /\ mmcDrv'.dev = mmcDrv.dev
        /\ mmcDrv'.ready = mmcDrv.ready /\ mmcDrv'.highCapacity = q
    BY <2>2, <2>3 DEF DriverSet
  <2> QED BY <1>10, <2>1, <2>4
<1>14. mmcRun \in RunSet /\ mmcRun.todo \in Seq(Steps)
  BY <1>1, Fields DEF TypesOK
<1>15. /\ ~ok /\ c # "CMD8" => mmcRun' = Fails
       /\ (ok \/ c = "CMD8") /\ c = "ACMD41" /\ r.card.state # "ready" =>
            mmcRun'.todo = <<Cmd("CMD55", 0)>> \o mmcRun.todo /\ mmcRun'.ok = mmcRun.ok
              /\ mmcRun' \in RunSet
       /\ (ok \/ c = "CMD8") /\ ~(c = "ACMD41" /\ r.card.state # "ready") =>
            mmcRun'.todo = Tail(mmcRun.todo) /\ mmcRun'.ok = mmcRun.ok /\ mmcRun' \in RunSet
  <2>1. Cmd("CMD55", 0) \in Steps
    BY StepTypes DEF Commands
  <2>2. PICK t : t = <<Cmd("CMD55", 0)>> \o mmcRun.todo
    OBVIOUS
  <2>3. t \in Seq(Steps)
    BY <1>14, <2>1, <2>2
  <2>4. \A s \in Seq(Steps) : LET q == [mmcRun EXCEPT !.todo = s] IN
          q.todo = s /\ q.ok = mmcRun.ok /\ q \in RunSet
    BY <1>14 DEF RunSet
  <2>5. mmcRun' = IF ~ok /\ c # "CMD8" THEN Fails
                  ELSE IF c = "ACMD41" /\ r.card.state # "ready"
                    THEN [mmcRun EXCEPT !.todo = t]
                    ELSE [mmcRun EXCEPT !.todo = Tail(mmcRun.todo)]
    BY <1>8, <1>10, <2>2 DEF Rest
  <2> QED BY <1>6, <2>2, <2>3, <2>4, <2>5
<1>16. Fails \in RunSet
  BY DEF Fails, RunSet
<1>17. mmcFaults' \in 0..MaxFaults /\ (mmcFaults' = 0 => mmcFaults = 0 /\ r.fault = 0)
  <2>1. r.fault \in {0, 1} /\ (r.fault = 1 => mmcFaults # MaxFaults)
    BY <1>82 DEF Replied
  <2>2. mmcFaults \in Nat /\ mmcFaults <= MaxFaults /\ MaxFaults \in Nat
    BY <1>1, Fields
  <2> QED BY <1>8, <2>1, <2>2
<1>18. TypesOK'
  <2>1. mmcRun' \in RunSet
    BY <1>15, <1>16
  <2>2. sdCard'.disk \in [0..(sdCard'.kind.units - 1) -> Int]
    BY <1>1, <1>11 DEF TypesOK
  <2> QED BY <1>1, <1>9, <1>11, <1>12, <1>13, <1>17, <2>1, <2>2 DEF TypesOK
<1>19. WorkFrame
  <2>1. mmcRun' = Fails \/ (mmcRun'.ok = mmcRun.ok /\ Head1.op # "refuse")
    BY <1>3, <1>15
  <2> QED BY <1>3, <1>9, <1>11, <1>12, <1>13, <2>1 DEF WorkFrame
<1>20. CapacityFacts'
  <2>1. ~sdCard.kind.hc => ~mmcDrv.highCapacity
    BY <1>2 DEF CapacityFacts
  <2>2. ASSUME sdCard'.state # "idle", sdCard.kind.hc
        PROVE  mmcDrv'.highCapacity
    <3>1. CASE sdCard.state # "idle"
      BY <1>2, <1>13, <2>2, <3>1 DEF CapacityFacts
    <3>2. CASE sdCard.state = "idle"
      <4>1. r.card = CardAfter(c, a) /\ Legal(c) /\ r.flag \in {"crc", "end"}
        <5>1. r.card # [sdCard EXCEPT !.app = FALSE]
          BY <1>1, <1>11, <2>2, <3>2, RefusedFields
        <5>2. \/ Legal(c) /\ r.card = CardAfter(c, a) /\ r.flag \in {"crc", "end"}
              \/ r.card = [sdCard EXCEPT !.app = FALSE]
          BY <1>82 DEF Replied
        <5> QED BY <5>1, <5>2
      <4>2. StateAfter(c, a) # "idle" /\ sdCard.state \in AllowedIn[c]
        BY <1>1, <1>7, <1>11, <2>2, <4>1, CardAfterFields DEF Legal
      <4>3. c \in {"CMD8", "ACMD41", "CMD55", "CMD0"}
        BY <1>7, <3>2, <4>2, AllowedValues DEF Commands
      <4>4. c = "ACMD41" /\ PoweredUp
        BY <3>2, <4>2, <4>3 DEF StateAfter, BlockCmds
      <4>5. ok
        BY <1>10, <4>1, <4>4 DEF Accepted
      <4>6. mmcDrv.hcSupport
        BY <2>2, <4>4 DEF PoweredUp
      <4> QED BY <1>13, <2>2, <4>4, <4>5, <4>6
    <3> QED BY <3>1, <3>2
  <2> QED BY <1>11, <1>13, <2>1, <2>2 DEF CapacityFacts
<1>21. StartFacts'
  <2>1. sdPc # "start"
    BY <1>2, <1>3 DEF StartFacts
  <2> QED BY <2>1 DEF StartFacts
<1>22. Well' => Well /\ r.fault = 0 /\ HoldsWell(v)
  BY <1>4, <1>11, <1>17 DEF Well, Shows
<1>23. Well' => ok \/ c = "CMD8"
  <2>1. ASSUME Well'
        PROVE  ok \/ c = "CMD8"
    <3>1. WellAnswered(c, a, r)
      BY <1>1, <1>7, <1>22, <2>1, CmdAccepted
    <3> QED BY <1>10, <3>1 DEF WellAnswered
  <2> QED BY <2>1
<1>24. CommandsLegal'
  <2>1. ASSUME mmcFaults' = 0
        PROVE  sdCard'.legal
    <3>1. sdCard.legal
      BY <1>1, <1>17, <2>1 DEF CommandsLegal
    <3>2. ASSUME ~sdCard.off
          PROVE  Legal(c) \/ c = "CMD8"
      <4>1. HoldsWell(v)
        BY <1>4, <1>17, <2>1, <3>2 DEF Well, Shows
      <4> QED BY <1>1, <1>7, <4>1, LegalCmd
    <3> QED BY <1>11, <3>1, <3>2
  <2> QED BY <2>1 DEF CommandsLegal
<1>25. CASE ~ok /\ c # "CMD8"
  <2>1. mmcRun' = Fails /\ ~Well'
    BY <1>15, <1>23, <1>25
  <2>2. ASSUME Later
        PROVE  sdCard'.state \in Selected /\ mmcDrv'.scrValid
    <3>1. sdCard.state \in Selected /\ mmcDrv.scrValid
      BY <1>4, <2>2 DEF Shows, Holds
    <3>2. c # "CMD0"
      BY <1>10, <1>25 DEF Accepted
    <3>3. r.card.state \in Selected
      <4>1. \/ Legal(c) /\ r.card = CardAfter(c, a)
            \/ r.card = [sdCard EXCEPT !.app = FALSE]
        BY <1>82 DEF Replied
      <4>2. CASE Legal(c) /\ r.card = CardAfter(c, a)
        <5>1. r.card.state = StateAfter(c, a)
          BY <1>1, <1>7, <4>2, CardAfterFields
        <5> QED BY <1>1, <1>7, <3>1, <3>2, <4>2, <5>1, StaysSelected
      <4>3. CASE r.card = [sdCard EXCEPT !.app = FALSE]
        BY <1>1, <3>1, <4>3, RefusedFields
      <4> QED BY <4>1, <4>2, <4>3
    <3> QED BY <1>11, <1>13, <3>1, <3>3
  <2>3. DriverStands'
    BY <1>19, <2>1, <2>2, StandsFallen
  <2>4. Facts' /\ DeinitRestores'
    BY <1>1, <1>19, <1>20, <1>21, WorkKeeps
  <2> QED BY <1>18, <1>24, <2>3, <2>4 DEF SdInv
<1>26. CASE (ok \/ c = "CMD8") /\ ~(c = "ACMD41" /\ r.card.state # "ready")
  <2>1. PICK w : w = Leads(Head1, v)
    OBVIOUS
  <2>2. w \in Views
    BY <1>6, <2>1, LeadsView
  <2>3. Holds(w)'
    <3>1. Holds(v) /\ mmcCall' = mmcCall
      BY <1>4, <1>9 DEF Shows
    <3>2. Accepted(c, a, r.flag) \/ c = "CMD8"
      BY <1>10, <1>26
    <3> QED BY <1>1, <1>3, <1>5, <1>6, <1>7, <1>11, <1>12, <1>13, <1>26, <2>1, <3>1, <3>2, CmdHolds
  <2>4. Well' => HoldsWell(w)'
    <3>1. ASSUME Well'
          PROVE  HoldsWell(w)'
      <4>1. HoldsWell(v) /\ r.fault = 0 /\ ~sdCard.off
        BY <1>22, <3>1 DEF Well
      <4> QED BY <1>1, <1>3, <1>5, <1>6, <1>7, <1>11, <1>12, <1>26, <2>1, <4>1, CmdWell
    <3> QED BY <3>1
  <2>5. Shows(w)'
    BY <2>3, <2>4 DEF Shows
  <2>6. Later => w.state \in Selected /\ w.scr
    BY <1>4, <1>6, <2>1, LeadsStays
  <2>7. LeadsTo(mmcRun'.todo, w, Goal, Target, Fall) /\ mmcRun'.ok
    BY <1>3, <1>4, <1>6, <1>15, <1>26, <2>1
  <2>8. DriverStands'
    BY <1>19, <2>2, <2>5, <2>6, <2>7, StandsOn
  <2>9. Facts' /\ DeinitRestores'
    BY <1>1, <1>19, <1>20, <1>21, WorkKeeps
  <2> QED BY <1>18, <1>24, <2>8, <2>9 DEF SdInv
<1>27. CASE (ok \/ c = "CMD8") /\ c = "ACMD41" /\ r.card.state # "ready"
  <2>1. PICK u : u = [v EXCEPT !.app = FALSE]
    OBVIOUS
  <2>2. v.state = "idle" /\ v.app /\ ~v.armed
    BY <1>7, <1>27, AllowedValues DEF CmdAllows, AppCmds
  <2>3. /\ u \in Views /\ LeadsTo(<<Cmd("CMD55", 0)>> \o mmcRun.todo, u, Goal, Target, Fall)
        /\ u.state = "idle" /\ ~u.app /\ ~u.armed /\ (u.scr => v.scr) /\ u.phase = v.phase
          /\ (u.whole => v.whole)
    BY <1>4, <1>14, <2>1, <2>2, Again
  <2>4. \/ r.card = CardAfter(c, a) /\ r.taken
        \/ r.card = [sdCard EXCEPT !.app = FALSE]
    BY <1>82 DEF Replied
  <2>5. /\ r.card.unit = sdCard.unit /\ r.card.good = sdCard.good /\ r.card.fresh = sdCard.fresh
        /\ r.card.blocklen = sdCard.blocklen /\ r.card.disk = sdCard.disk
          /\ r.card.kind = sdCard.kind
        /\ r.card \in CardSet
    <3>1. c \notin BlockCmds /\ c # "CMD16" /\ c # "CMD0"
      BY <1>27 DEF BlockCmds
    <3> QED BY <1>1, <1>7, <2>4, <3>1, CardAfterFields, RefusedFields
  <2>6. /\ sdCard'.unit = sdCard.unit /\ sdCard'.good = sdCard.good /\ sdCard'.fresh = sdCard.fresh
        /\ sdCard'.blocklen = sdCard.blocklen /\ sdCard'.disk = sdCard.disk
          /\ sdCard'.kind = sdCard.kind
    BY <1>11, <2>5 DEF CardSet
  <2>7. Holds(u)'
    <3>1. Holds(v) /\ mmcCall' = mmcCall
      BY <1>4, <1>9 DEF Shows
    <3>2. Damaged(0)' = Damaged(0) /\ Damaged(1)' = Damaged(1)
      BY <1>12 DEF Damaged
    <3>3. u.state \notin Selected
      BY <2>3 DEF Selected
    <3> QED BY <1>12, <1>13, <2>3, <2>6, <3>1, <3>2, <3>3 DEF Holds
  <2>8. ASSUME Well'
        PROVE  HoldsWell(u)'
    <3>1. HoldsWell(v) /\ r.fault = 0
      BY <1>22, <2>8
    <3>2. WellAnswered(c, a, r)
      BY <1>1, <1>7, <3>1, CmdAccepted
    <3>3. r.card = CardAfter(c, a)
      BY <1>27, <3>2 DEF WellAnswered
    <3>4. r.card.state = StateAfter(c, a)
      BY <1>1, <1>7, <3>3, CardAfterFields
    <3>5. StateAfter(c, a) \in {"idle", "ready"}
      BY <1>27 DEF StateAfter, BlockCmds
    <3>6. sdCard'.state = "idle"
      BY <1>11, <1>27, <3>4, <3>5
    <3>7. ~sdcc'.armed /\ "prog_done" \notin sdcc'.flags
      BY <1>12, <1>27, <2>2, <3>1 DEF HoldsWell
    <3> QED BY <1>12, <2>3, <2>6, <3>1, <3>6, <3>7 DEF HoldsWell
  <2>9. Shows(u)'
    BY <2>7, <2>8 DEF Shows
  <2>10. ~Later
    BY <1>4, <2>2 DEF Selected
  <2>11. DriverStands'
    BY <1>6, <1>15, <1>19, <1>27, <2>3, <2>9, <2>10, StandsOn
  <2>12. Facts' /\ DeinitRestores'
    BY <1>1, <1>19, <1>20, <1>21, WorkKeeps
  <2> QED BY <1>18, <1>24, <2>11, <2>12 DEF SdInv
<1> QED BY <1>25, <1>26, <1>27

-----------------------------------------------------------------------------
(* The words of a block.                                                    *)

Fated(fate, k, f) ==
  /\ f \in 0..MaxFaults /\ (f = 0 => mmcFaults = 0 /\ (fate = "none" \/ OffCard(k)))
  /\ fate # "none" /\ ~OffCard(k) => f > 0

\* What befalls a block is counted, unless it is not on the card.
LEMMA Fate ==
  ASSUME TypesOK, NEW faults, NEW k, NEW fate \in Fates(faults, k), NEW f, f = Charge(fate, k)
  PROVE  Fated(fate, k, f) /\ fate \in faults \cup {"none", "data_timeout"}
<1>1. mmcFaults \in Nat /\ mmcFaults <= MaxFaults /\ MaxFaults \in Nat
  BY Fields
<1>2. CASE OffCard(k)
  <2>1. fate = "data_timeout" /\ f = mmcFaults
    BY <1>1, <1>2 DEF Fates, Charge
  <2> QED BY <1>1, <1>2, <2>1 DEF Fated
<1>3. CASE ~OffCard(k) /\ fate = "none"
  <2>1. f = mmcFaults
    BY <1>1, <1>3 DEF Charge
  <2> QED BY <1>1, <1>3, <2>1 DEF Fated
<1>4. CASE ~OffCard(k) /\ fate # "none"
  <2>1. fate \in faults /\ mmcFaults < MaxFaults
    BY <1>4 DEF Fates
  <2>2. f = mmcFaults + 1
    BY <1>4 DEF Charge
  <2> QED BY <1>1, <1>4, <2>1, <2>2 DEF Fated
<1> QED BY <1>2, <1>3, <1>4

Ended(fate) ==
  /\ sdcc' \in ControllerSet /\ sdcc'.mclk = sdcc.mclk /\ sdcc'.hclk = sdcc.hclk
  /\ (sdcc'.armed <=> sdcc.armed)
  /\ fate = "none" => sdcc'.flags = sdcc.flags /\ sdcc'.coming = {"blk_end", "data_end"}
  /\ fate = "data_crc_fail" => sdcc'.flags = sdcc.flags /\ sdcc'.coming = {"data_crc_fail"}
  /\ fate \notin {"none", "data_crc_fail"} =>
       sdcc'.coming = sdcc.coming
         /\ sdcc'.flags = sdcc.flags \cup {IF fate = "adm_error" THEN "rx_overrun" ELSE fate}

\* How the words of a block end.
LEMMA BlockEnded ==
  ASSUME TypesOK, NEW fate \in Errors \cup {"none", "adm_error"}, sdcc' = Ends(fate)
  PROVE  Ended(fate)
<1>1. sdcc \in ControllerSet
  BY DEF TypesOK
<1>2. CASE fate = "none"
  <2>1. sdcc' = [sdcc EXCEPT !.coming = {"blk_end", "data_end"}]
        /\ {"blk_end", "data_end"} \in SUBSET Flags
    BY <1>2 DEF Ends, Flags
  <2>2. /\ sdcc' \in ControllerSet /\ sdcc'.mclk = sdcc.mclk /\ sdcc'.hclk = sdcc.hclk
           /\ sdcc'.armed = sdcc.armed
        /\ sdcc'.flags = sdcc.flags /\ sdcc'.coming = {"blk_end", "data_end"}
    BY <1>1, <2>1 DEF ControllerSet
  <2> QED BY <1>2, <2>2 DEF Ended
<1>3. CASE fate = "data_crc_fail"
  <2>1. sdcc' = [sdcc EXCEPT !.coming = {"data_crc_fail"}] /\ {"data_crc_fail"} \in SUBSET Flags
    BY <1>3 DEF Ends, Flags, Errors
  <2>2. /\ sdcc' \in ControllerSet /\ sdcc'.mclk = sdcc.mclk /\ sdcc'.hclk = sdcc.hclk
           /\ sdcc'.armed = sdcc.armed
        /\ sdcc'.flags = sdcc.flags /\ sdcc'.coming = {"data_crc_fail"}
    BY <1>1, <2>1 DEF ControllerSet
  <2> QED BY <1>3, <2>2 DEF Ended
<1>4. CASE fate \notin {"none", "data_crc_fail"}
  <2>1. PICK e : e = sdcc.flags \cup {IF fate = "adm_error" THEN "rx_overrun" ELSE fate}
    OBVIOUS
  <2>2. sdcc' = [sdcc EXCEPT !.flags = e]
    BY <1>4, <2>1 DEF Ends
  <2>3. sdcc.flags \in SUBSET Flags
    BY <1>1 DEF ControllerSet
  <2>4. e \in SUBSET Flags
    BY <1>4, <2>1, <2>3 DEF Flags, Errors
  <2>5. /\ sdcc' \in ControllerSet /\ sdcc'.mclk = sdcc.mclk /\ sdcc'.hclk = sdcc.hclk
           /\ sdcc'.armed = sdcc.armed
        /\ sdcc'.flags = e /\ sdcc'.coming = sdcc.coming
    BY <1>1, <2>2, <2>4 DEF ControllerSet
  <2> QED BY <1>4, <2>1, <2>5 DEF Ended
<1> QED BY <1>2, <1>3, <1>4

Sent(s, fate) ==
  /\ sdCard' \in CardSet /\ sdCard'.kind = sdCard.kind /\ sdCard'.off = sdCard.off
  /\ sdCard'.disk = sdCard.disk /\ sdCard'.unit = sdCard.unit /\ (sdCard'.legal <=> sdCard.legal)
  /\ (sdCard.app => sdCard'.app) /\ sdCard'.blocklen = sdCard.blocklen /\ sdCard'.state = s
  /\ (sdCard'.good <=> fate = "none") /\ (sdCard'.fresh <=> sdcc.flags = {})

\* The card after a block.
LEMMA CardSentFields ==
  ASSUME TypesOK, NEW fate, sdCard' = CardSent(fate), NEW s,
         s = (IF At("adm") /\ Head1.arg > 1 THEN sdCard.state ELSE "tran")
  PROVE  Sent(s, fate)
<1>1. PICK g \in BOOLEAN, h \in BOOLEAN : g = (fate = "none") /\ h = (sdcc.flags = {})
  OBVIOUS
<1>2. sdCard' = [sdCard EXCEPT !.state = s, !.good = g, !.fresh = h]
  BY <1>1 DEF CardSent
<1>3. sdCard \in CardSet
  BY DEF TypesOK
<1>4. s \in States
  BY Fields DEF States, Selected
<1>5. /\ sdCard' \in CardSet /\ sdCard'.kind = sdCard.kind /\ sdCard'.off = sdCard.off
      /\ sdCard'.disk = sdCard.disk /\ sdCard'.unit = sdCard.unit /\ sdCard'.legal = sdCard.legal
      /\ sdCard'.app = sdCard.app /\ sdCard'.blocklen = sdCard.blocklen /\ sdCard'.state = s
      /\ sdCard'.good = g /\ sdCard'.fresh = h
  BY <1>2, <1>3, <1>4 DEF CardSet
<1> QED BY <1>1, <1>5 DEF Sent

\* A block that came, whatever befell it.
LEMMA CameShows ==
  ASSUME TypesOK, NEW v \in Views, Shows(v), NEW x \in Steps, x.op \in {"rx", "adm"},
         Allows(x, v, Target, Fall),
         NEW fate \in Errors \cup {"none", "adm_error"}, fate # "tx_underrun",
         Fated(fate, x.arg, mmcFaults'), Ended(fate),
         NEW s, s = (IF x.op = "adm" /\ x.arg > 1 THEN sdCard.state ELSE "tran"), Sent(s, fate),
         mmcDrv' = mmcDrv, mmcCall' = mmcCall, NEW w, w = Leads(x, v)
  PROVE  /\ Shows(w)' /\ (Well' => fate = "none")
<1>1. /\ v.state = "data" /\ ~v.armed /\ x.arg \in Nat
      /\ IF x.arg > 0 THEN v.phase = "set" /\ OnCard(Target, x.arg) ELSE v.phase = "none"
  BY DEF Allows
<1>2. /\ w \in Views /\ w.app = v.app /\ w.whole = v.whole /\ w.scr = v.scr /\ w.armed = v.armed
      /\ w.state = (IF x.op = "adm" /\ x.arg > 1 THEN v.state ELSE "tran")
      /\ w.phase = (IF x.arg > 0 THEN "moved" ELSE v.phase)
  BY DoView
<1>3. Holds(v)
  BY DEF Shows
<1>4. sdCard.state \in Selected
  BY <1>1, <1>3 DEF Holds, Selected
<1>5. s \in Selected
  BY <1>4 DEF Selected
<1>6. x.arg > 0 => sdCard.unit = mmcCall.blk /\ sdcc.coming = {} /\ OnCard(Target, x.arg)
  BY <1>1, <1>3 DEF Holds
<1>7. Holds(w)'
  <2>1. CASE x.arg > 0
    <3>1. w.phase = "moved"
      BY <1>2, <2>1
    <3>2. sdCard'.fresh => sdCard'.good \/ Damaged(0)'
      <4>1. ASSUME sdCard'.fresh, ~sdCard'.good
            PROVE  Damaged(0)'
        <5>1. sdcc.flags = {} /\ sdcc.coming = {} /\ fate # "none"
          BY <1>6, <2>1, <4>1 DEF Sent
        <5>2. CASE fate = "data_crc_fail"
          <6>1. sdcc'.flags \cup sdcc'.coming = {"data_crc_fail"}
            BY <5>1, <5>2 DEF Ended
          <6> QED BY <6>1 DEF Damaged, ErrorsSeen
        <5>3. CASE fate # "data_crc_fail"
          <6>1. PICK e : e = IF fate = "adm_error" THEN "rx_overrun" ELSE fate
            OBVIOUS
          <6>2. sdcc'.flags \cup sdcc'.coming = {e}
            BY <5>1, <5>3, <6>1 DEF Ended
          <6>3. e \in ErrorsSeen(0) /\ e # "blk_end"
            BY <5>1, <5>3, <6>1 DEF ErrorsSeen, Errors
          <6> QED BY <6>2, <6>3 DEF Damaged
        <5> QED BY <5>2, <5>3
      <4> QED BY <4>1
    <3> QED BY <1>2, <1>3, <1>5, <1>6, <2>1, <3>1, <3>2 DEF Holds, Sent
  <2>2. CASE ~(x.arg > 0)
    <3>1. w.phase = "none"
      BY <1>1, <1>2, <2>2
    <3> QED BY <1>2, <1>3, <1>5, <3>1 DEF Holds, Sent
  <2> QED BY <2>1, <2>2
<1>8. ASSUME Well'
      PROVE  HoldsWell(w)' /\ fate = "none"
  <2>1. Well /\ (fate = "none" \/ OffCard(x.arg)) /\ ~sdCard.off
    BY <1>8 DEF Well, Fated, Sent
  <2>2. ~OffCard(x.arg)
    <3>1. ASSUME OffCard(x.arg)
          PROVE  FALSE
      <4>1. x.arg > 0 /\ sdCard.unit + x.arg > sdCard.kind.units
        BY <3>1 DEF OffCard
      <4>2. mmcCall.blk + x.arg <= sdCard.kind.units
        BY <1>6, <2>1, <4>1 DEF OnCard, Target
      <4>3. mmcCall.blk \in Nat /\ sdCard.kind.units \in Nat
        BY Fields
      <4> QED BY <1>1, <1>6, <4>1, <4>2, <4>3
    <3> QED BY <3>1
  <2>3. fate = "none"
    BY <2>1, <2>2
  <2>4. sdcc'.flags = sdcc.flags /\ sdcc'.coming = {"blk_end", "data_end"}
        /\ (sdcc'.armed <=> sdcc.armed)
    BY <2>3 DEF Ended
  <2>5. HoldsWell(v)
    BY <2>1 DEF Shows
  <2>6. (sdcc'.flags \cup sdcc'.coming) \cap Errors = {} /\ "prog_done" \notin sdcc'.coming
    BY <2>4, <2>5 DEF HoldsWell, Errors
  <2>7. sdCard'.state = w.state
    BY <1>1, <1>2, <2>5 DEF HoldsWell, Sent
  <2>8. ~sdcc.armed /\ "prog_done" \notin sdcc.flags
    BY <1>1, <2>5 DEF HoldsWell
  <2>9. HoldsWell(w)'
    BY <1>2, <2>4, <2>5, <2>6, <2>7, <2>8 DEF HoldsWell, Sent
  <2> QED BY <2>3, <2>9
<1> QED BY <1>7, <1>8 DEF Shows

\* The steps that are left after one that is done.
LEMMA RestFields ==
  ASSUME TypesOK, mmcRun.todo # <<>>
  PROVE  /\ Rest \in RunSet /\ Rest.todo = Tail(mmcRun.todo) /\ Rest.ok = mmcRun.ok
         /\ Fails \in RunSet /\ Fails.todo = <<>> /\ ~Fails.ok
<1>0. mmcRun.todo \in Seq(Steps)
  BY Fields
<1>1. mmcRun \in RunSet /\ Tail(mmcRun.todo) \in Seq(Steps)
  BY <1>0 DEF TypesOK
<1>2. Rest \in RunSet /\ Rest.todo = Tail(mmcRun.todo) /\ Rest.ok = mmcRun.ok
  BY <1>1 DEF Rest, RunSet
<1>3. Fails \in RunSet /\ Fails.todo = <<>> /\ ~Fails.ok
  BY DEF Fails, RunSet
<1> QED BY <1>2, <1>3

\* After a step that is done the driver stands where it leads.
LEMMA StandsNext ==
  ASSUME TypesOK, WorkFrame, mmcRun.todo # <<>>, mmcRun.ok, Head1 \in Steps, Head1.op # "refuse",
         mmcRun' = Rest,
         NEW v \in Views, Allows(Head1, v, Target, Fall),
           LeadsTo(Tail(mmcRun.todo), Leads(Head1, v), Goal, Target, Fall),
         Later => v.state \in Selected /\ v.scr, NEW w, w = Leads(Head1, v), Shows(w)'
  PROVE  DriverStands'
<1>1. w \in Views
  BY LeadsView
<1>2. Later => w.state \in Selected /\ w.scr
  BY LeadsStays
<1>3. LeadsTo(mmcRun'.todo, w, Goal, Target, Fall) /\ mmcRun'.ok
  BY RestFields
<1> QED BY <1>1, <1>2, <1>3, StandsOn

\* What a step leaves of the rest of the invariant.
LEMMA StepDone ==
  ASSUME SdInv, mmcRun.todo # <<>>, WorkFrame, TypesOK', DriverStands',
         mmcDrv'.highCapacity = mmcDrv.highCapacity, sdCard'.state # "idle"
           => sdCard.state # "idle",
         mmcFaults' = 0 => mmcFaults = 0, sdCard.legal => sdCard'.legal
  PROVE  SdInv'
<1>1. TypesOK /\ Facts /\ CommandsLegal /\ DeinitRestores /\ CapacityFacts /\ StartFacts
  BY DEF SdInv, Facts
<1>2. CapacityFacts'
  BY <1>1 DEF CapacityFacts, WorkFrame
<1>3. StartFacts'
  BY <1>1 DEF StartFacts, WorkFrame
<1>4. CommandsLegal'
  BY <1>1 DEF CommandsLegal
<1>5. Facts' /\ DeinitRestores'
  BY <1>1, <1>2, <1>3, WorkKeeps
<1> QED BY <1>4, <1>5 DEF SdInv

\* A block's words that are read out of the controller keep the invariant.
LEMMA ReadFifoKeeps ==
  ASSUME SdInv, ReadFifo, UNCHANGED <<sdPc, media, sdReq>>
  PROVE  SdInv'
<1>1. TypesOK /\ DriverStands /\ Facts /\ Places /\ RunFacts
  BY DEF SdInv, Facts
<1>2. mmcRun.todo # <<>> /\ Head1.op = "rx" /\ ~At("adm")
  BY DEF ReadFifo, At
<1>3. PICK v \in Views :
        /\ Shows(v) /\ Allows(Head1, v, Target, Fall)
        /\ Head1.op # "refuse" => LeadsTo(Tail(mmcRun.todo), Leads(Head1, v), Goal, Target, Fall)
        /\ LeadsTo(mmcRun.todo, v, Goal, Target, Fall)
        /\ Later => v.state \in Selected /\ v.scr
  BY <1>1, <1>2, AtWork
<1>4. Head1 \in Steps /\ mmcRun.ok
  BY <1>1, <1>2, AtWork
<1> DEFINE faults == {"data_crc_fail", "data_timeout", "rx_overrun", "start_bit_err"}
<1>5. PICK fate \in Fates(faults, Head1.arg) :
        /\ mmcFaults' = Charge(fate, Head1.arg)
        /\ sdcc' = Ends(fate)
        /\ sdCard' = CardSent(fate)
        /\ mmcRun' = IF Delivered(fate) THEN Rest ELSE Fails
  BY DEF ReadFifo
<1>6. UNCHANGED <<mmcBuild, sdcn, mmcDrv, mmcCall, mmcGot>>
  BY DEF ReadFifo
<1>7. Fated(fate, Head1.arg, mmcFaults') /\ fate \in faults \cup {"none", "data_timeout"}
  BY <1>1, <1>5, Fate
<1>8. fate \in Errors \cup {"none", "adm_error"} /\ fate # "tx_underrun"
  BY <1>7 DEF Errors
<1>9. Ended(fate)
  BY <1>1, <1>5, <1>8, BlockEnded
<1>10. Sent("tran", fate)
  <2>1. "tran" = (IF At("adm") /\ Head1.arg > 1 THEN sdCard.state ELSE "tran")
    BY <1>2
  <2> QED BY <1>1, <1>5, <2>1, CardSentFields
<1>11. PICK w : w = Leads(Head1, v)
  OBVIOUS
<1>12. Shows(w)' /\ (Well' => fate = "none")
  <2>1. "tran" = (IF Head1.op = "adm" /\ Head1.arg > 1 THEN sdCard.state ELSE "tran")
    BY <1>2
  <2> QED BY <1>1, <1>2, <1>3, <1>4, <1>6, <1>7, <1>8, <1>9, <1>10, <1>11, <2>1, CameShows
<1>13. TypesOK'
  <2>1. mmcRun' \in RunSet
    BY <1>1, <1>2, <1>5, RestFields
  <2>2. sdCard' \in CardSet /\ sdCard'.disk \in [0..(sdCard'.kind.units - 1) -> Int]
    BY <1>1, <1>10 DEF TypesOK, Sent
  <2> QED BY <1>1, <1>6, <1>7, <1>9, <2>1, <2>2 DEF TypesOK, Fated, Ended
<1>14. WorkFrame
  <2>1. mmcRun' = Fails \/ (mmcRun'.ok = mmcRun.ok /\ Head1.op # "refuse")
    BY <1>1, <1>2, <1>5, RestFields
  <2> QED BY <1>2, <1>6, <1>9, <1>10, <2>1 DEF WorkFrame, Sent, Ended
<1>15. sdCard.state \in Selected
  BY <1>2, <1>3 DEF Allows, Shows, Holds, Selected
<1>16. DriverStands'
  <2>1. CASE Delivered(fate)
    BY <1>1, <1>2, <1>3, <1>4, <1>5, <1>11, <1>12, <1>14, <2>1, StandsNext
  <2>2. CASE ~Delivered(fate)
    <3>1. ~Well' /\ mmcRun' = Fails
      BY <1>5, <1>12, <2>2 DEF Delivered
    <3>2. Later => sdCard'.state \in Selected /\ mmcDrv'.scrValid
      BY <1>3, <1>6, <1>10 DEF Shows, Holds, Sent, Selected
    <3> QED BY <1>14, <3>1, <3>2, StandsFallen
  <2> QED BY <2>1, <2>2
<1> QED
  <2>1. mmcFaults' = 0 => mmcFaults = 0
    BY <1>7 DEF Fated
  <2>2. sdCard.state # "idle"
    BY <1>15 DEF Selected
  <2> QED BY <1>2, <1>6, <1>10, <1>13, <1>14, <1>16, <2>1, <2>2, StepDone DEF Sent

\* A block, or several, that the data mover takes keep the invariant.
LEMMA MoverKeeps ==
  ASSUME SdInv, adm_start_transfer, UNCHANGED <<sdPc, media, sdReq>>
  PROVE  SdInv'
<1>1. TypesOK /\ DriverStands /\ Facts /\ Places /\ RunFacts
  BY DEF SdInv, Facts
<1>2. mmcRun.todo # <<>> /\ Head1.op = "adm" /\ At("adm")
  BY DEF adm_start_transfer, At
<1>3. PICK v \in Views :
        /\ Shows(v) /\ Allows(Head1, v, Target, Fall)
        /\ Head1.op # "refuse" => LeadsTo(Tail(mmcRun.todo), Leads(Head1, v), Goal, Target, Fall)
        /\ LeadsTo(mmcRun.todo, v, Goal, Target, Fall)
        /\ Later => v.state \in Selected /\ v.scr
  BY <1>1, <1>2, AtWork
<1>4. Head1 \in Steps /\ mmcRun.ok
  BY <1>1, <1>2, AtWork
<1> DEFINE faults == {"data_crc_fail", "data_timeout", "rx_overrun", "adm_error"}
<1>5. PICK fate \in Fates(faults, Head1.arg) :
        /\ mmcFaults' = Charge(fate, Head1.arg)
        /\ sdcc' = Ends(fate)
        /\ sdCard' = CardSent(fate)
        /\ mmcRun' = IF fate = "adm_error" THEN Fails ELSE Rest
  BY DEF adm_start_transfer
<1>6. UNCHANGED <<mmcBuild, sdcn, mmcDrv, mmcCall, mmcGot>>
  BY DEF adm_start_transfer
<1>7. Fated(fate, Head1.arg, mmcFaults') /\ fate \in faults \cup {"none", "data_timeout"}
  BY <1>1, <1>5, Fate
<1>8. fate \in Errors \cup {"none", "adm_error"} /\ fate # "tx_underrun"
  BY <1>7 DEF Errors
<1>9. Ended(fate)
  BY <1>1, <1>5, <1>8, BlockEnded
<1>10. PICK s : s = (IF At("adm") /\ Head1.arg > 1 THEN sdCard.state ELSE "tran")
  OBVIOUS
<1>101. Sent(s, fate)
  BY <1>1, <1>5, <1>10, CardSentFields
<1>11. PICK w : w = Leads(Head1, v)
  OBVIOUS
<1>12. Shows(w)' /\ (Well' => fate = "none")
  <2>1. s = (IF Head1.op = "adm" /\ Head1.arg > 1 THEN sdCard.state ELSE "tran")
    BY <1>2, <1>10
  <2> QED BY <1>1, <1>2, <1>3, <1>4, <1>6, <1>7, <1>8, <1>9, <1>101, <1>11, <2>1, CameShows
<1>13. TypesOK'
  <2>1. mmcRun' \in RunSet
    BY <1>1, <1>2, <1>5, RestFields
  <2>2. sdCard' \in CardSet /\ sdCard'.disk \in [0..(sdCard'.kind.units - 1) -> Int]
    BY <1>1, <1>101 DEF TypesOK, Sent
  <2> QED BY <1>1, <1>6, <1>7, <1>9, <2>1, <2>2 DEF TypesOK, Fated, Ended
<1>14. WorkFrame
  <2>1. mmcRun' = Fails \/ (mmcRun'.ok = mmcRun.ok /\ Head1.op # "refuse")
    BY <1>1, <1>2, <1>5, RestFields
  <2> QED BY <1>2, <1>6, <1>9, <1>101, <2>1 DEF WorkFrame, Sent, Ended
<1>15. sdCard.state \in Selected
  BY <1>2, <1>3 DEF Allows, Shows, Holds, Selected
<1>16. DriverStands'
  <2>1. CASE fate # "adm_error"
    BY <1>1, <1>2, <1>3, <1>4, <1>5, <1>11, <1>12, <1>14, <2>1, StandsNext
  <2>2. CASE fate = "adm_error"
    <3>1. ~Well' /\ mmcRun' = Fails
      BY <1>5, <1>12, <2>2
    <3>2. Later => sdCard'.state \in Selected /\ mmcDrv'.scrValid
      BY <1>3, <1>6, <1>10, <1>101, <1>15 DEF Shows, Holds, Sent, Selected
    <3> QED BY <1>14, <3>1, <3>2, StandsFallen
  <2> QED BY <2>1, <2>2
<1> QED
  <2>1. mmcFaults' = 0 => mmcFaults = 0
    BY <1>7 DEF Fated
  <2>2. sdCard.state # "idle"
    BY <1>15 DEF Selected
  <2> QED BY <1>2, <1>6, <1>101, <1>13, <1>14, <1>16, <2>1, <2>2, StepDone DEF Sent

\* The SCR that is read keeps the invariant.
LEMMA ReadScrKeeps ==
  ASSUME SdInv, ReadScr, UNCHANGED <<sdPc, media, sdReq>>
  PROVE  SdInv'
<1>1. TypesOK /\ DriverStands /\ Facts /\ Places /\ RunFacts
  BY DEF SdInv, Facts
<1>2. mmcRun.todo # <<>> /\ Head1.op = "scr" /\ ~At("adm")
  BY DEF ReadScr, At
<1>3. PICK v \in Views :
        /\ Shows(v) /\ Allows(Head1, v, Target, Fall)
        /\ Head1.op # "refuse" => LeadsTo(Tail(mmcRun.todo), Leads(Head1, v), Goal, Target, Fall)
        /\ LeadsTo(mmcRun.todo, v, Goal, Target, Fall)
        /\ Later => v.state \in Selected /\ v.scr
  BY <1>1, <1>2, AtWork
<1>4. Head1 \in Steps /\ mmcRun.ok
  BY <1>1, <1>2, AtWork
<1> DEFINE faults == {"data_crc_fail", "data_timeout"}
<1>5. PICK fate \in Fates(faults, 0) :
        /\ mmcFaults' = Charge(fate, 0)
        /\ sdcc' = Ends(fate)
        /\ sdCard' = CardSent(fate)
        /\ mmcDrv' = [mmcDrv EXCEPT !.scrValid = Delivered(fate)]
        /\ mmcRun' = IF Delivered(fate) THEN Rest ELSE [mmcRun EXCEPT !.todo = <<Do("stuck", 0)>>]
  BY DEF ReadScr
<1>6. UNCHANGED <<mmcBuild, sdcn, mmcCall, mmcGot>>
  BY DEF ReadScr
<1>7. Fated(fate, 0, mmcFaults') /\ fate \in faults \cup {"none", "data_timeout"}
  BY <1>1, <1>5, Fate
<1>8. fate \in Errors \cup {"none", "adm_error"} /\ fate # "tx_underrun" /\ ~OffCard(0)
  BY <1>7 DEF Errors, OffCard
<1>9. Ended(fate)
  BY <1>1, <1>5, <1>8, BlockEnded
<1>10. Sent("tran", fate)
  <2>1. "tran" = (IF At("adm") /\ Head1.arg > 1 THEN sdCard.state ELSE "tran")
    BY <1>2
  <2> QED BY <1>1, <1>5, <2>1, CardSentFields
<1>11. /\ mmcDrv' \in DriverSet /\ (mmcDrv'.scrValid <=> Delivered(fate))
          /\ mmcDrv'.dev = mmcDrv.dev
       /\ mmcDrv'.ready = mmcDrv.ready /\ mmcDrv'.highCapacity = mmcDrv.highCapacity
  <2>0. Delivered(fate) \in BOOLEAN
    BY DEF Delivered
  <2>1. PICK d \in BOOLEAN : d = Delivered(fate)
    BY <2>0
  <2>2. mmcDrv' = [mmcDrv EXCEPT !.scrValid = d] /\ mmcDrv \in DriverSet
    BY <1>1, <1>5, <2>1 DEF TypesOK
  <2>3. /\ mmcDrv' \in DriverSet /\ mmcDrv'.scrValid = d /\ mmcDrv'.dev = mmcDrv.dev
        /\ mmcDrv'.ready = mmcDrv.ready /\ mmcDrv'.highCapacity = mmcDrv.highCapacity
    BY <2>2 DEF DriverSet
  <2> QED BY <2>1, <2>3
<1>12. v.state = "data" /\ ~v.armed /\ ~v.scr /\ v.phase = "none"
  BY <1>2, <1>3 DEF Allows
<1>13. mmcRun' \in RunSet /\ mmcRun'.ok = mmcRun.ok
       /\ (~Delivered(fate) => mmcRun'.todo = <<Do("stuck", 0)>>)
         /\ (Delivered(fate) => mmcRun' = Rest)
  <2>1. Do("stuck", 0) \in Steps
    BY StepTypes DEF Ops
  <2>20. <<Do("stuck", 0)>> \in Seq(Steps)
    BY <2>1
  <2>2. PICK t \in Seq(Steps) : t = <<Do("stuck", 0)>>
    BY <2>20
  <2>3. mmcRun \in RunSet
    BY <1>1 DEF TypesOK
  <2>4. LET q == [mmcRun EXCEPT !.todo = t] IN q \in RunSet /\ q.ok = mmcRun.ok /\ q.todo = t
    BY <2>2, <2>3 DEF RunSet
  <2> QED BY <1>1, <1>2, <1>5, <2>2, <2>4, RestFields
<1>14. TypesOK'
  <2>1. sdCard' \in CardSet /\ sdCard'.disk \in [0..(sdCard'.kind.units - 1) -> Int]
    BY <1>1, <1>10 DEF TypesOK, Sent
  <2> QED BY <1>1, <1>6, <1>7, <1>9, <1>11, <1>13, <2>1 DEF TypesOK, Fated, Ended
<1>15. WorkFrame
  BY <1>2, <1>6, <1>9, <1>10, <1>11, <1>13 DEF WorkFrame, Sent, Ended
<1>16. sdCard.state \in Selected
  BY <1>3, <1>12 DEF Shows, Holds, Selected
<1>17. ~Later
  BY <1>3, <1>12
<1>18. Well' => Well /\ fate = "none"
  BY <1>7, <1>8, <1>10 DEF Well, Fated, Sent
<1>19. CASE Delivered(fate)
  <2>1. PICK w : w = Leads(Head1, v)
    OBVIOUS
  <2>2. w \in Views /\ w.state = "tran" /\ w.app = v.app /\ w.whole = v.whole /\ w.armed = v.armed
        /\ w.phase = "none"
    BY <1>2, <1>4, <1>12, <2>1, DoView
  <2>3. Holds(w)'
    BY <1>10, <1>11, <1>19, <2>2 DEF Holds, Selected, Sent
  <2>4. ASSUME Well'
        PROVE  HoldsWell(w)'
    <3>1. HoldsWell(v) /\ fate = "none"
      BY <1>3, <1>18, <2>4 DEF Shows
    <3>2. sdcc'.flags = sdcc.flags /\ sdcc'.coming = {"blk_end", "data_end"}
          /\ (sdcc'.armed <=> sdcc.armed)
      BY <1>9, <3>1 DEF Ended
    <3>3. (sdcc'.flags \cup sdcc'.coming) \cap Errors = {} /\ "prog_done" \notin sdcc'.coming
      BY <3>1, <3>2 DEF HoldsWell, Errors
    <3>4. ~sdcc.armed /\ "prog_done" \notin sdcc.flags
      BY <1>12, <3>1 DEF HoldsWell
    <3> QED BY <1>10, <2>2, <3>1, <3>2, <3>3, <3>4 DEF HoldsWell, Sent
  <2>5. Shows(w)'
    BY <2>3, <2>4 DEF Shows
  <2>6. DriverStands'
    BY <1>1, <1>2, <1>3, <1>4, <1>13, <1>15, <1>19, <2>1, <2>5, StandsNext
  <2> QED
    <3>1. mmcFaults' = 0 => mmcFaults = 0
      BY <1>7 DEF Fated
    <3>2. sdCard.state # "idle"
      BY <1>16 DEF Selected
    <3> QED BY <1>2, <1>10, <1>11, <1>14, <1>15, <2>6, <3>1, <3>2, StepDone DEF Sent
<1>20. CASE ~Delivered(fate)
  <2>1. mmcFaults' > 0
    BY <1>7, <1>8, <1>20 DEF Fated, Delivered
  <2>2. Holds(v)'
    BY <1>10, <1>12 DEF Holds, Selected, Sent
  <2>3. ~Well'
    BY <1>18, <1>20 DEF Delivered
  <2>4. ~Stopped'
    BY <1>4, <1>13 DEF Stopped
  <2>5. ~Later'
    BY <1>15, <1>17, FrameSame
  <2>6. Stands(v)'
    BY <1>13, <1>20, <2>1, <2>2, <2>3, <2>4, <2>5 DEF Stands, Shows
  <2>7. DriverStands'
    BY <2>6 DEF DriverStands
  <2> QED
    <3>1. mmcFaults' = 0 => mmcFaults = 0
      BY <1>7 DEF Fated
    <3>2. sdCard.state # "idle"
      BY <1>16 DEF Selected
    <3> QED BY <1>2, <1>10, <1>11, <1>14, <1>15, <2>7, <3>1, <3>2, StepDone DEF Sent
<1> QED BY <1>19, <1>20

\* What a function that is to go on asks of the run.
LEMMA RunNext ==
  ASSUME TypesOK, mmcRun.todo # <<>>, mmcRun' = Rest \/ mmcRun' = Fails
  PROVE  mmcRun' \in RunSet /\ (mmcRun' = Fails \/ mmcRun'.ok = mmcRun.ok)
BY RestFields

WrittenCard(fate) ==
  /\ sdCard' \in CardSet /\ sdCard'.disk \in [0..(sdCard'.kind.units - 1) -> Int]
  /\ sdCard'.kind = sdCard.kind /\ sdCard'.off = sdCard.off
  /\ sdCard'.unit = sdCard.unit /\ (sdCard'.legal <=> sdCard.legal)
  /\ (sdCard.app => sdCard'.app) /\ sdCard'.blocklen = sdCard.blocklen
  /\ sdCard'.state = (IF fate = "none" THEN "prog" ELSE "tran")
  /\ (sdCard'.good <=> fate = "none") /\ (sdCard'.fresh <=> sdcc.flags = {})
  /\ fate # "none" => sdCard'.disk = sdCard.disk
  /\ fate = "none" => sdCard'.disk = [sdCard.disk EXCEPT ![sdCard.unit] = mmcCall.run]

\* The card after the words of a block that is written.
LEMMA WrittenFields ==
  ASSUME TypesOK, NEW fate,
         sdCard' = [sdCard EXCEPT
                      !.state = IF fate = "none" THEN "prog" ELSE "tran",
                      !.good = fate = "none", !.fresh = sdcc.flags = {},
                      !.disk = IF fate # "none" THEN @
                               ELSE [@ EXCEPT ![sdCard.unit] = mmcCall.run]]
  PROVE  WrittenCard(fate)
<1>1. PICK g \in BOOLEAN, h \in BOOLEAN : g = (fate = "none") /\ h = (sdcc.flags = {})
  OBVIOUS
<1>2. PICK s, d : /\ s = (IF fate = "none" THEN "prog" ELSE "tran")
                  /\ d = (IF fate # "none" THEN sdCard.disk
                    ELSE [sdCard.disk EXCEPT ![sdCard.unit] = mmcCall.run])
  OBVIOUS
<1>3. sdCard \in CardSet /\ sdCard.disk \in [0..(sdCard.kind.units - 1) -> Int]
      /\ sdCard.kind \in Cards
  BY Fields DEF TypesOK
<1>4. sdCard' = [sdCard EXCEPT !.state = s, !.good = g, !.fresh = h, !.disk = d]
  BY <1>1, <1>2, <1>3
<1>5. mmcCall.run \in Int
  BY Fields
<1>6. d \in [0..(sdCard.kind.units - 1) -> Int]
  BY <1>2, <1>3, <1>5
<1>7. d \in UNION {[0..(k.units - 1) -> Int] : k \in Cards} /\ s \in States
  BY <1>2, <1>3, <1>6 DEF States, Selected
<1>8. /\ sdCard' \in CardSet /\ sdCard'.kind = sdCard.kind /\ sdCard'.off = sdCard.off
      /\ sdCard'.disk = d /\ sdCard'.unit = sdCard.unit /\ sdCard'.legal = sdCard.legal
      /\ sdCard'.app = sdCard.app /\ sdCard'.blocklen = sdCard.blocklen /\ sdCard'.state = s
      /\ sdCard'.good = g /\ sdCard'.fresh = h
  BY <1>3, <1>4, <1>7 DEF CardSet
<1> QED BY <1>1, <1>2, <1>6, <1>8 DEF WrittenCard

\* A block that went, whatever befell it.
LEMMA WentShows ==
  ASSUME TypesOK, NEW v \in Views, Shows(v), NEW x \in Steps, x.op = "tx",
         Allows(x, v, Target, Fall),
         NEW fate \in {"none", "data_crc_fail"}, fate = "none" => ~OffCard(1),
         Fated(fate, 1, mmcFaults'), Ended(fate), WrittenCard(fate), OffCard(1) => sdCard.off,
         mmcDrv' = mmcDrv, mmcCall' = mmcCall, NEW w, w = Leads(x, v)
  PROVE  Shows(w)'
<1>1. v.state = "rcv" /\ ~v.armed /\ v.phase = "set"
  BY DEF Allows
<1>2. /\ w \in Views /\ w.app = v.app /\ w.whole = v.whole /\ w.scr = v.scr /\ w.armed = v.armed
      /\ w.state = "prog" /\ w.phase = "written"
  BY DoView
<1>3. Holds(v) /\ sdCard.unit = mmcCall.blk /\ sdcc.coming = {}
  BY <1>1 DEF Shows, Holds
<1>4. sdCard'.fresh => sdCard'.good \/ Damaged(1)'
  <2>1. ASSUME sdCard'.fresh, ~sdCard'.good
        PROVE  Damaged(1)'
    <3>1. sdcc.flags = {} /\ fate = "data_crc_fail"
      BY <2>1 DEF WrittenCard
    <3>2. sdcc'.flags \cup sdcc'.coming = {"data_crc_fail"}
      BY <3>1 DEF Ended
    <3> QED BY <3>2 DEF Damaged, ErrorsSeen
  <2> QED BY <2>1
<1>5. sdCard'.good => mmcCall.blk < sdCard'.kind.units /\ sdCard'.disk[mmcCall.blk] = mmcCall.run
  <2>1. ASSUME sdCard'.good
        PROVE  mmcCall.blk < sdCard'.kind.units /\ sdCard'.disk[mmcCall.blk] = mmcCall.run
    <3>1. fate = "none" /\ sdCard'.disk = [sdCard.disk EXCEPT ![mmcCall.blk] = mmcCall.run]
      BY <1>3, <2>1 DEF WrittenCard
    <3>2. ~(mmcCall.blk + 1 > sdCard.kind.units)
      BY <1>3, <3>1 DEF OffCard
    <3>3. mmcCall.blk \in Nat /\ sdCard.kind.units \in Nat
          /\ sdCard.disk \in [0..(sdCard.kind.units - 1) -> Int]
      BY Fields DEF TypesOK
    <3>4. mmcCall.blk \in DOMAIN sdCard.disk /\ mmcCall.blk < sdCard.kind.units
      BY <3>2, <3>3
    <3> QED BY <3>1, <3>4 DEF WrittenCard
  <2> QED BY <2>1
<1>6. Holds(w)'
  BY <1>2, <1>3, <1>4, <1>5 DEF Holds, Selected, WrittenCard
<1>7. ASSUME Well'
      PROVE  HoldsWell(w)'
  <2>1. Well /\ fate = "none"
    <3>1. mmcFaults = 0 /\ ~sdCard.off /\ (fate = "none" \/ OffCard(1))
      BY <1>7 DEF Well, Fated, WrittenCard
    <3> QED BY <3>1 DEF Well
  <2>2. HoldsWell(v)
    BY <2>1 DEF Shows
  <2>3. sdcc'.flags = sdcc.flags /\ sdcc'.coming = {"blk_end", "data_end"}
        /\ (sdcc'.armed <=> sdcc.armed)
    BY <2>1 DEF Ended
  <2>4. (sdcc'.flags \cup sdcc'.coming) \cap Errors = {} /\ "prog_done" \notin sdcc'.coming
    BY <2>2, <2>3 DEF HoldsWell, Errors
  <2>5. ~sdcc.armed /\ "prog_done" \notin sdcc.flags
    BY <1>1, <2>2 DEF HoldsWell
  <2>6. sdCard'.state = "prog" /\ (sdCard.app => sdCard'.app) /\ sdCard'.blocklen = sdCard.blocklen
    BY <2>1 DEF WrittenCard
  <2> QED BY <1>2, <2>2, <2>3, <2>4, <2>5, <2>6 DEF HoldsWell
<1> QED BY <1>6, <1>7 DEF Shows

\* A block's words that are written into the controller keep the invariant.
LEMMA WriteFifoKeeps ==
  ASSUME SdInv, WriteFifo, UNCHANGED <<sdPc, media, sdReq>>
  PROVE  SdInv'
<1>1. TypesOK /\ DriverStands /\ Facts /\ Places /\ RunFacts
  BY DEF SdInv, Facts
<1>2. mmcRun.todo # <<>> /\ Head1.op = "tx"
  BY DEF WriteFifo, At
<1>3. PICK v \in Views :
        /\ Shows(v) /\ Allows(Head1, v, Target, Fall)
        /\ Head1.op # "refuse" => LeadsTo(Tail(mmcRun.todo), Leads(Head1, v), Goal, Target, Fall)
        /\ LeadsTo(mmcRun.todo, v, Goal, Target, Fall)
        /\ Later => v.state \in Selected /\ v.scr
  BY <1>1, <1>2, AtWork
<1>4. Head1 \in Steps /\ mmcRun.ok
  BY <1>1, <1>2, AtWork
<1> DEFINE faults == {"data_crc_fail", "data_timeout", "tx_underrun"}
           stale == {"data_timeout", "tx_underrun"} \cap sdcc.flags # {}
<1>5. PICK fate \in Fates(faults, 1) :
        /\ mmcFaults' = IF stale THEN mmcFaults ELSE Charge(fate, 1)
        /\ sdcc' = IF stale THEN sdcc ELSE Ends(fate)
        /\ sdCard' = IF stale \/ ~Delivered(fate) THEN sdCard
                     ELSE [sdCard EXCEPT
                             !.state = IF fate = "none" THEN "prog" ELSE "tran",
                             !.good = fate = "none", !.fresh = sdcc.flags = {},
                             !.disk = IF fate # "none" THEN @
                                      ELSE [@ EXCEPT ![sdCard.unit] = mmcCall.run]]
        /\ mmcRun' = IF stale \/ ~Delivered(fate) THEN Fails ELSE Rest
  BY DEF WriteFifo
<1>6. UNCHANGED <<mmcBuild, sdcn, mmcDrv, mmcCall, mmcGot>>
  BY DEF WriteFifo
<1> HIDE DEF stale
<1>7. ~stale => Fated(fate, 1, mmcFaults')
  BY <1>1, <1>5, Fate
<1>70. fate \in faults \cup {"none", "data_timeout"}
  BY <1>1, Fate
<1>8. fate \in Errors \cup {"none", "adm_error"}
  BY <1>70 DEF Errors
<1>9. ~stale => Ended(fate)
  BY <1>1, <1>5, <1>8, BlockEnded
<1>10. v.state = "rcv" /\ ~v.armed /\ v.phase = "set" /\ OnCard(Target, 1)
  BY <1>2, <1>3 DEF Allows
<1>11. sdCard.state \in Selected /\ sdCard.unit = mmcCall.blk
  BY <1>3, <1>10 DEF Shows, Holds, Selected
<1>12. OffCard(1) => sdCard.off
  <2>1. mmcCall.blk \in Nat /\ sdCard.kind.units \in Nat
    BY <1>1, Fields
  <2> QED BY <1>10, <1>11, <2>1 DEF OffCard, OnCard, Target
<1>13. mmcFaults' \in 0..MaxFaults /\ (mmcFaults' = 0 => mmcFaults = 0)
  <2>1. CASE stale
    BY <1>1, <1>5, <2>1 DEF TypesOK
  <2>2. CASE ~stale
    BY <1>7, <2>2 DEF Fated
  <2> QED BY <2>1, <2>2
<1>14. sdcc' \in ControllerSet /\ sdcc'.mclk = sdcc.mclk /\ sdcc'.hclk = sdcc.hclk
  <2>1. CASE stale
    BY <1>1, <1>5, <2>1 DEF TypesOK
  <2>2. CASE ~stale
    BY <1>9, <2>2 DEF Ended
  <2> QED BY <2>1, <2>2
<1>15. mmcRun' \in RunSet /\ (mmcRun' = Fails \/ mmcRun'.ok = mmcRun.ok)
  BY <1>1, <1>2, <1>5, RunNext
<1>16. CASE stale \/ ~Delivered(fate)
  <2>1. mmcRun' = Fails /\ sdCard' = sdCard
    BY <1>5, <1>16
  <2>2. ~Well'
    <3>1. ASSUME Well'
          PROVE  FALSE
      <4>1. Well /\ ~sdCard.off
        BY <1>13, <2>1, <3>1 DEF Well
      <4>2. (sdcc.flags \cup sdcc.coming) \cap Errors = {}
        BY <1>3, <4>1 DEF Shows, HoldsWell
      <4>3. ~stale
        BY <4>2 DEF Errors, stale
      <4>4. fate # "none" /\ ~OffCard(1)
        BY <1>12, <1>16, <4>1, <4>3 DEF Delivered
      <4>5. mmcFaults' > 0
        BY <1>7, <4>3, <4>4 DEF Fated
      <4> QED BY <3>1, <4>5 DEF Well
    <3> QED BY <3>1
  <2>3. Later => sdCard'.state \in Selected /\ mmcDrv'.scrValid
    BY <1>3, <1>6, <1>11, <2>1 DEF Shows, Holds
  <2>4. WorkFrame
    BY <1>2, <1>6, <1>14, <2>1 DEF WorkFrame
  <2>5. DriverStands'
    BY <2>1, <2>2, <2>3, <2>4, StandsFallen
  <2>6. TypesOK'
    BY <1>1, <1>6, <1>13, <1>14, <1>15, <2>1 DEF TypesOK
  <2>7. sdCard'.state # "idle" => sdCard.state # "idle"
    BY <2>1
  <2>8. sdCard.legal => sdCard'.legal
    BY <2>1
  <2> QED BY <1>2, <1>6, <1>13, <2>4, <2>5, <2>6, <2>7, <2>8, StepDone
<1>17. CASE ~stale /\ Delivered(fate)
  <2>1. mmcRun' = Rest
    BY <1>5, <1>17
  <2>2. WrittenCard(fate)
    BY <1>1, <1>5, <1>17, WrittenFields
  <2>3. fate \in {"none", "data_crc_fail"}
    BY <1>17 DEF Delivered
  <2>4. fate = "none" => ~OffCard(1)
    BY <1>5 DEF Fates
  <2>5. PICK w : w = Leads(Head1, v)
    OBVIOUS
  <2>6. Fated(fate, 1, mmcFaults') /\ Ended(fate)
    BY <1>7, <1>9, <1>17
  <2>7. Shows(w)'
    <3>1. mmcDrv' = mmcDrv /\ mmcCall' = mmcCall
      BY <1>6
    <3> QED BY <1>1, <1>2, <1>3, <1>4, <1>12, <2>2, <2>3, <2>4, <2>5, <2>6, <3>1, WentShows
  <2>8. WorkFrame
    <3>1. sdCard'.disk = sdCard.disk
          \/ sdCard'.disk = [sdCard.disk EXCEPT ![mmcCall.blk] = mmcCall.run]
      BY <1>11, <2>2 DEF WrittenCard
    <3>2. sdCard'.kind = sdCard.kind /\ sdCard'.off = sdCard.off
      BY <2>2 DEF WrittenCard
    <3> QED BY <1>2, <1>6, <1>14, <1>15, <3>1, <3>2 DEF WorkFrame
  <2>9. DriverStands'
    BY <1>1, <1>2, <1>3, <1>4, <2>1, <2>5, <2>7, <2>8, StandsNext
  <2>10. TypesOK'
    <3>1. sdCard' \in CardSet /\ sdCard'.disk \in [0..(sdCard'.kind.units - 1) -> Int]
      BY <2>2 DEF WrittenCard
    <3> QED BY <1>1, <1>6, <1>13, <1>14, <1>15, <3>1 DEF TypesOK
  <2>11. sdCard.state # "idle" /\ (sdCard.legal => sdCard'.legal)
    BY <1>11, <2>2 DEF Selected, WrittenCard
  <2> QED BY <1>2, <1>6, <1>13, <2>8, <2>9, <2>10, <2>11, StepDone
<1> QED BY <1>16, <1>17

-----------------------------------------------------------------------------
(* Waits and tests: only the controller's flags change.                     *)

Quiet == UNCHANGED <<mmcBuild, sdCard, sdcn, mmcDrv, mmcCall, mmcGot, mmcFaults, sdPc, media,
         sdReq>>

FlagsOnly == sdcc' \in ControllerSet /\ sdcc'.mclk = sdcc.mclk /\ sdcc'.hclk = sdcc.hclk

\* Taking flags away.
LEMMA FlagsTaken ==
  ASSUME TypesOK, NEW gone, sdcc' = [sdcc EXCEPT !.flags = @ \ gone]
  PROVE  FlagsOnly /\ sdcc'.flags = sdcc.flags \ gone /\ sdcc'.coming = sdcc.coming
         /\ sdcc'.armed = sdcc.armed
<1>1. sdcc \in ControllerSet
  BY DEF TypesOK
<1>2. PICK f : f = sdcc.flags \ gone
  OBVIOUS
<1>3. sdcc' = [sdcc EXCEPT !.flags = f]
  BY <1>2
<1>4. sdcc.flags \subseteq Flags
  BY Fields
<1>5. f \in SUBSET Flags
  BY <1>2, <1>4
<1> QED BY <1>1, <1>2, <1>3, <1>5 DEF ControllerSet, FlagsOnly

\* What such a step needs for its frame.
LEMMA QuietFrame ==
  ASSUME TypesOK, RunFacts, mmcRun.todo # <<>>, Quiet, FlagsOnly,
         mmcRun' = Fails \/ (mmcRun' = Rest /\ Head1.op # "refuse")
  PROVE  WorkFrame /\ TypesOK'
<1>1. mmcRun' \in RunSet /\ (mmcRun' = Fails \/ (mmcRun'.ok = mmcRun.ok /\ Head1.op # "refuse"))
  BY RunNext
<1>2. WorkFrame
  BY <1>1 DEF WorkFrame, Quiet, FlagsOnly
<1>3. TypesOK'
  BY <1>1 DEF TypesOK, Quiet, FlagsOnly
<1> QED BY <1>2, <1>3

\* And what is left of the invariant then.
LEMMA QuietDone ==
  ASSUME SdInv, mmcRun.todo # <<>>, Quiet, WorkFrame, TypesOK', DriverStands'
  PROVE  SdInv'
<1>1. /\ mmcDrv'.highCapacity = mmcDrv.highCapacity
      /\ sdCard'.state # "idle" => sdCard.state # "idle"
      /\ mmcFaults' = 0 => mmcFaults = 0
      /\ sdCard.legal => sdCard'.legal
  BY DEF Quiet
<1> QED BY <1>1, StepDone

\* A fault that is seen in the status ends the function.
LEMMA QuietFails ==
  ASSUME SdInv, mmcRun.todo # <<>>, Quiet, WorkFrame, TypesOK', mmcRun' = Fails, ~Well,
         NEW v \in Views, Holds(v), Later => v.state \in Selected /\ v.scr
  PROVE  SdInv'
<1>1. ~Well'
  BY DEF Well, Quiet
<1>2. Later => sdCard'.state \in Selected /\ mmcDrv'.scrValid
  BY DEF Holds, Quiet
<1>3. DriverStands'
  BY <1>1, <1>2, StandsFallen
<1> QED BY <1>3, QuietDone

\* The wait for a block's end keeps the invariant.
LEMMA CheckKeeps ==
  ASSUME SdInv, CheckStatus, UNCHANGED <<sdPc, media, sdReq>>
  PROVE  SdInv'
<1>1. TypesOK /\ DriverStands /\ Facts /\ Places /\ RunFacts
  BY DEF SdInv, Facts
<1>2. mmcRun.todo # <<>> /\ Head1.op = "check"
  BY DEF CheckStatus, At
<1>3. PICK v \in Views :
        /\ Shows(v) /\ Allows(Head1, v, Target, Fall)
        /\ Head1.op # "refuse" => LeadsTo(Tail(mmcRun.todo), Leads(Head1, v), Goal, Target, Fall)
        /\ LeadsTo(mmcRun.todo, v, Goal, Target, Fall)
        /\ Later => v.state \in Selected /\ v.scr
  BY <1>1, <1>2, AtWork
<1>4. Head1 \in Steps /\ mmcRun.ok
  BY <1>1, <1>2, AtWork
<1>5. PICK bad : bad = sdcc.flags \cap ErrorsSeen(Head1.arg)
  OBVIOUS
<1>6. (bad # {} \/ "blk_end" \in sdcc.flags) /\ mmcRun' = IF bad # {} THEN Fails ELSE Rest
  BY <1>5 DEF CheckStatus
<1>7. Quiet /\ sdcc' = sdcc
  BY DEF CheckStatus, Quiet
<1>8. FlagsOnly
  BY <1>1, <1>7 DEF FlagsOnly, TypesOK
<1>9. WorkFrame /\ TypesOK'
  BY <1>1, <1>2, <1>6, <1>7, <1>8, QuietFrame
<1>10. CASE bad # {}
  <2>1. ~Well
    <3>1. ErrorsSeen(Head1.arg) \subseteq Errors
      BY DEF ErrorsSeen, Errors
    <3>2. Well => sdcc.flags \cap Errors = {}
      BY <1>3 DEF Shows, HoldsWell
    <3> QED BY <1>5, <1>10, <3>1, <3>2
  <2>2. Holds(v)
    BY <1>3 DEF Shows
  <2> QED BY <1>2, <1>3, <1>6, <1>7, <1>9, <1>10, <2>1, <2>2, QuietFails
<1>11. CASE bad = {}
  <2>1. mmcRun' = Rest /\ "blk_end" \in sdcc.flags
    BY <1>6, <1>11
  <2>2. PICK w : w = Leads(Head1, v)
    OBVIOUS
  <2>3. /\ w \in Views /\ w.app = v.app /\ w.whole = v.whole /\ w.scr = v.scr /\ w.armed = v.armed
           /\ w.state = v.state
        /\ w.phase = (IF v.phase = "moved" THEN "checked" ELSE IF v.phase = "written" THEN "kept"
          ELSE v.phase)
    BY <1>2, <1>4, <2>2, DoView
  <2>4. Holds(v) /\ ~Damaged(0) /\ ~Damaged(1)
    BY <1>3, <2>1 DEF Shows, Damaged
  <2>5. v.phase \in {"none", "set", "moved", "checked", "written", "kept"}
    BY DEF Views, Phases
  <2>6. Holds(w)
    BY <2>3, <2>4, <2>5 DEF Holds
  <2>7. Well => HoldsWell(w)
    BY <1>3, <2>3 DEF Shows, HoldsWell
  <2>8. Shows(w)'
    <3>1. Shows(w)
      BY <2>6, <2>7 DEF Shows
    <3> QED BY <1>7, <3>1 DEF Shows, Holds, HoldsWell, Well, Damaged, Quiet
  <2>9. DriverStands'
    BY <1>1, <1>2, <1>3, <1>4, <1>9, <2>1, <2>2, <2>8, StandsNext
  <2> QED BY <1>2, <1>7, <1>9, <2>9, QuietDone
<1> QED BY <1>10, <1>11

\* Flags that are cleared when no block's fate is to be told from them.
LEMMA ClearedShows ==
  ASSUME TypesOK, NEW v \in Views, Shows(v), v.phase \notin {"moved", "written"}, Quiet, NEW gone,
         sdcc'.flags = sdcc.flags \ gone, sdcc'.coming = sdcc.coming, sdcc'.armed = sdcc.armed
  PROVE  Shows(v)'
<1>1. Holds(v)'
  BY DEF Shows, Holds, Quiet
<1>2. Well' => HoldsWell(v)'
  <2>1. ASSUME Well'
        PROVE  HoldsWell(v)'
    <3>1. HoldsWell(v)
      BY <2>1 DEF Well, Shows, Quiet
    <3>2. (sdcc'.flags \cup sdcc'.coming) \cap Errors = {}
      BY <3>1 DEF HoldsWell
    <3>3. "prog_done" \in sdcc'.flags => "prog_done" \in sdcc.flags
      OBVIOUS
    <3> QED BY <3>1, <3>2, <3>3 DEF HoldsWell, Quiet
  <2> QED BY <2>1
<1> QED BY <1>1, <1>2 DEF Shows

\* The two waits and clears after a block keep the invariant.
LEMMA ClearKeeps ==
  ASSUME SdInv, ClearStatus \/ ClearEnd, UNCHANGED <<sdPc, media, sdReq>>
  PROVE  SdInv'
<1>1. TypesOK /\ DriverStands /\ Facts /\ Places /\ RunFacts
  BY DEF SdInv, Facts
<1>2. mmcRun.todo # <<>> /\ Head1.op \in {"clear", "clear_end"}
  BY DEF ClearStatus, ClearEnd, At
<1>3. PICK v \in Views :
        /\ Shows(v) /\ Allows(Head1, v, Target, Fall)
        /\ Head1.op # "refuse" => LeadsTo(Tail(mmcRun.todo), Leads(Head1, v), Goal, Target, Fall)
        /\ LeadsTo(mmcRun.todo, v, Goal, Target, Fall)
        /\ Later => v.state \in Selected /\ v.scr
  BY <1>1, <1>2, AtWork
<1>4. Head1 \in Steps /\ mmcRun.ok
  BY <1>1, <1>2, AtWork
<1>5. mmcRun' = Rest /\ Quiet
  BY DEF ClearStatus, ClearEnd, Quiet
<1>6. PICK gone : sdcc' = [sdcc EXCEPT !.flags = @ \ gone]
  <2>1. CASE ClearStatus
    BY <2>1 DEF ClearStatus
  <2>2. CASE ClearEnd
    BY <2>2 DEF ClearEnd
  <2> QED BY <2>1, <2>2
<1>7. FlagsOnly /\ sdcc'.flags = sdcc.flags \ gone /\ sdcc'.coming = sdcc.coming
      /\ sdcc'.armed = sdcc.armed
  BY <1>1, <1>6, FlagsTaken
<1>8. WorkFrame /\ TypesOK'
  BY <1>1, <1>2, <1>5, <1>7, QuietFrame
<1>9. v.phase \notin {"moved", "written"}
  BY <1>2, <1>3 DEF Allows
<1>10. Shows(v)'
  BY <1>1, <1>3, <1>5, <1>7, <1>9, ClearedShows
<1>11. Leads(Head1, v) = v
  BY <1>2 DEF Leads
<1>12. PICK w : w = Leads(Head1, v)
  OBVIOUS
<1>13. Shows(w)'
  BY <1>10, <1>11, <1>12
<1>14. DriverStands'
  BY <1>1, <1>2, <1>3, <1>4, <1>5, <1>8, <1>12, <1>13, StandsNext
<1> QED BY <1>2, <1>5, <1>8, <1>14, QuietDone

\* The wait for PROG_DONE keeps the invariant.
LEMMA ProgKeeps ==
  ASSUME SdInv, WaitProgDone, UNCHANGED <<sdPc, media, sdReq>>
  PROVE  SdInv'
<1>1. TypesOK /\ DriverStands /\ Facts /\ Places /\ RunFacts
  BY DEF SdInv, Facts
<1>2. mmcRun.todo # <<>> /\ Head1.op = "prog" /\ "prog_done" \in sdcc.flags
  BY DEF WaitProgDone, At
<1>3. PICK v \in Views :
        /\ Shows(v) /\ Allows(Head1, v, Target, Fall)
        /\ Head1.op # "refuse" => LeadsTo(Tail(mmcRun.todo), Leads(Head1, v), Goal, Target, Fall)
        /\ LeadsTo(mmcRun.todo, v, Goal, Target, Fall)
        /\ Later => v.state \in Selected /\ v.scr
  BY <1>1, <1>2, AtWork
<1>4. Head1 \in Steps /\ mmcRun.ok
  BY <1>1, <1>2, AtWork
<1>5. mmcRun' = Rest /\ Quiet /\ sdcc' = [sdcc EXCEPT !.flags = @ \ {"prog_done"}]
  BY DEF WaitProgDone, Quiet
<1>6. FlagsOnly /\ sdcc'.flags = sdcc.flags \ {"prog_done"} /\ sdcc'.coming = sdcc.coming
      /\ sdcc'.armed = sdcc.armed
  BY <1>1, <1>5, FlagsTaken
<1>7. WorkFrame /\ TypesOK'
  BY <1>1, <1>2, <1>5, <1>6, QuietFrame
<1>8. PICK w : w = Leads(Head1, v)
  OBVIOUS
<1>9. v.state = "prog" /\ v.armed
  BY <1>2, <1>3 DEF Allows
<1>10. /\ w \in Views /\ w.app = v.app /\ w.whole = v.whole /\ w.scr = v.scr /\ ~w.armed
          /\ w.state = "tran"
       /\ w.phase = v.phase
  BY <1>2, <1>4, <1>8, DoView
<1>11. Holds(v) /\ sdCard.state \in Selected
  BY <1>3, <1>9 DEF Shows, Holds, Selected
<1>12. (Damaged(0) => Damaged(0)') /\ (Damaged(1) => Damaged(1)')
  BY <1>6 DEF Damaged, ErrorsSeen
<1>13. Holds(w)'
  BY <1>5, <1>6, <1>10, <1>11, <1>12 DEF Holds, Quiet
<1>14. ASSUME Well'
       PROVE  HoldsWell(w)'
  <2>1. HoldsWell(v)
    BY <1>3, <1>5, <1>14 DEF Well, Shows, Quiet
  <2>2. ~sdcc.armed /\ sdCard.state # "prog"
    BY <1>2, <2>1 DEF HoldsWell
  <2>3. sdCard.state = "tran"
    BY <1>9, <2>1, <2>2 DEF HoldsWell
  <2>4. "prog_done" \notin sdcc'.flags /\ ~sdcc'.armed /\ "prog_done" \notin sdcc'.coming
    BY <1>6, <2>1, <2>2 DEF HoldsWell
  <2>5. (sdcc'.flags \cup sdcc'.coming) \cap Errors = {}
    BY <1>6, <2>1 DEF HoldsWell
  <2> QED BY <1>5, <1>10, <2>1, <2>3, <2>4, <2>5 DEF HoldsWell, Quiet
<1>15. Shows(w)'
  BY <1>13, <1>14 DEF Shows
<1>16. DriverStands'
  BY <1>1, <1>2, <1>3, <1>4, <1>5, <1>7, <1>8, <1>15, StandsNext
<1> QED BY <1>2, <1>5, <1>7, <1>16, QuietDone

\* A test that fails leaves the driver where it was, and one that does not
\* leads on.
LEMMA TestsKeep ==
  ASSUME SdInv, Tests, UNCHANGED <<sdPc, media, sdReq>>
  PROVE  SdInv'
<1>1. TypesOK /\ DriverStands /\ Facts /\ Places /\ RunFacts
  BY DEF SdInv, Facts
<1>2. mmcRun.todo # <<>> /\ Head1.op \in {"spec", "fast", "refuse"}
  BY DEF Tests
<1>3. PICK v \in Views :
        /\ Shows(v) /\ Allows(Head1, v, Target, Fall)
        /\ Head1.op # "refuse" => LeadsTo(Tail(mmcRun.todo), Leads(Head1, v), Goal, Target, Fall)
        /\ LeadsTo(mmcRun.todo, v, Goal, Target, Fall)
        /\ Later => v.state \in Selected /\ v.scr
  BY <1>1, <1>2, AtWork
<1>4. Head1 \in Steps /\ mmcRun.ok
  BY <1>1, <1>2, AtWork
<1>5. mmcRun' = Fails \/ (mmcRun' = Rest /\ Head1.op # "refuse")
  BY DEF Tests
<1>6. Quiet /\ sdcc' = sdcc
  BY DEF Tests, Quiet
<1>7. FlagsOnly
  BY <1>1, <1>6 DEF FlagsOnly, TypesOK
<1>8. WorkFrame /\ TypesOK'
  BY <1>1, <1>2, <1>5, <1>6, <1>7, QuietFrame
<1>9. Shows(v)'
  BY <1>3, <1>6 DEF Shows, Holds, HoldsWell, Well, Damaged, Quiet
<1>10. CASE mmcRun' = Rest /\ Head1.op # "refuse"
  <2>1. Leads(Head1, v) = v
    BY <1>2 DEF Leads
  <2>2. PICK w : w = Leads(Head1, v)
    OBVIOUS
  <2>3. Shows(w)'
    BY <1>9, <2>1, <2>2
  <2>4. DriverStands'
    BY <1>1, <1>2, <1>3, <1>4, <1>8, <1>10, <2>2, <2>3, StandsNext
  <2> QED BY <1>2, <1>6, <1>8, <2>4, QuietDone
<1>11. CASE mmcRun' = Fails
  <2>1. v \in Fall'
    BY <1>2, <1>3, <1>8, FrameSame DEF Allows
  <2>2. Stopped'
    BY <1>11 DEF Stopped, Fails
  <2>3. Later' => v.state \in Selected /\ v.scr
    BY <1>3, <1>8, FrameSame
  <2>4. Stands(v)'
    BY <1>9, <2>1, <2>2, <2>3 DEF Stands
  <2>5. DriverStands'
    BY <2>4 DEF DriverStands
  <2> QED BY <1>2, <1>6, <1>8, <2>5, QuietDone
<1> QED BY <1>5, <1>10, <1>11

-----------------------------------------------------------------------------
(* The hardware's own steps.                                                *)

Hardware == UNCHANGED <<mmcBuild, sdcn, mmcDrv, mmcRun, mmcCall, mmcGot, mmcFaults, sdPc, media,
            sdReq>>

\* A step of the hardware keeps the invariant if it keeps what the views say.
LEMMA HardwareDone ==
  ASSUME SdInv, Hardware, sdCard' \in CardSet, sdCard'.kind = sdCard.kind, sdCard'.off = sdCard.off,
         sdCard'.disk = sdCard.disk, sdCard'.legal = sdCard.legal, sdCard'.state # "idle"
           => sdCard.state # "idle",
         FlagsOnly, StartFacts', \A v \in Views : Shows(v) => Shows(v)'
  PROVE  SdInv'
<1>1. TypesOK /\ DriverStands /\ Facts /\ CommandsLegal /\ DeinitRestores /\ CapacityFacts
  BY DEF SdInv, Facts
<1>2. WorkFrame
  BY DEF WorkFrame, Hardware, FlagsOnly
<1>3. TypesOK'
  BY <1>1 DEF TypesOK, Hardware, FlagsOnly
<1>4. CapacityFacts'
  BY <1>1 DEF CapacityFacts, Hardware
<1>5. Facts' /\ DeinitRestores'
  BY <1>1, <1>2, <1>4, WorkKeeps
<1>6. CommandsLegal'
  BY <1>1 DEF CommandsLegal, Hardware
<1>7. DriverStands'
  <2>1. (Going' <=> Going) /\ (Stopped' <=> Stopped) /\ mmcRun' = mmcRun /\ mmcFaults' = mmcFaults
    BY DEF Going, Stopped, Hardware
  <2>2. ASSUME Going'
        PROVE  \E v \in Views : Stands(v)'
    <3>1. PICK v \in Views : Stands(v)
      BY <1>1, <2>1, <2>2 DEF DriverStands
    <3>2. Shows(v)' /\ (Later' => v.state \in Selected /\ v.scr)
      BY <1>2, <3>1, FrameSame DEF Stands
    <3>3. IF Stopped' THEN v \in Fall'
          ELSE \/ mmcRun'.todo = <<Do("stuck", 0)>> /\ mmcFaults' > 0
               \/ LeadsTo(mmcRun'.todo, v, Goal', Target', Fall')
      BY <1>2, <2>1, <3>1, FrameSame DEF Stands
    <3>4. Stands(v)'
      BY <3>2, <3>3 DEF Stands
    <3> QED BY <3>4
  <2> QED BY <2>2 DEF DriverStands
<1> QED BY <1>3, <1>5, <1>6, <1>7 DEF SdInv

\* A card that powers up.
LEMMA PowersUpKeeps ==
  ASSUME SdInv, CardPowersUp, UNCHANGED <<sdPc, media, sdReq>>
  PROVE  SdInv'
<1>1. TypesOK /\ StartFacts
  BY DEF SdInv, Facts
<1>2. Hardware /\ sdcc' = sdcc
  BY DEF CardPowersUp, Hardware
<1>3. /\ sdCard' \in CardSet /\ sdCard'.kind = sdCard.kind /\ sdCard'.off = sdCard.off
         /\ sdCard'.disk = sdCard.disk
      /\ sdCard'.legal = sdCard.legal /\ sdCard'.state = sdCard.state /\ sdCard'.app = sdCard.app
      /\ sdCard'.blocklen = sdCard.blocklen /\ sdCard'.unit = sdCard.unit
        /\ sdCard'.good = sdCard.good
      /\ sdCard'.fresh = sdCard.fresh
  <2>1. sdCard \in CardSet
    BY <1>1 DEF TypesOK
  <2> QED BY <2>1 DEF CardPowersUp, CardSet
<1>4. StartFacts'
  BY <1>1, <1>2, <1>3 DEF StartFacts, Hardware
<1>5. ASSUME NEW v \in Views, Shows(v)
      PROVE  Shows(v)'
  BY <1>2, <1>3, <1>5 DEF Shows, Holds, HoldsWell, Well, Damaged, Hardware
<1>6. FlagsOnly
  BY <1>1, <1>2 DEF FlagsOnly, TypesOK
<1> QED BY <1>2, <1>3, <1>4, <1>5, <1>6, HardwareDone

\* A card that has written its block.
LEMMA ProgrammedKeeps ==
  ASSUME SdInv, CardProgrammed, UNCHANGED <<sdPc, media, sdReq>>
  PROVE  SdInv'
<1>1. TypesOK /\ StartFacts
  BY DEF SdInv, Facts
<1>2. Hardware /\ sdcc' = sdcc /\ sdCard.state = "prog"
  BY DEF CardProgrammed, Hardware
<1>3. /\ sdCard' \in CardSet /\ sdCard'.kind = sdCard.kind /\ sdCard'.off = sdCard.off
         /\ sdCard'.disk = sdCard.disk
      /\ sdCard'.legal = sdCard.legal /\ sdCard'.state = "tran" /\ sdCard'.app = sdCard.app
      /\ sdCard'.blocklen = sdCard.blocklen /\ sdCard'.unit = sdCard.unit
        /\ sdCard'.good = sdCard.good
      /\ sdCard'.fresh = sdCard.fresh
  <2>1. sdCard \in CardSet
    BY <1>1 DEF TypesOK
  <2>2. "tran" \in States
    BY DEF States, Selected
  <2> QED BY <2>1, <2>2 DEF CardProgrammed, CardSet
<1>4. StartFacts'
  BY <1>1, <1>2 DEF StartFacts, Hardware
<1>5. ASSUME NEW v \in Views, Shows(v)
      PROVE  Shows(v)'
  <2>1. Holds(v)'
    BY <1>2, <1>3, <1>5 DEF Shows, Holds, Damaged, Hardware, Selected
  <2>2. ASSUME Well'
        PROVE  HoldsWell(v)'
    <3>1. HoldsWell(v)
      BY <1>2, <1>3, <1>5, <2>2 DEF Shows, Well, Hardware
    <3> QED BY <1>2, <1>3, <3>1 DEF HoldsWell
  <2> QED BY <2>1, <2>2 DEF Shows
<1>6. FlagsOnly
  BY <1>1, <1>2 DEF FlagsOnly, TypesOK
<1> QED BY <1>2, <1>3, <1>4, <1>5, <1>6, HardwareDone

\* The flags of a block, and PROG_DONE.
LEMMA FlagsKeep ==
  ASSUME SdInv, BlockEnds \/ ProgDone, UNCHANGED <<sdPc, media, sdReq>>
  PROVE  SdInv'
<1>1. TypesOK /\ StartFacts
  BY DEF SdInv, Facts
<1>2. Hardware /\ sdCard' = sdCard
  BY DEF BlockEnds, ProgDone, Hardware
<1>3. sdcc \in ControllerSet /\ sdcc.flags \subseteq Flags /\ sdcc.coming \subseteq Flags
      /\ "prog_done" \in Flags
  BY <1>1, Fields DEF TypesOK, Flags
<1>4. CASE BlockEnds
  <2>1. FlagsOnly /\ sdcc'.flags = sdcc.flags \cup sdcc.coming /\ sdcc'.coming = {}
        /\ sdcc'.armed = sdcc.armed
    <3>1. PICK f : f = sdcc.flags \cup sdcc.coming
      OBVIOUS
    <3>2. sdcc' = [sdcc EXCEPT !.flags = f, !.coming = {}]
      BY <1>4, <3>1 DEF BlockEnds
    <3>3. f \in SUBSET Flags
      BY <1>3, <3>1
    <3> QED BY <1>3, <3>1, <3>2, <3>3 DEF FlagsOnly, ControllerSet
  <2>2. StartFacts'
    BY <1>1, <1>2, <1>4 DEF StartFacts, Hardware, BlockEnds
  <2>3. ASSUME NEW v \in Views, Shows(v)
        PROVE  Shows(v)'
    <3>1. sdcc'.flags \cup sdcc'.coming = sdcc.flags \cup sdcc.coming
      BY <2>1
    <3>2. Damaged(0)' = Damaged(0) /\ Damaged(1)' = Damaged(1)
      BY <3>1 DEF Damaged
    <3>3. Holds(v)'
      BY <1>2, <2>1, <2>3, <3>2 DEF Shows, Holds, Hardware
    <3>4. ASSUME Well'
          PROVE  HoldsWell(v)'
      <4>1. HoldsWell(v)
        BY <1>2, <2>3, <3>4 DEF Shows, Well, Hardware
      <4>2. "prog_done" \in sdcc'.flags => "prog_done" \in sdcc.flags
        BY <2>1, <4>1 DEF HoldsWell
      <4> QED BY <1>2, <2>1, <3>1, <4>1, <4>2 DEF HoldsWell
    <3> QED BY <3>3, <3>4 DEF Shows
  <2>4. sdCard' \in CardSet
    BY <1>1, <1>2 DEF TypesOK
  <2> QED BY <1>2, <2>1, <2>2, <2>3, <2>4, HardwareDone
<1>5. CASE ProgDone
  <2>1. FlagsOnly /\ sdcc'.flags = sdcc.flags \cup {"prog_done"} /\ sdcc'.coming = sdcc.coming
        /\ ~sdcc'.armed
    <3>1. PICK f : f = sdcc.flags \cup {"prog_done"}
      OBVIOUS
    <3>2. sdcc' = [sdcc EXCEPT !.flags = f, !.armed = FALSE]
      BY <1>5, <3>1 DEF ProgDone
    <3>3. f \in SUBSET Flags
      BY <1>3, <3>1
    <3> QED BY <1>3, <3>1, <3>2, <3>3 DEF FlagsOnly, ControllerSet
  <2>2. StartFacts'
    BY <1>1, <1>2, <1>5 DEF StartFacts, Hardware, ProgDone
  <2>3. ASSUME NEW v \in Views, Shows(v)
        PROVE  Shows(v)'
    <3>2. Damaged(0)' = Damaged(0) /\ Damaged(1)' = Damaged(1)
      BY <2>1 DEF Damaged, ErrorsSeen
    <3>3. Holds(v)'
      BY <1>2, <2>1, <2>3, <3>2 DEF Shows, Holds, Hardware
    <3>4. ASSUME Well'
          PROVE  HoldsWell(v)'
      <4>1. HoldsWell(v)
        BY <1>2, <2>3, <3>4 DEF Shows, Well, Hardware
      <4>2. (sdcc'.flags \cup sdcc'.coming) \cap Errors = {}
        BY <2>1, <4>1 DEF HoldsWell, Errors
      <4>3. sdcc.armed /\ sdCard.state # "prog"
        BY <1>5 DEF ProgDone
      <4> QED BY <1>2, <2>1, <4>1, <4>2, <4>3 DEF HoldsWell
    <3> QED BY <3>3, <3>4 DEF Shows
  <2>4. sdCard' \in CardSet
    BY <1>1, <1>2 DEF TypesOK
  <2> QED BY <1>2, <2>1, <2>2, <2>3, <2>4, HardwareDone
<1> QED BY <1>4, <1>5

-----------------------------------------------------------------------------
(* The calls.                                                               *)

SettledAt(n) ==
  /\ sdcc' \in ControllerSet /\ sdcc'.hclk = sdcc.hclk
  /\ sdcc'.flags = sdcc.flags /\ sdcc'.coming = sdcc.coming /\ sdcc'.armed = sdcc.armed
  /\ n = 3 => sdcc'.mclk[SDC_INSTANCE] >= 25000
  /\ n = 4 => sdcc'.mclk[SDC_INSTANCE] = sdcc.mclk[SDC_INSTANCE]
    \/ sdcc'.mclk[SDC_INSTANCE] >= 25000

\* The clock that is set.
LEMMA ClockSet ==
  ASSUME TypesOK, NEW speed \in Nat, NEW d, d = MCLK(speed)
  PROVE  /\ d \in ControllerSet /\ d.mclk[SDC_INSTANCE] = speed /\ d.hclk = sdcc.hclk
            /\ d.pins = sdcc.pins
         /\ d.flags = sdcc.flags /\ d.coming = sdcc.coming /\ d.armed = sdcc.armed
           /\ d.clk = sdcc.clk
<1>1. sdcc \in ControllerSet /\ sdcc.mclk \in [1..4 -> Nat] /\ SDC_INSTANCE \in 1..4
  BY Fields DEF TypesOK
<1>2. PICK m : m = [sdcc.mclk EXCEPT ![SDC_INSTANCE] = speed]
  OBVIOUS
<1>3. m \in [1..4 -> Nat] /\ m[SDC_INSTANCE] = speed
  BY <1>1, <1>2
<1>4. d = [sdcc EXCEPT !.mclk = m]
  BY <1>1, <1>2 DEF MCLK, ControllerSet
<1> QED BY <1>1, <1>3, <1>4 DEF ControllerSet

\* The controller after a stage.
LEMMA StageSettles ==
  ASSUME TypesOK, NEW n \in 1..4, sdcc' = Settled(n)
  PROVE  SettledAt(n)
<1>1. sdcc \in ControllerSet
  BY DEF TypesOK
<1>2. \A e \in SUBSET {"enable", "pwrsave", "flow", "wide", "feedback"}, d \in ControllerSet :
        sdcc' = [d EXCEPT !.clk = @ \cup e] =>
          /\ sdcc' \in ControllerSet /\ sdcc'.mclk = d.mclk /\ sdcc'.hclk = d.hclk
          /\ sdcc'.flags = d.flags /\ sdcc'.coming = d.coming /\ sdcc'.armed = d.armed
  <2>1. SUFFICES ASSUME NEW e \in SUBSET {"enable", "pwrsave", "flow", "wide", "feedback"},
        NEW d \in ControllerSet,
                        sdcc' = [d EXCEPT !.clk = @ \cup e]
                 PROVE  /\ sdcc' \in ControllerSet /\ sdcc'.mclk = d.mclk /\ sdcc'.hclk = d.hclk
                        /\ sdcc'.flags = d.flags /\ sdcc'.coming = d.coming /\ sdcc'.armed = d.armed
    OBVIOUS
  <2>2. PICK f : f = d.clk \cup e
    OBVIOUS
  <2>3. d.clk \in SUBSET {"enable", "pwrsave", "flow", "wide", "feedback"}
    BY DEF ControllerSet
  <2>4. f \in SUBSET {"enable", "pwrsave", "flow", "wide", "feedback"}
    BY <2>2, <2>3
  <2>5. sdcc' = [d EXCEPT !.clk = f]
    BY <2>1, <2>2
  <2> QED BY <2>4, <2>5 DEF ControllerSet
<1>3. CASE n = 1
  <2>1. PICK e \in SUBSET {"enable", "pwrsave", "flow", "wide", "feedback"} : e = {"pwrsave",
        "flow"}
    OBVIOUS
  <2>2. sdcc' = [sdcc EXCEPT !.clk = @ \cup e]
    BY <1>3, <2>1 DEF Settled
  <2> QED BY <1>1, <1>2, <1>3, <2>2 DEF SettledAt
<1>4. CASE n = 2
  <2>1. PICK e \in SUBSET {"enable", "pwrsave", "flow", "wide", "feedback"} :
          e = (IF mmcBuild.fourBit THEN {"wide"} ELSE {})
    OBVIOUS
  <2>2. sdcc' = [sdcc EXCEPT !.clk = @ \cup e]
    BY <1>4, <2>1 DEF Settled
  <2> QED BY <1>1, <1>2, <1>4, <2>2 DEF SettledAt
<1>5. CASE n = 3
  <2>1. sdcc' = MCLK(25000)
    BY <1>5 DEF Settled
  <2>2. PICK d : d = MCLK(25000)
    OBVIOUS
  <2>3. /\ d \in ControllerSet /\ d.mclk[SDC_INSTANCE] = 25000 /\ d.hclk = sdcc.hclk
        /\ d.flags = sdcc.flags /\ d.coming = sdcc.coming /\ d.armed = sdcc.armed
    BY <2>2, ClockSet
  <2> QED BY <1>5, <2>1, <2>2, <2>3 DEF SettledAt
<1>6. CASE n = 4 /\ mmcRun.ok
  <2>1. PICK d : d = MCLK(48000)
    OBVIOUS
  <2>2. /\ d \in ControllerSet /\ d.mclk[SDC_INSTANCE] = 48000 /\ d.hclk = sdcc.hclk
        /\ d.flags = sdcc.flags /\ d.coming = sdcc.coming /\ d.armed = sdcc.armed
    BY <2>1, ClockSet
  <2>3. PICK e \in SUBSET {"enable", "pwrsave", "flow", "wide", "feedback"} : e = {"feedback"}
    OBVIOUS
  <2>4. sdcc' = [d EXCEPT !.clk = @ \cup e]
    BY <1>6, <2>1, <2>3 DEF Settled
  <2>5. /\ sdcc' \in ControllerSet /\ sdcc'.mclk = d.mclk /\ sdcc'.hclk = d.hclk
        /\ sdcc'.flags = d.flags /\ sdcc'.coming = d.coming /\ sdcc'.armed = d.armed
    <3>1. d \in ControllerSet /\ e \in SUBSET {"enable", "pwrsave", "flow", "wide", "feedback"}
      BY <2>2, <2>3
    <3> QED BY <1>2, <2>4, <3>1
  <2> QED BY <1>6, <2>2, <2>5 DEF SettledAt
<1>7. CASE n = 4 /\ ~mmcRun.ok
  <2>1. sdcc' = sdcc
    BY <1>7 DEF Settled
  <2> QED BY <1>1, <1>7, <2>1 DEF SettledAt
<1> QED BY <1>3, <1>4, <1>5, <1>6, <1>7

\* What leads somewhere leads to more.
LEMMA GoalWidens ==
  ASSUME NEW list, NEW v, NEW goal, NEW wide, NEW b, NEW fall, LeadsTo(list, v, goal, b, fall),
         goal \subseteq wide
  PROVE  LeadsTo(list, v, wide, b, fall)
BY DEF LeadsTo

\* Where the driver stands between two functions.
LEMMA AtEnd ==
  ASSUME TypesOK, DriverStands, Going, mmcRun.todo = <<>>
  PROVE  \E v \in Views : Shows(v) /\ (~Stopped => v \in Goal) /\ (Stopped => v \in Fall)
                            /\ (Later => v.state \in Selected /\ v.scr)
<1>1. PICK v \in Views : Stands(v)
  BY DEF DriverStands
<1>2. mmcRun.todo # <<Do("stuck", 0)>>
  OBVIOUS
<1>3. ~Stopped => LeadsTo(<<>>, v, Goal, Target, Fall)
  BY <1>1, <1>2 DEF Stands
<1>4. ~Stopped => v \in Goal
  BY <1>3, NoSteps
<1> QED BY <1>1, <1>4 DEF Stands

\* The call after one of its fields changed.
LEMMA NextStage ==
  ASSUME TypesOK, mmcCall.stage < 5, mmcCall' = [mmcCall EXCEPT !.stage = @ + 1]
  PROVE  /\ mmcCall' \in CallSet /\ mmcCall'.kind = mmcCall.kind
            /\ mmcCall'.stage = mmcCall.stage + 1
         /\ mmcCall'.blk = mmcCall.blk /\ mmcCall'.left = mmcCall.left /\ mmcCall'.run = mmcCall.run
<1>1. mmcCall \in CallSet /\ mmcCall.stage \in 0..5
  BY Fields DEF TypesOK
<1>2. PICK n : n = mmcCall.stage + 1
  OBVIOUS
<1>3. n \in 0..5
  BY <1>1, <1>2
<1>4. mmcCall' = [mmcCall EXCEPT !.stage = n]
  BY <1>2
<1> QED BY <1>1, <1>2, <1>3, <1>4 DEF CallSet

\* The steps of the stage that follows, from where the driver stands.
LEMMA NextLeads ==
  ASSUME TypesOK, Places, CapacityFacts, mmcCall.kind = "init", mmcCall.stage \in 1..4,
         NEW v \in Views, Shows(v), v \in IF mmcCall.stage = 1 THEN Identified ELSE Transferring,
         NEW b, b = Target, NEW goal, goal = IF mmcCall.stage = 4 THEN Ready ELSE Transferring
  PROVE  LeadsTo(Stage(mmcCall.stage + 1), v, goal, b, Transferring)
<1>1. b.at = mmcCall.blk /\ b.kind = sdCard.kind /\ (b.off <=> sdCard.off) /\ mmcCall.blk = 0
      /\ ~sdCard.off
  BY DEF Target, Places
<1>2. sdCard.kind.hc \in BOOLEAN /\ sdCard.kind.units \in Nat \ {0} /\ mmcCall.stage \in 0..5
  BY Fields
<1>3. b.at = 0 /\ b.kind.hc \in BOOLEAN /\ OnCard(b, 1)
  BY <1>1, <1>2 DEF OnCard
<1>4. CASE mmcCall.stage = 1
  BY <1>4, StagesLead
<1>5. CASE mmcCall.stage = 2
  BY <1>5, StagesLead
<1>6. CASE mmcCall.stage = 3
  BY <1>6, StagesLead
<1>7. CASE mmcCall.stage = 4
  <2>1. v \in Transferring
    BY <1>7
  <2>2. sdCard.state # "idle"
    BY <2>1 DEF Transferring, InTran, Shows, Holds, Selected
  <2>3. mmcDrv.highCapacity <=> b.kind.hc
    BY <1>1, <2>2 DEF CapacityFacts
  <2>4. LeadsTo(Stage(5), v, Checked, b, Transferring)
    BY <1>3, <2>1, <2>3, StagesLead
  <2>5. Checked \subseteq goal
    BY <1>7 DEF Checked
  <2>6. LeadsTo(Stage(5), v, goal, b, Transferring)
    BY <2>4, <2>5, GoalWidens
  <2> QED BY <1>7, <2>6
<1> QED BY <1>4, <1>5, <1>6, <1>7

\* The end of a stage, and the next, keep the invariant.
LEMMA StageEndsKeeps ==
  ASSUME SdInv, StageEnds, UNCHANGED <<sdPc, media, sdReq>>
  PROVE  SdInv'
<1>1. TypesOK /\ DriverStands /\ Facts /\ CommandsLegal /\ DeinitRestores
  BY DEF SdInv
<1>2. CapacityFacts /\ ClockFacts /\ StartFacts /\ Places /\ RunFacts /\ CallFacts /\ RequestFacts
  BY <1>1 DEF Facts
<1>3. /\ mmcCall.kind = "init" /\ mmcRun.todo = <<>> /\ mmcCall.stage < 5
         /\ (mmcRun.ok \/ mmcCall.stage = 4)
      /\ sdcc' = Settled(mmcCall.stage) /\ mmcRun' = [todo |-> Stage(mmcCall.stage + 1),
        ok |-> TRUE]
      /\ mmcCall' = [mmcCall EXCEPT !.stage = @ + 1]
      /\ UNCHANGED <<mmcBuild, sdCard, sdcn, mmcDrv, mmcGot, mmcFaults>>
  BY DEF StageEnds
<1>4. /\ mmcCall' \in CallSet /\ mmcCall'.kind = mmcCall.kind /\ mmcCall'.stage = mmcCall.stage + 1
      /\ mmcCall'.blk = mmcCall.blk /\ mmcCall'.left = mmcCall.left /\ mmcCall'.run = mmcCall.run
  BY <1>1, <1>3, NextStage
<1>5. sdPc = "init" /\ ~mmcDrv.ready /\ mmcCall.blk = 0 /\ ~sdCard.off /\ mmcCall.stage \in 1..4
  BY <1>1, <1>2, <1>3, Fields DEF Places
<1>6. SettledAt(mmcCall.stage)
  BY <1>1, <1>3, <1>5, StageSettles
<1>7. Going
  BY <1>3, <1>5 DEF Going, Stopped
<1>8. PICK v \in Views : Shows(v) /\ (~Stopped => v \in Goal) /\ (Stopped => v \in Fall)
                            /\ (Later => v.state \in Selected /\ v.scr)
  BY <1>1, <1>3, <1>7, AtEnd
<1>9. v \in IF mmcCall.stage = 1 THEN Identified ELSE Transferring
  <2>1. CASE Stopped
    BY <1>3, <1>8, <2>1 DEF Fall, Stopped
  <2>2. CASE ~Stopped
    BY <1>3, <1>5, <1>8, <2>2 DEF Goal
  <2> QED BY <2>1, <2>2
<1>10. PICK b : b = Target
  OBVIOUS
<1>11. PICK goal : goal = IF mmcCall.stage = 4 THEN Ready ELSE Transferring
  OBVIOUS
<1>12. LeadsTo(Stage(mmcCall.stage + 1), v, goal, b, Transferring)
  BY <1>1, <1>2, <1>3, <1>5, <1>8, <1>9, <1>10, <1>11, NextLeads
<1>13. b = Target' /\ goal = Goal' /\ Transferring = Fall'
  <2>1. b = Target'
    BY <1>3, <1>4, <1>10 DEF Target
  <2>2. Transferring = Fall'
    BY <1>3, <1>4 DEF Fall
  <2>3. goal = Goal'
    BY <1>3, <1>4, <1>5, <1>11 DEF Goal
  <2> QED BY <2>1, <2>2, <2>3
<1>14. mmcRun'.todo = Stage(mmcCall.stage + 1) /\ mmcRun'.ok /\ ~Stopped'
  BY <1>3 DEF Stopped
<1>15. Shows(v)'
  <2>1. sdcc'.flags = sdcc.flags /\ sdcc'.coming = sdcc.coming /\ sdcc'.armed = sdcc.armed
    BY <1>6 DEF SettledAt
  <2>2. sdCard' = sdCard /\ mmcDrv' = mmcDrv /\ mmcFaults' = mmcFaults
    BY <1>3
  <2> QED BY <1>4, <1>8, <2>1, <2>2 DEF Shows, Holds, HoldsWell, Well, Damaged
<1>16. DriverStands'
  <2>1. Later' => v.state \in Selected /\ v.scr
    BY <1>3, <1>4, <1>5, <1>9 DEF Later, Transferring, InTran, Selected
  <2>2. Stands(v)'
    BY <1>12, <1>13, <1>14, <1>15, <2>1 DEF Stands
  <2> QED BY <2>2 DEF DriverStands
<1>17. TypesOK'
  <2>1. Stage(mmcCall.stage + 1) \in Seq(Steps)
    BY <1>12 DEF LeadsTo
  <2>2. mmcRun' \in RunSet
    BY <1>3, <2>1 DEF RunSet
  <2>3. sdcc' \in ControllerSet
    BY <1>6 DEF SettledAt
  <2> QED BY <1>1, <1>3, <1>4, <2>2, <2>3 DEF TypesOK
<1>18. Facts'
  <2>1. CapacityFacts'
    BY <1>2, <1>3 DEF CapacityFacts
  <2>2. ClockFacts'
    <3>1. sdcc'.hclk = sdcc.hclk /\ SDC_INSTANCE \in sdcc.hclk /\ sdcn'.mclk = 0
      BY <1>2, <1>3, <1>5, <1>6 DEF SettledAt, ClockFacts
    <3>2. mmcCall.stage >= 4 => sdcc.mclk[SDC_INSTANCE] >= 25000
      BY <1>2, <1>5 DEF ClockFacts
    <3>3. mmcCall.stage >= 3 => sdcc'.mclk[SDC_INSTANCE] >= 25000
      BY <1>5, <1>6, <3>2 DEF SettledAt
    <3>4. mmcDrv' = mmcDrv /\ ~mmcDrv.ready /\ (mmcDrv.dev.ops => mmcDrv.ready)
      BY <1>2, <1>3, <1>5 DEF ClockFacts
    <3>5. mmcCall'.stage >= 4 => sdcc'.mclk[SDC_INSTANCE] >= 25000
      BY <1>4, <1>5, <3>3
    <3> QED BY <3>1, <3>4, <3>5 DEF ClockFacts
  <2>3. StartFacts'
    BY <1>5 DEF StartFacts
  <2>4. InCall' = InCall /\ ~InCall
    BY <1>3, <1>4 DEF InCall
  <2>5. mmcCall'.stage >= 1
    BY <1>4, <1>5
  <2>6. Places'
    BY <1>2, <1>3, <1>4, <1>5, <2>4, <2>5 DEF Places
  <2>7. RunFacts'
    BY <1>2, <1>3, <1>4, <1>14, <2>4 DEF RunFacts
  <2>8. CallFacts'
    BY <2>4 DEF CallFacts
  <2>9. RequestFacts'
    BY <1>2, <1>3, <1>4 DEF RequestFacts, Base, Whole
  <2> QED BY <2>1, <2>2, <2>3, <2>6, <2>7, <2>8, <2>9 DEF Facts
<1>19. CommandsLegal' /\ DeinitRestores'
  BY <1>1, <1>3, <1>5 DEF CommandsLegal, DeinitRestores
<1> QED BY <1>16, <1>17, <1>18, <1>19 DEF SdInv

\* What the card's CSD is decoded to.
LEMMA DecodedDevice ==
  ASSUME TypesOK, ClockFacts, NEW d, d = mmc_decode_csd
  PROVE  d \in [ops : BOOLEAN, blksz : Nat, lba : Nat] /\ (d.ops => d.blksz # 0)
<1>1. /\ sdCard.kind.units \in Nat /\ sdCard.kind.blLen \in Nat \ {0}
      /\ mmcDrv.dev \in [ops : BOOLEAN, blksz : Nat, lba : Nat]
  BY Fields
<1>2. PICK l : l = IF sdCard.kind.csd = 1 THEN sdCard.kind.units
      ELSE sdCard.kind.units \div sdCard.kind.blLen
  OBVIOUS
<1>3. l \in Nat
  BY <1>1, <1>2
<1>4. PICK s : s = BLOCK_SIZE * sdCard.kind.blLen
  OBVIOUS
<1>5. s \in Nat \ {0}
  BY <1>1, <1>4 DEF BLOCK_SIZE
<1>6. CASE sdCard.kind.csd > 1
  BY <1>1, <1>6 DEF mmc_decode_csd, ClockFacts
<1>7. CASE ~(sdCard.kind.csd > 1)
  <2>1. d = [ops |-> TRUE, blksz |-> s, lba |-> l]
    BY <1>2, <1>4, <1>7 DEF mmc_decode_csd
  <2> QED BY <1>3, <1>5, <2>1
<1> QED BY <1>6, <1>7

\* The call that is over.
LEMMA CallReturned ==
  ASSUME TypesOK, mmcCall' = [mmcCall EXCEPT !.kind = "none"]
  PROVE  /\ mmcCall' \in CallSet /\ mmcCall'.kind = "none" /\ mmcCall'.stage = mmcCall.stage
         /\ mmcCall'.blk = mmcCall.blk /\ mmcCall'.left = mmcCall.left /\ mmcCall'.run = mmcCall.run
<1>1. mmcCall \in CallSet
  BY DEF TypesOK
<1> QED BY <1>1 DEF CallSet

\* The return from mmc_legacy_init keeps the invariant.
LEMMA ReturnKeeps ==
  ASSUME SdInv, LegacyInitReturns, UNCHANGED <<sdPc, media, sdReq>>
  PROVE  SdInv'
<1>1. TypesOK /\ DriverStands /\ Facts /\ CommandsLegal /\ DeinitRestores
  BY DEF SdInv
<1>2. CapacityFacts /\ ClockFacts /\ StartFacts /\ Places /\ RunFacts /\ CallFacts /\ RequestFacts
  BY <1>1 DEF Facts
<1>3. /\ mmcCall.kind = "init" /\ mmcRun.todo = <<>>
      /\ mmcCall.stage = 5 \/ (~mmcRun.ok /\ mmcCall.stage # 4)
      /\ mmcDrv' = IF mmcRun.ok THEN [mmcDrv EXCEPT !.dev = mmc_decode_csd, !.ready = TRUE]
        ELSE mmcDrv
      /\ mmcCall' = [mmcCall EXCEPT !.kind = "none"]
      /\ UNCHANGED <<mmcBuild, sdCard, sdcc, sdcn, mmcRun, mmcGot, mmcFaults>>
  BY DEF LegacyInitReturns
<1>4. /\ mmcCall' \in CallSet /\ mmcCall'.kind = "none" /\ mmcCall'.stage = mmcCall.stage
      /\ mmcCall'.blk = mmcCall.blk /\ mmcCall'.left = mmcCall.left /\ mmcCall'.run = mmcCall.run
  BY <1>1, <1>3, CallReturned
<1>5. sdPc = "init" /\ ~mmcDrv.ready /\ ~sdCard.off /\ mmcCall.stage \in 1..5 /\ sdReq = NoReq
  BY <1>1, <1>2, <1>3, Fields DEF Places, RequestFacts
<1>6. PICK d : d = mmc_decode_csd
  OBVIOUS
<1>7. d \in [ops : BOOLEAN, blksz : Nat, lba : Nat] /\ (d.ops => d.blksz # 0)
  BY <1>1, <1>2, <1>6, DecodedDevice
<1>8. /\ mmcDrv' \in DriverSet /\ (mmcDrv'.scrValid <=> mmcDrv.scrValid)
      /\ (mmcDrv'.highCapacity <=> mmcDrv.highCapacity) /\ (mmcDrv'.ready <=> mmcRun.ok)
      /\ (mmcDrv'.dev.ops => mmcDrv'.ready /\ mmcDrv'.dev.blksz # 0)
  <2>1. mmcDrv \in DriverSet /\ mmcRun.ok \in BOOLEAN
        /\ (mmcDrv.dev.ops => mmcDrv.ready /\ mmcDrv.dev.blksz # 0)
    BY <1>1, <1>2, Fields DEF TypesOK, ClockFacts
  <2>2. CASE mmcRun.ok
    <3>1. mmcDrv' = [mmcDrv EXCEPT !.dev = d, !.ready = TRUE]
      BY <1>3, <1>6, <2>2
    <3>2. /\ mmcDrv' \in DriverSet /\ mmcDrv'.scrValid = mmcDrv.scrValid
             /\ mmcDrv'.highCapacity = mmcDrv.highCapacity
          /\ mmcDrv'.ready = TRUE /\ mmcDrv'.dev = d
      BY <1>7, <2>1, <3>1 DEF DriverSet
    <3> QED BY <1>7, <2>2, <3>2
  <2>3. CASE ~mmcRun.ok
    BY <1>3, <1>5, <2>1, <2>3
  <2> QED BY <2>2, <2>3
<1>9. DriverStands'
  <2>1. CASE ~mmcRun.ok
    <3>1. ~Going'
      BY <1>4, <1>8, <2>1 DEF Going
    <3> QED BY <3>1 DEF DriverStands
  <2>2. CASE mmcRun.ok
    <3>1. mmcCall.stage = 5 /\ ~Stopped /\ Going
      BY <1>3, <1>5, <2>2 DEF Stopped, Going
    <3>2. PICK v \in Views : Shows(v) /\ (~Stopped => v \in Goal)
      BY <1>1, <1>3, <3>1, AtEnd
    <3>3. v \in Ready
      BY <1>3, <3>1, <3>2 DEF Goal
    <3>4. Goal' = Ready /\ ~Stopped' /\ mmcRun'.todo = <<>>
      BY <1>3, <1>4, <3>1 DEF Goal, Stopped
    <3>5. Shows(v)'
      BY <1>3, <1>4, <1>8, <3>2 DEF Shows, Holds, HoldsWell, Well, Damaged
    <3>6. LeadsTo(mmcRun'.todo, v, Goal', Target', Fall')
      BY <3>3, <3>4, NoSteps
    <3>7. v.state \in Selected /\ v.scr
      BY <3>3 DEF Ready, InTran, Selected
    <3>8. Stands(v)'
      BY <3>4, <3>5, <3>6, <3>7 DEF Stands
    <3> QED BY <3>8 DEF DriverStands
  <2> QED BY <2>1, <2>2
<1>10. TypesOK'
  BY <1>1, <1>3, <1>4, <1>8 DEF TypesOK
<1>11. Facts'
  <2>1. CapacityFacts'
    BY <1>2, <1>3, <1>8 DEF CapacityFacts
  <2>2. ClockFacts'
    <3>1. mmcDrv'.ready => mmcCall'.stage = 5
      BY <1>3, <1>4, <1>8
    <3> QED BY <1>2, <1>3, <1>4, <1>8, <3>1 DEF ClockFacts
  <2>3. StartFacts'
    BY <1>5 DEF StartFacts
  <2>4. ~InCall /\ ~InCall'
    BY <1>3, <1>4 DEF InCall
  <2>5. Places'
    BY <1>3, <1>4, <1>5, <2>4 DEF Places, NoReq
  <2>6. RunFacts'
    BY <1>2, <1>3, <1>4, <1>8, <2>4 DEF RunFacts
  <2>7. CallFacts'
    BY <2>4 DEF CallFacts
  <2>8. RequestFacts'
    BY <1>5 DEF RequestFacts, NoReq
  <2> QED BY <2>1, <2>2, <2>3, <2>5, <2>6, <2>7, <2>8 DEF Facts
<1>12. CommandsLegal' /\ DeinitRestores'
  BY <1>1, <1>3, <1>5 DEF CommandsLegal, DeinitRestores
<1> QED BY <1>9, <1>10, <1>11, <1>12 DEF SdInv

Called(kind, n, count) ==
  /\ mmcCall' \in CallSet /\ mmcCall'.kind = kind /\ mmcCall'.stage = mmcCall.stage
  /\ mmcCall'.blk = n /\ mmcCall'.left = count /\ mmcCall'.run = 0
  /\ sdCard' \in CardSet /\ sdCard'.disk \in [0..(sdCard'.kind.units - 1) -> Int]
  /\ \A u \in DOMAIN sdCard'.disk : sdCard'.disk[u] = -1
  /\ sdCard'.kind = sdCard.kind /\ (sdCard'.off <=> sdCard.off \/ n + count > sdCard.kind.units)
  /\ sdCard'.state = sdCard.state /\ (sdCard.app => sdCard'.app)
    /\ sdCard'.blocklen = sdCard.blocklen
  /\ (sdCard'.legal <=> sdCard.legal) /\ mmcGot' = <<>>

\* What a call changes before its first round.
LEMMA CallFields ==
  ASSUME TypesOK, NEW kind \in {"read", "write"}, NEW n \in Nat, NEW count \in Nat,
         mmc_call(kind, n, count)
  PROVE  Called(kind, n, count)
<1>1. mmcCall \in CallSet /\ sdCard \in CardSet
      /\ sdCard.disk \in [0..(sdCard.kind.units - 1) -> Int]
      /\ sdCard.kind \in Cards
  BY Fields DEF TypesOK
<1>2. /\ mmcCall' \in CallSet /\ mmcCall'.kind = kind /\ mmcCall'.stage = mmcCall.stage
      /\ mmcCall'.blk = n /\ mmcCall'.left = count /\ mmcCall'.run = 0
  <2>1. mmcCall' = [mmcCall EXCEPT !.kind = kind, !.blk = n, !.left = count, !.run = 0]
    BY DEF mmc_call
  <2> QED BY <1>1, <2>1 DEF CallSet
<1>3. PICK o \in BOOLEAN : o = (sdCard.off \/ n + count > sdCard.kind.units)
  OBVIOUS
<1>4. PICK d : d = [u \in DOMAIN sdCard.disk |-> -1]
  OBVIOUS
<1>5. d \in [0..(sdCard.kind.units - 1) -> Int] /\ \A u \in DOMAIN d : d[u] = -1
  BY <1>1, <1>4
<1>6. sdCard' = [sdCard EXCEPT !.disk = d, !.off = o]
  BY <1>1, <1>3, <1>4 DEF mmc_call, CardSet
<1>7. d \in UNION {[0..(k.units - 1) -> Int] : k \in Cards}
  BY <1>1, <1>5
<1>8. /\ sdCard' \in CardSet /\ sdCard'.disk = d /\ sdCard'.kind = sdCard.kind /\ sdCard'.off = o
      /\ sdCard'.state = sdCard.state /\ sdCard'.app = sdCard.app
        /\ sdCard'.blocklen = sdCard.blocklen
      /\ sdCard'.legal = sdCard.legal
  BY <1>1, <1>6, <1>7 DEF CardSet
<1>9. mmcGot' = <<>>
  BY DEF mmc_call
<1> QED BY <1>2, <1>3, <1>5, <1>8, <1>9 DEF Called

\* A view before a round.
LEMMA AskedView ==
  ASSUME NEW v \in Ready, NEW w, w = [v EXCEPT !.phase = "none"]
  PROVE  w \in Views /\ w \in Asked /\ w.phase = "none" /\ w.state = v.state /\ w.app = v.app
         /\ w.whole = v.whole /\ w.armed = v.armed /\ w.scr = v.scr
<1>1. v \in Views /\ InTran(v) /\ v.whole
  BY DEF Ready
<1>2. /\ w \in Views /\ w.phase = "none" /\ w.state = v.state /\ w.app = v.app
      /\ w.whole = v.whole /\ w.armed = v.armed /\ w.scr = v.scr
  BY <1>1 DEF Views, Phases
<1>3. w \in Asked
  BY <1>1, <1>2 DEF Asked, Ready, InTran
<1> QED BY <1>2, <1>3

\* A call, made where the driver is ready, keeps the invariant.
LEMMA CallStarts ==
  ASSUME SdInv, NEW kind \in {"read", "write"}, NEW n \in Nat, NEW count \in Nat \ {0},
         mmc_call(kind, n, count),
         InCall \/ (mmcCall.kind = "none" /\ mmcDrv.ready), mmcRun.todo = <<>>,
           sdPc \notin {"off", "start"},
         mmcDrv.dev.ops, sdPc' \in {"search", "ready"}, media' \in [last : Nat, blksz : Nat],
           sdReq' \in RequestSet,
         sdReq'.status = "pending" <=> sdPc' = "ready", RequestFacts'
  PROVE  SdInv'
<1>1. TypesOK /\ DriverStands /\ Facts /\ CommandsLegal /\ DeinitRestores
  BY DEF SdInv
<1>2. CapacityFacts /\ ClockFacts /\ StartFacts /\ Places /\ RunFacts /\ CallFacts
  BY <1>1 DEF Facts
<1>3. Called(kind, n, count)
  BY <1>1, CallFields
<1>4. /\ mmcRun' = [todo |-> Round(kind, n, count), ok |-> TRUE]
      /\ UNCHANGED <<mmcBuild, sdcc, sdcn, mmcDrv, mmcFaults>>
  BY DEF mmc_call
<1>5. mmcDrv.ready /\ Going
  <2>1. mmcDrv.ready
    BY <1>2 DEF Places
  <2> QED BY <2>1 DEF Going, InCall
<1>6. PICK v \in Views : Shows(v) /\ (~Stopped => v \in Goal) /\ (Stopped => v \in Fall)
                            /\ (Later => v.state \in Selected /\ v.scr)
  BY <1>1, <1>5, AtEnd
<1>7. v \in Ready
  <2>1. CASE mmcCall.kind = "none"
    <3>1. ~Stopped
      BY <1>2, <1>5, <2>1 DEF RunFacts, Stopped
    <3> QED BY <1>6, <2>1, <3>1 DEF Goal
  <2>2. CASE InCall
    BY <1>6, <2>2 DEF Goal, Fall, InCall
  <2> QED BY <2>1, <2>2
<1>8. PICK w : w = [v EXCEPT !.phase = "none"]
  OBVIOUS
<1>9. w \in Views /\ w \in Asked /\ w.phase = "none" /\ w.state = v.state /\ w.app = v.app
      /\ w.whole = v.whole /\ w.armed = v.armed /\ w.scr = v.scr
  BY <1>7, <1>8, AskedView
<1>10. w.state = "tran" /\ ~w.armed /\ w.scr /\ w.whole
  BY <1>9 DEF Asked, Ready, InTran
<1>11. Shows(w)'
  <2>1. Holds(v) /\ sdCard.state \in Selected /\ mmcDrv.scrValid
    BY <1>6, <1>9, <1>10 DEF Shows, Holds, Selected
  <2>2. Holds(w)'
    BY <1>3, <1>4, <1>9, <2>1 DEF Holds, Called
  <2>3. ASSUME Well'
        PROVE  HoldsWell(w)'
    <3>1. Well
      BY <1>3, <1>4, <2>3 DEF Well, Called
    <3>2. HoldsWell(v)
      BY <1>6, <3>1 DEF Shows
    <3> QED BY <1>3, <1>4, <1>9, <3>2 DEF HoldsWell, Called
  <2> QED BY <2>2, <2>3 DEF Shows
<1>12. PICK b : b = Target'
  OBVIOUS
<1>13. b.at = n /\ b.kind = sdCard.kind /\ (b.off <=> sdCard'.off) /\ b.off \in BOOLEAN
  <2>1. sdCard'.off \in BOOLEAN
    BY <1>3 DEF Called, CardSet
  <2>2. b.at = mmcCall'.blk /\ b.kind = sdCard'.kind /\ b.off = sdCard'.off
    BY <1>12 DEF Target
  <2> QED BY <1>3, <2>1, <2>2 DEF Called
<1>14. sdCard.kind.hc \in BOOLEAN /\ sdCard.kind.units \in Nat /\ mmcBuild.mult \in Nat \ {0}
  BY <1>1, Fields
<1>15. PICK i : i = LeastOf(mmcBuild.mult, count)
  OBVIOUS
<1>16. i \in Nat \ {0} /\ i <= count
  BY <1>14, <1>15 DEF LeastOf
<1>17. OnCard(b, i)
  <2>1. b.off \/ n + count <= sdCard.kind.units
    BY <1>3, <1>13, <1>14 DEF Called
  <2> QED BY <1>13, <1>14, <1>16, <2>1 DEF OnCard
<1>18. mmcDrv.highCapacity <=> b.kind.hc
  <2>1. sdCard.state # "idle"
    BY <1>6, <1>9, <1>10 DEF Shows, Holds, Selected
  <2> QED BY <1>2, <1>13, <2>1 DEF CapacityFacts
<1>19. PICK goal : goal = IF kind = "read" THEN Checked ELSE Kept
  OBVIOUS
<1>20. LeadsTo(Round(kind, n, count), w, goal, b, Ready)
  <2>1. Asked \subseteq Ready
    BY DEF Asked
  <2>2. b.kind.hc \in BOOLEAN /\ b.kind.units \in Nat
    BY <1>13, <1>14
  <2> QED BY <1>9, <1>13, <1>14, <1>15, <1>17, <1>18, <1>19, <2>1, <2>2, RoundLeads
<1>21. goal = Goal' /\ Fall' = Ready
  <2>1. mmcCall'.kind = kind
    BY <1>3 DEF Called
  <2> QED BY <1>19, <2>1 DEF Goal, Fall, Checked, Kept
<1>22. mmcRun'.todo = Round(kind, n, count) /\ mmcRun'.ok /\ ~Stopped'
  BY <1>4 DEF Stopped
<1>23. DriverStands'
  <2>1. w.state \in Selected /\ w.scr
    BY <1>10 DEF Selected
  <2>2. LeadsTo(mmcRun'.todo, w, Goal', Target', Fall')
    BY <1>12, <1>20, <1>21, <1>22
  <2>3. Stands(w)'
    BY <1>11, <1>22, <2>1, <2>2 DEF Stands
  <2> QED BY <1>9, <2>3 DEF DriverStands
<1>24. TypesOK'
  <2>1. mmcRun' \in RunSet
    BY <1>4, <1>20 DEF RunSet, LeadsTo
  <2>2. sdPc' \in Stages
    BY DEF Stages
  <2>3. mmcGot' \in Seq(GotSet)
    BY <1>3 DEF Called
  <2> QED BY <1>1, <1>3, <1>4, <2>1, <2>2, <2>3 DEF TypesOK, Called
<1>25. Facts'
  <2>1. CapacityFacts'
    BY <1>2, <1>3, <1>4 DEF CapacityFacts, Called
  <2>2. ClockFacts'
    <3>1. sdPc # "off" /\ sdPc' # "off" /\ mmcCall'.stage = mmcCall.stage
      BY <1>3 DEF Called
    <3> QED BY <1>2, <1>4, <3>1 DEF ClockFacts
  <2>3. StartFacts'
    BY DEF StartFacts
  <2>4. InCall'
    BY <1>3 DEF InCall, Called
  <2>5. Places'
    <3>1. mmcCall'.kind = kind
      BY <1>3 DEF Called
    <3> QED BY <1>4, <1>5, <2>4, <3>1 DEF Places
  <2>6. RunFacts'
    <3>1. mmcCall'.kind = kind /\ mmcCall'.left = count
      BY <1>3 DEF Called
    <3>2. kind = "write" /\ i # 1 => mmcRun'.todo = <<Do("refuse", 0)>>
      BY <1>15, <1>22 DEF Round, write_a_block_dm
    <3> QED BY <1>4, <1>15, <1>22, <2>4, <3>1, <3>2 DEF RunFacts
  <2>7. CallFacts'
    <3>1. /\ mmcCall'.blk = n /\ mmcCall'.left = count /\ mmcCall'.run = 0 /\ mmcGot' = <<>>
          /\ \A u \in DOMAIN sdCard'.disk : sdCard'.disk[u] = -1
      BY <1>3 DEF Called
    <3>2. ~sdCard'.off => n + count <= sdCard'.kind.units
      BY <1>3, <1>14 DEF Called
    <3>3. Len(mmcGot') = 0 /\ 0 \in 0..n /\ 1..0 = {} /\ 0..(0 - 1) = {}
      BY <3>1
    <3> QED BY <3>1, <3>2, <3>3 DEF CallFacts
  <2> QED BY <2>1, <2>2, <2>3, <2>5, <2>6, <2>7 DEF Facts
<1>26. CommandsLegal'
  BY <1>1, <1>3, <1>4 DEF CommandsLegal, Called
<1>27. DeinitRestores'
  BY DEF DeinitRestores
<1> QED BY <1>23, <1>24, <1>25, <1>26, <1>27 DEF SdInv

\* The blocks that went well, with those of one more round.
LEMMA GotMore ==
  ASSUME TypesOK, NEW i \in Nat \ {0},
         mmcGot' = mmcGot \o [j \in 1..i |-> [unit |-> sdCard.unit + j - 1, good |-> sdCard.good,
           fresh |-> sdCard.fresh]]
  PROVE  /\ mmcGot' \in Seq(GotSet) /\ Len(mmcGot') = Len(mmcGot) + i
         /\ \A k \in 1..Len(mmcGot) : mmcGot'[k] = mmcGot[k]
         /\ \A k \in (Len(mmcGot) + 1)..(Len(mmcGot) + i) :
              /\ mmcGot'[k].unit = sdCard.unit + (k - Len(mmcGot)) - 1
              /\ mmcGot'[k].good = sdCard.good /\ mmcGot'[k].fresh = sdCard.fresh
<1>1. sdCard.unit \in Nat /\ sdCard.good \in BOOLEAN /\ sdCard.fresh \in BOOLEAN
  BY Fields
<1>2. PICK s : s = [j \in 1..i |-> [unit |-> sdCard.unit + j - 1, good |-> sdCard.good,
      fresh |-> sdCard.fresh]]
  OBVIOUS
<1>3. \A j \in 1..i : [unit |-> sdCard.unit + j - 1, good |-> sdCard.good,
      fresh |-> sdCard.fresh] \in GotSet
  BY <1>1 DEF GotSet
<1>4. s \in Seq(GotSet) /\ Len(s) = i
  BY <1>2, <1>3
<1>5. \A j \in 1..i : s[j].unit = sdCard.unit + j - 1 /\ s[j].good = sdCard.good
      /\ s[j].fresh = sdCard.fresh
  BY <1>2
<1>6. mmcGot \in Seq(GotSet) /\ mmcGot' = mmcGot \o s
  BY <1>2 DEF TypesOK
<1>7. Len(mmcGot) \in Nat
  BY <1>6
<1>8. mmcGot' \in Seq(GotSet) /\ Len(mmcGot') = Len(mmcGot) + i
  BY <1>4, <1>6, ConcatProperties
<1>9. ASSUME NEW k \in 1..Len(mmcGot)
      PROVE  mmcGot'[k] = mmcGot[k]
  <2>1. k \in Nat /\ k >= 1 /\ k <= Len(mmcGot)
    BY <1>7
  <2> QED BY <1>4, <1>6, <2>1
<1>10. ASSUME NEW k \in (Len(mmcGot) + 1)..(Len(mmcGot) + i)
       PROVE  /\ mmcGot'[k].unit = sdCard.unit + (k - Len(mmcGot)) - 1
              /\ mmcGot'[k].good = sdCard.good /\ mmcGot'[k].fresh = sdCard.fresh
  <2>1. mmcGot'[k] = s[k - Len(mmcGot)]
    BY <1>4, <1>6, <1>7
  <2>2. k - Len(mmcGot) \in 1..i
    BY <1>7
  <2> QED BY <1>5, <2>1, <2>2
<1> QED BY <1>8, <1>9, <1>10

\* The numbers of a call after a round.
LEMMA CallMoves ==
  ASSUME TypesOK, NEW i \in Nat, i <= mmcCall.left,
         mmcCall' = [mmcCall EXCEPT !.blk = @ + i, !.left = @ - i, !.run = @ + i]
  PROVE  /\ mmcCall' \in CallSet /\ mmcCall'.kind = mmcCall.kind /\ mmcCall'.stage = mmcCall.stage
         /\ mmcCall'.blk = mmcCall.blk + i /\ mmcCall'.left = mmcCall.left - i
           /\ mmcCall'.run = mmcCall.run + i
<1>1. mmcCall \in CallSet /\ mmcCall.blk \in Nat /\ mmcCall.left \in Nat /\ mmcCall.run \in Nat
  BY Fields DEF TypesOK
<1>2. PICK n \in Nat, l \in Nat, r \in Nat : n = mmcCall.blk + i /\ l = mmcCall.left - i
      /\ r = mmcCall.run + i
  BY <1>1
<1>3. mmcCall' = [mmcCall EXCEPT !.blk = n, !.left = l, !.run = r]
  BY <1>1, <1>2 DEF CallSet
<1> QED BY <1>1, <1>2, <1>3 DEF CallSet

\* The blocks of a round are where they were asked for.
LEMMA RoundPlaces ==
  ASSUME TypesOK, InCall, CallFacts, RunFacts, mmcRun.todo = <<>>, mmcRun.ok, sdCard' = sdCard,
         NEW i, i = LeastOf(mmcBuild.mult, mmcCall.left),
         mmcCall' = [mmcCall EXCEPT !.blk = @ + i, !.left = @ - i, !.run = @ + i],
         mmcGot' = mmcGot \o [j \in 1..i |-> [unit |-> sdCard.unit + j - 1, good |-> sdCard.good,
           fresh |-> sdCard.fresh]],
         sdCard.unit = mmcCall.blk, sdCard.fresh => sdCard.good,
         mmcCall.kind = "write" => (sdCard.good => sdCard.disk[mmcCall.blk] = mmcCall.run),
         mmcCall.left = i => Stopped'
  PROVE  CallFacts'
<1>1. /\ mmcBuild.mult \in Nat \ {0} /\ mmcCall.blk \in Nat /\ mmcCall.left \in Nat
         /\ mmcCall.run \in Nat
      /\ sdCard.kind.units \in Nat
  BY Fields
<1>2. /\ mmcCall.run \in 0..mmcCall.blk /\ mmcCall.left >= 1
      /\ ~sdCard.off => mmcCall.blk + mmcCall.left <= sdCard.kind.units
      /\ Len(mmcGot) = mmcCall.run
      /\ \A k \in 1..mmcCall.run : mmcGot[k].unit = Base + k - 1
        /\ (mmcGot[k].fresh => mmcGot[k].good)
      /\ \A u \in DOMAIN sdCard.disk : sdCard.disk[u] # -1 =>
           u = Base + sdCard.disk[u] /\ u < mmcCall.blk + mmcCall.left
      /\ mmcCall.kind = "write" =>
           \A j \in 0..(mmcCall.run - 1) : mmcGot[j + 1].good => sdCard.disk[Base + j] = j
  BY DEF CallFacts, Stopped
<1>3. i \in Nat \ {0} /\ i <= mmcCall.left
  BY <1>1, <1>2 DEF LeastOf
<1>4. /\ mmcCall' \in CallSet /\ mmcCall'.kind = mmcCall.kind
      /\ mmcCall'.blk = mmcCall.blk + i /\ mmcCall'.left = mmcCall.left - i
        /\ mmcCall'.run = mmcCall.run + i
  BY <1>3, CallMoves
<1>5. /\ mmcGot' \in Seq(GotSet) /\ Len(mmcGot') = Len(mmcGot) + i
      /\ \A k \in 1..Len(mmcGot) : mmcGot'[k] = mmcGot[k]
      /\ \A k \in (Len(mmcGot) + 1)..(Len(mmcGot) + i) :
           /\ mmcGot'[k].unit = sdCard.unit + (k - Len(mmcGot)) - 1
           /\ mmcGot'[k].good = sdCard.good /\ mmcGot'[k].fresh = sdCard.fresh
  BY <1>3, GotMore
<1>6. Base = mmcCall.blk - mmcCall.run /\ Base' = Base
  BY <1>1, <1>3, <1>4 DEF Base
<1>7. ASSUME NEW k \in 1..mmcCall'.run
      PROVE  mmcGot'[k].unit = Base' + k - 1 /\ (mmcGot'[k].fresh => mmcGot'[k].good)
  <2>0. k \in Nat
    BY <1>1, <1>3, <1>4
  <2>1. CASE k <= mmcCall.run
    <3>1. k \in 1..mmcCall.run /\ k \in 1..Len(mmcGot)
      BY <1>1, <1>2, <2>1
    <3>2. mmcGot'[k] = mmcGot[k]
      BY <1>5, <3>1
    <3> QED BY <1>2, <1>6, <3>1, <3>2
  <2>2. CASE k > mmcCall.run
    <3>1. k \in (Len(mmcGot) + 1)..(Len(mmcGot) + i)
      BY <1>1, <1>2, <1>3, <1>4, <2>2
    <3>2. mmcGot'[k].unit = sdCard.unit + (k - Len(mmcGot)) - 1 /\ mmcGot'[k].good = sdCard.good
          /\ mmcGot'[k].fresh = sdCard.fresh
      BY <1>5, <3>1
    <3>3. sdCard.unit + (k - Len(mmcGot)) - 1 = Base' + k - 1
      <4>1. sdCard.unit = mmcCall.blk /\ Len(mmcGot) = mmcCall.run
            /\ Base' = mmcCall.blk - mmcCall.run
        BY <1>2, <1>6
      <4>2. mmcCall.blk \in Nat /\ mmcCall.run \in Nat
        BY <1>1
      <4> QED BY <2>0, <4>1, <4>2
    <3> QED BY <3>2, <3>3
  <2>3. k <= mmcCall.run \/ k > mmcCall.run
    BY <1>1, <2>0
  <2> QED BY <2>1, <2>2, <2>3
<1>8. ASSUME NEW u \in DOMAIN sdCard'.disk, sdCard'.disk[u] # -1
      PROVE  u = Base' + sdCard'.disk[u] /\ u < mmcCall'.blk + mmcCall'.left
  <2>1. mmcCall'.blk + mmcCall'.left = mmcCall.blk + mmcCall.left
    BY <1>1, <1>3, <1>4
  <2> QED BY <1>2, <1>6, <1>8, <2>1
<1>9. ASSUME mmcCall'.kind = "write", NEW j \in 0..(mmcCall'.run - 1), mmcGot'[j + 1].good
      PROVE  sdCard'.disk[Base' + j] = j
  <2>1. i = 1
    BY <1>4, <1>9 DEF RunFacts, Stopped
  <2>2. CASE j < mmcCall.run
    <3>1. j \in 0..(mmcCall.run - 1) /\ j + 1 \in 1..Len(mmcGot)
      BY <1>1, <1>2, <2>2
    <3>2. mmcGot'[j + 1] = mmcGot[j + 1]
      BY <1>5, <3>1
    <3> QED BY <1>2, <1>4, <1>6, <1>9, <3>1, <3>2
  <2>3. CASE ~(j < mmcCall.run)
    <3>1. j = mmcCall.run
      BY <1>1, <1>4, <2>1, <2>3
    <3>2. j + 1 \in (Len(mmcGot) + 1)..(Len(mmcGot) + i) /\ Base' + j = mmcCall.blk
      BY <1>1, <1>2, <1>6, <2>1, <3>1
    <3>3. sdCard.good
      BY <1>5, <1>9, <3>2
    <3> QED BY <1>4, <1>9, <3>1, <3>2, <3>3
  <2> QED BY <2>2, <2>3
<1>10. /\ mmcCall'.run \in 0..mmcCall'.blk /\ (~Stopped' => mmcCall'.left >= 1)
          /\ Len(mmcGot') = mmcCall'.run
       /\ ~sdCard'.off => mmcCall'.blk + mmcCall'.left <= sdCard'.kind.units
  BY <1>1, <1>2, <1>3, <1>4, <1>5
<1> QED BY <1>7, <1>8, <1>9, <1>10 DEF CallFacts

\* What a round leaves of the rest of the invariant.
LEMMA RoundRest ==
  ASSUME SdInv, UNCHANGED <<sdPc, media, sdReq, mmcBuild, sdCard, sdcc, sdcn, mmcDrv, mmcFaults>>,
         NEW i \in Nat \ {0}, i <= mmcCall.left,
         mmcCall' = [mmcCall EXCEPT !.blk = @ + i, !.left = @ - i, !.run = @ + i],
         mmcGot' = mmcGot \o [j \in 1..i |-> [unit |-> sdCard.unit + j - 1, good |-> sdCard.good,
           fresh |-> sdCard.fresh]],
         InCall, ~Stopped, DriverStands', mmcRun' \in RunSet, RunFacts', CallFacts'
  PROVE  SdInv'
<1>1. TypesOK /\ DriverStands /\ Facts /\ CommandsLegal /\ DeinitRestores
  BY DEF SdInv
<1>2. CapacityFacts /\ ClockFacts /\ StartFacts /\ Places /\ RequestFacts
  BY <1>1 DEF Facts
<1>3. /\ mmcCall' \in CallSet /\ mmcCall'.kind = mmcCall.kind /\ mmcCall'.stage = mmcCall.stage
      /\ mmcCall'.blk = mmcCall.blk + i /\ mmcCall'.left = mmcCall.left - i
        /\ mmcCall'.run = mmcCall.run + i
  BY <1>1, CallMoves
<1>4. mmcGot' \in Seq(GotSet)
  BY <1>1, GotMore
<1>5. /\ mmcDrv.ready /\ mmcDrv.dev.ops /\ sdPc # "off" /\ sdPc # "start" /\ sdPc # "CpuDeadLoop"
         /\ sdPc # "init"
      /\ ~(sdPc = "ready" /\ sdReq.status # "pending")
  BY <1>2 DEF Places
<1>6. TypesOK'
  BY <1>1, <1>3, <1>4 DEF TypesOK
<1>7. CapacityFacts' /\ StartFacts'
  BY <1>2, <1>5 DEF CapacityFacts, StartFacts
<1>8. ClockFacts'
  BY <1>2, <1>3 DEF ClockFacts
<1>9. InCall' /\ mmcCall'.kind # "init" /\ mmcCall'.kind # "none"
  BY <1>3 DEF InCall
<1>10. Places'
  BY <1>2, <1>5, <1>9 DEF Places
<1>11. RequestFacts'
  <2>1. mmcCall.blk \in Nat /\ mmcCall.left \in Nat /\ mmcCall.run \in Nat
    BY <1>1, Fields
  <2>2. Base' = Base /\ mmcCall'.run + mmcCall'.left = mmcCall.run + mmcCall.left
    BY <1>3, <2>1 DEF Base
  <2>3. Whole' <=> Whole
    BY DEF Whole
  <2> QED BY <1>2, <1>3, <2>2, <2>3 DEF RequestFacts
<1>12. Facts'
  BY <1>7, <1>8, <1>10, <1>11 DEF Facts
<1>13. CommandsLegal' /\ DeinitRestores'
  BY <1>1, <1>5 DEF CommandsLegal, DeinitRestores
<1> QED BY <1>6, <1>12, <1>13 DEF SdInv

\* The end of a round keeps the invariant.
LEMMA RoundEndsKeeps ==
  ASSUME SdInv, RoundEnds, UNCHANGED <<sdPc, media, sdReq>>
  PROVE  SdInv'
<1>1. TypesOK /\ DriverStands /\ Facts /\ CommandsLegal /\ DeinitRestores
  BY DEF SdInv
<1>2. CapacityFacts /\ ClockFacts /\ StartFacts /\ Places /\ RunFacts /\ CallFacts /\ RequestFacts
  BY <1>1 DEF Facts
<1>3. PICK i : i = LeastOf(mmcBuild.mult, mmcCall.left)
  OBVIOUS
<1>4. /\ mmcCall.kind \in {"read", "write"} /\ mmcRun.todo = <<>> /\ mmcRun.ok
      /\ mmcCall' = [mmcCall EXCEPT !.blk = @ + i, !.left = @ - i, !.run = @ + i]
      /\ mmcRun' = IF mmcCall.left = i THEN Fails
                   ELSE [mmcRun EXCEPT !.todo = Round(mmcCall.kind, mmcCall.blk + i,
                     mmcCall.left - i)]
      /\ mmcGot' = mmcGot \o [j \in 1..i |-> [unit |-> sdCard.unit + j - 1, good |-> sdCard.good,
                                              fresh |-> sdCard.fresh]]
      /\ UNCHANGED <<mmcBuild, sdCard, sdcc, sdcn, mmcDrv, mmcFaults>>
  BY <1>3 DEF RoundEnds
<1>5. InCall /\ ~Stopped
  BY <1>4 DEF InCall, Stopped
<1>6. /\ mmcDrv.ready /\ mmcDrv.dev.ops /\ sdPc # "off" /\ sdPc # "start" /\ sdPc # "CpuDeadLoop"
         /\ sdPc # "init"
      /\ ~(sdPc = "ready" /\ sdReq.status # "pending")
  BY <1>2, <1>5 DEF Places
<1>7. Going
  BY <1>4, <1>6 DEF Going
<1>8. PICK v \in Views : Shows(v) /\ (~Stopped => v \in Goal) /\ (Stopped => v \in Fall)
                            /\ (Later => v.state \in Selected /\ v.scr)
  BY <1>1, <1>4, <1>7, AtEnd
<1>9. v \in Ready /\ (mmcCall.kind = "read" => v.phase = "checked")
      /\ (mmcCall.kind = "write" => v.phase = "kept")
  BY <1>4, <1>5, <1>8 DEF Goal
<1>10. /\ sdCard.unit = mmcCall.blk /\ (sdCard.fresh => sdCard.good)
       /\ mmcCall.kind = "write" => (sdCard.good => sdCard.disk[mmcCall.blk] = mmcCall.run)
  BY <1>4, <1>8, <1>9 DEF Shows, Holds
<1>11. /\ mmcBuild.mult \in Nat \ {0} /\ mmcCall.blk \in Nat /\ mmcCall.left \in Nat
          /\ mmcCall.run \in Nat
       /\ sdCard.kind.units \in Nat /\ sdCard.kind.hc \in BOOLEAN /\ sdCard.off \in BOOLEAN
  BY <1>1, Fields
<1>12. mmcCall.left >= 1 /\ (~sdCard.off => mmcCall.blk + mmcCall.left <= sdCard.kind.units)
  BY <1>2, <1>5 DEF CallFacts
<1>13. i \in Nat \ {0} /\ i <= mmcCall.left
  BY <1>3, <1>11, <1>12 DEF LeastOf
<1>14. /\ mmcCall' \in CallSet /\ mmcCall'.kind = mmcCall.kind /\ mmcCall'.stage = mmcCall.stage
       /\ mmcCall'.blk = mmcCall.blk + i /\ mmcCall'.left = mmcCall.left - i
         /\ mmcCall'.run = mmcCall.run + i
  BY <1>1, <1>4, <1>13, CallMoves
<1>15. PICK w : w = [v EXCEPT !.phase = "none"]
  OBVIOUS
<1>16. w \in Views /\ w \in Asked /\ w.phase = "none" /\ w.state = v.state /\ w.app = v.app
       /\ w.whole = v.whole /\ w.armed = v.armed /\ w.scr = v.scr
  BY <1>9, <1>15, AskedView
<1>17. w.state = "tran" /\ w.scr /\ w \in Ready
  BY <1>16 DEF Asked, Ready, InTran
<1>18. Shows(w)'
  <2>1. sdCard' = sdCard /\ sdcc' = sdcc /\ mmcDrv' = mmcDrv /\ mmcFaults' = mmcFaults
    BY <1>4
  <2>2. Holds(w)'
    BY <1>8, <1>16, <2>1 DEF Shows, Holds
  <2>3. Well' => HoldsWell(w)'
    BY <1>8, <1>16, <2>1 DEF Shows, Well, HoldsWell
  <2> QED BY <2>2, <2>3 DEF Shows
<1>19. Fall' = Ready
  BY <1>4, <1>14 DEF Fall
<1>20. w.state \in Selected
  BY <1>17 DEF Selected
<1>21. CASE mmcCall.left = i
  <2>1. mmcRun' = Fails /\ Stopped'
    BY <1>4, <1>21 DEF Stopped, Fails
  <2>2. Stands(w)'
    BY <1>17, <1>18, <1>19, <1>20, <2>1 DEF Stands
  <2>3. DriverStands' /\ mmcRun' \in RunSet
    BY <1>16, <2>1, <2>2 DEF DriverStands, Fails, RunSet
  <2>4. RunFacts'
    BY <1>2, <1>4, <1>5, <1>6, <1>14, <2>1 DEF RunFacts, Fails, InCall
  <2>5. CallFacts'
    BY <1>1, <1>2, <1>3, <1>4, <1>5, <1>10, <2>1, RoundPlaces
  <2> QED BY <1>4, <1>5, <1>13, <2>3, <2>4, <2>5, RoundRest
<1>22. CASE mmcCall.left # i
  <2>1. PICK n \in Nat, left \in Nat \ {0} : n = mmcCall.blk + i /\ left = mmcCall.left - i
    BY <1>11, <1>13, <1>22
  <2>2. mmcRun' = [mmcRun EXCEPT !.todo = Round(mmcCall.kind, n, left)]
    BY <1>4, <1>22, <2>1
  <2>3. mmcRun.ok \in BOOLEAN /\ mmcRun \in RunSet
    BY <1>1, Fields DEF TypesOK
  <2>4. mmcRun'.todo = Round(mmcCall.kind, n, left) /\ mmcRun'.ok /\ ~Stopped'
    BY <1>4, <2>2, <2>3 DEF RunSet, Stopped
  <2>5. PICK b : b = Target'
    OBVIOUS
  <2>6. b.at = n /\ b.kind = sdCard.kind /\ b.off = sdCard.off
    BY <1>4, <1>14, <2>1, <2>5 DEF Target
  <2>7. PICK k : k = LeastOf(mmcBuild.mult, left)
    OBVIOUS
  <2>8. k \in Nat \ {0} /\ k <= left
    BY <1>11, <2>1, <2>7 DEF LeastOf
  <2>9. OnCard(b, k)
    BY <1>11, <1>12, <1>13, <2>1, <2>6, <2>8 DEF OnCard
  <2>10. mmcDrv.highCapacity <=> b.kind.hc
    <3>1. sdCard.state # "idle"
      BY <1>8, <1>16, <1>17 DEF Shows, Holds, Selected
    <3> QED BY <1>2, <2>6, <3>1 DEF CapacityFacts
  <2>11. PICK goal : goal = IF mmcCall.kind = "read" THEN Checked ELSE Kept
    OBVIOUS
  <2>12. LeadsTo(Round(mmcCall.kind, n, left), w, goal, b, Ready)
    <3>1. Asked \subseteq Ready
      BY DEF Asked
    <3>2. b.kind.hc \in BOOLEAN /\ b.kind.units \in Nat /\ b.off \in BOOLEAN
      BY <1>11, <2>6
    <3> QED BY <1>4, <1>11, <1>16, <2>1, <2>6, <2>7, <2>9, <2>10, <2>11, <3>1, <3>2, RoundLeads
  <2>13. goal = Goal'
    BY <1>4, <1>14, <2>11 DEF Goal, Checked, Kept
  <2>14. LeadsTo(mmcRun'.todo, w, Goal', Target', Fall')
    BY <1>19, <2>4, <2>5, <2>12, <2>13
  <2>15. Stands(w)'
    BY <1>17, <1>18, <1>20, <2>4, <2>14 DEF Stands
  <2>16. DriverStands'
    BY <1>16, <2>15 DEF DriverStands
  <2>17. mmcRun' \in RunSet
    BY <2>2, <2>3, <2>12 DEF RunSet, LeadsTo
  <2>18. RunFacts'
    <3>1. mmcCall.kind = "write" /\ k # 1 => mmcRun'.todo = <<Do("refuse", 0)>>
      BY <2>4, <2>7 DEF Round, write_a_block_dm
    <3>2. mmcCall'.left = left /\ mmcBuild' = mmcBuild
      BY <1>4, <1>14, <2>1
    <3> QED BY <1>4, <1>14, <2>4, <2>7, <3>1, <3>2 DEF RunFacts, InCall
  <2>19. CallFacts'
    BY <1>1, <1>2, <1>3, <1>4, <1>5, <1>10, <1>22, RoundPlaces
  <2> QED BY <1>4, <1>5, <1>13, <2>16, <2>17, <2>18, <2>19, RoundRest
<1> QED BY <1>21, <1>22

-----------------------------------------------------------------------------
(* The driver.                                                              *)

\* Where only the driver's place or the request changes.
LEMMA StandsWhere ==
  ASSUME DriverStands, UNCHANGED mmcVars, Going' => Going
  PROVE  DriverStands'
<1>1. UNCHANGED <<mmcBuild, sdCard, sdcc, sdcn, mmcDrv, mmcRun, mmcCall, mmcGot, mmcFaults>>
  BY DEF mmcVars
<1>2. ASSUME NEW v \in Views, Stands(v)
      PROVE  Stands(v)'
  <2>1. Shows(v)'
    BY <1>1, <1>2 DEF Stands, Shows, Holds, HoldsWell, Well, Damaged
  <2>2. Goal' = Goal /\ Target' = Target /\ Fall' = Fall /\ (Stopped' <=> Stopped)
        /\ (Later' <=> Later)
    BY <1>1 DEF Goal, Target, Fall, Stopped, Later
  <2> QED BY <1>1, <1>2, <2>1, <2>2 DEF Stands
<1>3. ASSUME Going'
      PROVE  \E v \in Views : Stands(v)'
  <2>1. PICK v \in Views : Stands(v)
    BY <1>3 DEF DriverStands
  <2> QED BY <1>2, <2>1
<1> QED BY <1>3 DEF DriverStands

\* What the driver's steps leave of the facts when they leave the card.
LEMMA PlaceFacts ==
  ASSUME SdInv, UNCHANGED mmcVars, sdPc' \notin {"start", "off"}, sdPc # "off"
  PROVE  /\ CapacityFacts' /\ ClockFacts' /\ StartFacts' /\ RunFacts' /\ CallFacts'
         /\ CommandsLegal' /\ DeinitRestores' /\ (InCall' <=> InCall) /\ (Stopped' <=> Stopped)
<1>1. /\ CapacityFacts /\ ClockFacts /\ RunFacts /\ CallFacts /\ CommandsLegal
  BY DEF SdInv, Facts
<1>2. UNCHANGED <<mmcBuild, sdCard, sdcc, sdcn, mmcDrv, mmcRun, mmcCall, mmcGot, mmcFaults>>
  BY DEF mmcVars
<1>3. (InCall' <=> InCall) /\ (Stopped' <=> Stopped) /\ Base' = Base
  BY <1>2 DEF InCall, Stopped, Base
<1>4. CapacityFacts' /\ ClockFacts' /\ StartFacts' /\ CommandsLegal' /\ DeinitRestores'
  BY <1>1, <1>2 DEF CapacityFacts, ClockFacts, StartFacts, CommandsLegal, DeinitRestores
<1>5. RunFacts'
  BY <1>1, <1>2, <1>3 DEF RunFacts
<1>6. CallFacts'
  BY <1>1, <1>2, <1>3 DEF CallFacts
<1> QED BY <1>3, <1>4, <1>5, <1>6

First == [state |-> "idle", app |-> FALSE, whole |-> TRUE, armed |-> FALSE, scr |-> FALSE,
         phase |-> "none"]

StartedAt ==
  /\ sdcc' \in ControllerSet /\ sdcc'.mclk[SDC_INSTANCE] = 400 /\ SDC_INSTANCE \in sdcc'.hclk
  /\ sdcc'.flags = {} /\ sdcc'.coming = sdcc.coming /\ sdcc'.armed = sdcc.armed
  /\ sdcn' \in [mclk : Nat, hclk : BOOLEAN] /\ sdcn'.mclk = sdcc.mclk[SDC_INSTANCE]

\* The controller that is started.
LEMMA ControllerStarts ==
  ASSUME TypesOK, SDCn_init
  PROVE  StartedAt
<1>1. sdcc.mclk \in [1..4 -> Nat] /\ SDC_INSTANCE \in 1..4
  BY Fields
<1>2. PICK d : d = MCLK(400)
  OBVIOUS
<1>3. d \in ControllerSet /\ d.mclk[SDC_INSTANCE] = 400 /\ d.flags = sdcc.flags
      /\ d.coming = sdcc.coming
      /\ d.armed = sdcc.armed
  BY <1>2, ClockSet
<1>4. PICK h, p : h = d.hclk \cup {SDC_INSTANCE} /\ p = d.pins \cup sdcard_gpio_config(SDC_INSTANCE)
  OBVIOUS
<1>5. h \in SUBSET (1..4) /\ p \in SUBSET (1..4)
  <2>1. d.hclk \subseteq 1..4 /\ d.pins \subseteq 1..4
    BY <1>3 DEF ControllerSet
  <2> QED BY <1>1, <1>4, <2>1 DEF sdcard_gpio_config
<1>6. sdcc' = [d EXCEPT !.hclk = h, !.pins = p, !.flags = {}, !.clk = {"enable"}]
  BY <1>2, <1>3, <1>4 DEF SDCn_init, ControllerSet
<1>7. /\ sdcc' \in ControllerSet /\ sdcc'.mclk = d.mclk /\ sdcc'.hclk = h /\ sdcc'.flags = {}
      /\ sdcc'.coming = d.coming /\ sdcc'.armed = d.armed
  BY <1>3, <1>5, <1>6 DEF ControllerSet
<1>8. sdcn' = [mclk |-> sdcc.mclk[SDC_INSTANCE], hclk |-> SDC_INSTANCE \in sdcc.hclk]
  BY DEF SDCn_init
<1>9. sdcn' \in [mclk : Nat, hclk : BOOLEAN] /\ sdcn'.mclk = sdcc.mclk[SDC_INSTANCE]
  BY <1>1, <1>8
<1> QED BY <1>3, <1>4, <1>7, <1>9 DEF StartedAt

\* The start of the driver keeps the invariant.
LEMMA InitializeKeeps ==
  ASSUME SdInv, SdCardInitialize
  PROVE  SdInv'
<1>1. TypesOK /\ DriverStands /\ Facts /\ CommandsLegal /\ DeinitRestores
  BY DEF SdInv
<1>2. CapacityFacts /\ ClockFacts /\ StartFacts /\ Places /\ RunFacts /\ CallFacts /\ RequestFacts
  BY <1>1 DEF Facts
<1>3. sdPc = "start" /\ UNCHANGED <<media, sdReq>>
  BY DEF SdCardInitialize
<1>4. /\ mmcCall = [kind |-> "none", stage |-> 0, blk |-> 0, left |-> 0, run |-> 0]
      /\ sdCard.state = "idle" /\ ~sdCard.app /\ sdCard.blocklen = BLOCK_SIZE
      /\ ~sdCard.off /\ sdCard.legal
      /\ sdcc.mclk[SDC_INSTANCE] = 0 /\ sdcc.flags = {} /\ sdcc.coming = {} /\ ~sdcc.armed
      /\ mmcRun = [todo |-> <<>>, ok |-> TRUE] /\ ~mmcDrv.ready /\ sdReq = NoReq
  BY <1>2, <1>3 DEF StartFacts, RequestFacts
<1>5. CASE sdPc' = "init" /\ mmc_legacy_init
  <2>1. /\ SDCn_init
        /\ mmcRun' = [todo |-> card_identification_selection, ok |-> TRUE]
        /\ mmcCall' = [mmcCall EXCEPT !.kind = "init", !.stage = 1]
        /\ UNCHANGED <<mmcBuild, sdCard, mmcDrv, mmcGot, mmcFaults>>
    BY <1>5 DEF mmc_legacy_init
  <2>2. StartedAt
    BY <1>1, <2>1, ControllerStarts
  <2>3. mmcCall' = [kind |-> "init", stage |-> 1, blk |-> 0, left |-> 0, run |-> 0]
    BY <1>4, <2>1
  <2>4. mmcCall' \in CallSet
    BY <2>3 DEF CallSet
  <2>5. /\ First \in Views /\ First.state = "idle" /\ ~First.app /\ First.whole /\ ~First.armed
           /\ ~First.scr
        /\ First.phase = "none"
    BY DEF First, Views, States, Phases
  <2>6. PICK v \in Views : v = First
    BY <2>5
  <2>7. PICK b : b = Target'
    OBVIOUS
  <2>8. LeadsTo(card_identification_selection, v, Identified, b, Transferring)
    BY <2>5, <2>6, Identification
  <2>9. Identified = Goal' /\ Transferring = Fall'
    BY <2>3 DEF Goal, Fall
  <2>10. mmcRun'.todo = card_identification_selection /\ mmcRun'.ok /\ ~Stopped'
    BY <2>1 DEF Stopped
  <2>11. Shows(v)'
    <3>1. Holds(v)'
      BY <2>5, <2>6 DEF Holds, Selected
    <3>2. HoldsWell(v)'
      BY <1>4, <2>1, <2>2, <2>5, <2>6 DEF HoldsWell, StartedAt
    <3> QED BY <3>1, <3>2 DEF Shows
  <2>12. Stands(v)'
    <3>1. ~Later'
      BY <2>3 DEF Later
    <3> QED BY <2>7, <2>8, <2>9, <2>10, <2>11, <3>1 DEF Stands
  <2>13. DriverStands'
    BY <2>12 DEF DriverStands
  <2>14. mmcRun' \in RunSet
    BY <2>1, <2>8 DEF RunSet, LeadsTo
  <2>15. TypesOK'
    BY <1>1, <1>3, <1>5, <2>1, <2>2, <2>4, <2>14 DEF TypesOK, StartedAt, Stages
  <2>16. Facts'
    <3>1. CapacityFacts'
      BY <1>2, <2>1 DEF CapacityFacts
    <3>2. ClockFacts'
      BY <1>2, <1>4, <2>1, <2>2, <2>3 DEF ClockFacts, StartedAt
    <3>3. StartFacts'
      BY <1>5 DEF StartFacts
    <3>4. ~InCall' /\ ~InCall
      BY <1>4, <2>3 DEF InCall
    <3>5. Places'
      BY <1>3, <1>4, <1>5, <2>1, <2>3, <3>4 DEF Places, NoReq
    <3>6. RunFacts'
      BY <1>2, <2>1, <2>3, <2>10, <3>4 DEF RunFacts
    <3>7. CallFacts'
      BY <3>4 DEF CallFacts
    <3>8. RequestFacts'
      BY <1>3, <1>4, <1>5 DEF RequestFacts, NoReq
    <3> QED BY <3>1, <3>2, <3>3, <3>5, <3>6, <3>7, <3>8 DEF Facts
  <2>17. CommandsLegal' /\ DeinitRestores'
    BY <1>1, <1>5, <2>1 DEF CommandsLegal, DeinitRestores
  <2> QED BY <2>13, <2>15, <2>16, <2>17 DEF SdInv
<1>6. CASE sdPc' = "DEVICE_ERROR" /\ UNCHANGED mmcVars
  <2>1. UNCHANGED <<mmcBuild, sdCard, sdcc, sdcn, mmcDrv, mmcRun, mmcCall, mmcGot, mmcFaults>>
    BY <1>6 DEF mmcVars
  <2>2. ~Going'
    BY <1>4, <2>1 DEF Going
  <2>3. DriverStands'
    BY <2>2 DEF DriverStands
  <2>4. /\ CapacityFacts' /\ ClockFacts' /\ StartFacts' /\ RunFacts' /\ CallFacts'
        /\ CommandsLegal' /\ DeinitRestores' /\ (InCall' <=> InCall) /\ (Stopped' <=> Stopped)
    BY <1>3, <1>6, PlaceFacts
  <2>5. ~InCall
    BY <1>4 DEF InCall
  <2>6. Places'
    BY <1>3, <1>4, <1>6, <2>1, <2>4, <2>5 DEF Places, NoReq
  <2>7. RequestFacts'
    BY <1>3, <1>4, <1>6 DEF RequestFacts, NoReq
  <2>8. TypesOK'
    BY <1>1, <1>3, <1>6, <2>1 DEF TypesOK, Stages
  <2> QED BY <2>3, <2>4, <2>6, <2>7, <2>8 DEF SdInv, Facts
<1>7. (sdPc' = "init" /\ mmc_legacy_init) \/ (sdPc' = "DEVICE_ERROR" /\ UNCHANGED mmcVars)
  BY DEF SdCardInitialize
<1> QED BY <1>5, <1>6, <1>7

\* A step to another place, or the answer to a request, with the card left.
LEMMA PlaceKeeps ==
  ASSUME SdInv, UNCHANGED mmcVars, sdPc' \in Stages \ {"start", "off"}, sdPc # "off", Going'
         => Going,
         media' \in [last : Nat, blksz : Nat], sdReq' \in RequestSet, Places', RequestFacts'
  PROVE  SdInv'
<1>1. TypesOK /\ DriverStands
  BY DEF SdInv
<1>2. UNCHANGED <<mmcBuild, sdCard, sdcc, sdcn, mmcDrv, mmcRun, mmcCall, mmcGot, mmcFaults>>
  BY DEF mmcVars
<1>3. DriverStands'
  BY <1>1, StandsWhere
<1>4. /\ CapacityFacts' /\ ClockFacts' /\ StartFacts' /\ RunFacts' /\ CallFacts'
      /\ CommandsLegal' /\ DeinitRestores'
  BY PlaceFacts
<1>5. TypesOK'
  BY <1>1, <1>2 DEF TypesOK
<1> QED BY <1>3, <1>4, <1>5 DEF SdInv, Facts

\* The end of the card's initialisation keeps the invariant.
LEMMA InitializedKeeps ==
  ASSUME SdInv, CardInitialized
  PROVE  SdInv'
<1>1. TypesOK /\ ClockFacts /\ Places /\ RunFacts /\ RequestFacts
  BY DEF SdInv, Facts
<1>2. /\ sdPc = "init" /\ mmcCall.kind = "none"
      /\ media' = [last |-> mmcDrv.dev.lba, blksz |-> mmcDrv.dev.blksz] /\ sdReq' = sdReq
  BY DEF CardInitialized
<1>3. mmcDrv.dev.lba \in Nat /\ mmcDrv.dev.blksz \in Nat /\ sdReq \in RequestSet
  BY <1>1, Fields DEF TypesOK
<1>4. media' \in [last : Nat, blksz : Nat] /\ sdReq' \in RequestSet /\ sdReq = NoReq
  BY <1>1, <1>2, <1>3 DEF RequestFacts
<1>5. CASE mmcDrv.dev.ops
  <2>1. sdPc' = "search" /\ mmc_call("read", 0, 1)
    BY <1>5 DEF CardInitialized
  <2>2. mmcDrv.ready /\ mmcRun.todo = <<>>
    BY <1>1, <1>2, <1>5 DEF ClockFacts, RunFacts
  <2>3. RequestFacts'
    <3>1. mmcDrv' = mmcDrv
      BY <2>1 DEF mmc_call
    <3> QED BY <1>2, <1>4, <2>1, <3>1 DEF RequestFacts, NoReq
  <2>4. sdReq'.status # "pending"
    BY <1>2, <1>4 DEF NoReq
  <2>5. 0 \in Nat /\ 1 \in Nat \ {0} /\ "read" \in {"read", "write"} /\ sdPc \notin {"off", "start"}
        /\ sdPc' \in {"search", "ready"} /\ (sdReq'.status = "pending" <=> sdPc' = "ready")
    BY <1>2, <2>1, <2>4
  <2> QED BY <1>2, <1>4, <1>5, <2>1, <2>2, <2>3, <2>5, CallStarts
<1>6. CASE ~mmcDrv.dev.ops
  <2>1. sdPc' = "fault" /\ UNCHANGED mmcVars
    BY <1>6 DEF CardInitialized
  <2>2. UNCHANGED <<mmcBuild, sdCard, sdcc, sdcn, mmcDrv, mmcRun, mmcCall, mmcGot, mmcFaults>>
    BY <2>1 DEF mmcVars
  <2>3. Going' => Going
    BY <1>2, <2>1, <2>2 DEF Going, Stopped
  <2>4. ~InCall /\ ~InCall'
    BY <1>2, <2>2 DEF InCall
  <2>5. Places'
    BY <1>1, <1>2, <1>4, <2>1, <2>2, <2>4 DEF Places, NoReq
  <2>6. RequestFacts'
    BY <1>2, <1>4, <2>1 DEF RequestFacts, NoReq
  <2>7. sdPc' \in Stages \ {"start", "off"} /\ sdPc # "off"
    BY <1>2, <2>1 DEF Stages
  <2> QED BY <1>4, <2>1, <2>3, <2>5, <2>6, <2>7, PlaceKeeps
<1> QED BY <1>5, <1>6

\* The search for a boot record keeps the invariant.
LEMMA SearchKeeps ==
  ASSUME SdInv, SearchedBlock
  PROVE  SdInv'
<1>1. TypesOK /\ ClockFacts /\ Places /\ RunFacts /\ RequestFacts /\ CallFacts
  BY DEF SdInv, Facts
<1>2. PICK n : n = mmcCall.blk - mmcCall.run
  OBVIOUS
<1>3. sdPc = "search" /\ CallOver /\ UNCHANGED <<media, sdReq>>
  BY DEF SearchedBlock
<1>4. \/ sdPc' \in {"ready", "CpuDeadLoop"} /\ UNCHANGED mmcVars
      \/ mmc_call("read", n + 1, 1) /\ sdPc' = sdPc
  BY <1>2 DEF SearchedBlock
<1>5. InCall /\ mmcRun.todo = <<>> /\ Stopped /\ sdReq = NoReq /\ mmcDrv.dev.ops /\ mmcDrv.ready
  BY <1>1, <1>3 DEF CallOver, InCall, Stopped, RequestFacts, Places
<1>6. media' \in [last : Nat, blksz : Nat] /\ sdReq' \in RequestSet /\ sdReq' = NoReq
  BY <1>1, <1>3, <1>5 DEF TypesOK
<1>7. CASE sdPc' \in {"ready", "CpuDeadLoop"} /\ UNCHANGED mmcVars
  <2>1. UNCHANGED <<mmcBuild, sdCard, sdcc, sdcn, mmcDrv, mmcRun, mmcCall, mmcGot, mmcFaults>>
    BY <1>7 DEF mmcVars
  <2>2. Going' => Going
    BY <1>3, <2>1 DEF Going, Stopped
  <2>3. InCall' /\ Stopped'
    BY <1>5, <2>1 DEF InCall, Stopped
  <2>4. Places'
    BY <1>1, <1>3, <1>5, <1>6, <1>7, <2>1, <2>3 DEF Places, NoReq, InCall
  <2>5. RequestFacts'
    BY <1>1, <1>3, <1>6, <1>7, <2>1 DEF RequestFacts, NoReq
  <2>6. sdPc' \in Stages \ {"start", "off"} /\ sdPc # "off"
    BY <1>3, <1>7 DEF Stages
  <2> QED BY <1>6, <1>7, <2>2, <2>4, <2>5, <2>6, PlaceKeeps
<1>8. CASE mmc_call("read", n + 1, 1) /\ sdPc' = sdPc
  <2>1. mmcCall.run \in 0..mmcCall.blk /\ mmcCall.blk \in Nat
    BY <1>1, <1>5, Fields DEF CallFacts
  <2>2. PICK m \in Nat : m = n + 1
    BY <1>2, <2>1
  <2>3. RequestFacts'
    <3>1. mmcDrv' = mmcDrv
      BY <1>8 DEF mmc_call
    <3> QED BY <1>1, <1>3, <1>6, <1>8, <3>1 DEF RequestFacts, NoReq
  <2>4. 1 \in Nat \ {0} /\ "read" \in {"read", "write"} /\ sdPc \notin {"off", "start"}
        /\ sdPc' \in {"search", "ready"} /\ (sdReq'.status = "pending" <=> sdPc' = "ready")
    BY <1>3, <1>6, <1>8 DEF NoReq
  <2>5. mmc_call("read", m, 1)
    BY <1>8, <2>2
  <2> QED BY <1>5, <1>6, <2>3, <2>4, <2>5, CallStarts
<1> QED BY <1>4, <1>7, <1>8

\* What a request is answered at once.
LEMMA Answered ==
  ASSUME NEW size \in Nat, NEW null, NEW s, s = AtOnce(size, null)
  PROVE  /\ s \in {"BAD_BUFFER_SIZE", "INVALID_PARAMETER", "SUCCESS", "pending"}
         /\ s = "SUCCESS" => size = 0
         /\ s = "pending" => size # 0 /\ size % media.blksz = 0
BY DEF AtOnce

\* A size in blocks.
LEMMA WholeBlocks ==
  ASSUME NEW size \in Nat \ {0}, NEW b \in Nat \ {0}, size % b = 0
  PROVE  size \div b \in Nat \ {0} /\ (size \div b) * b = size
<1>1. size \div b \in Nat
  OBVIOUS
<1>2. size = b * (size \div b) + (size % b)
  OBVIOUS
<1>3. b * (size \div b) = size
  BY <1>2
<1>4. size \div b # 0
  BY <1>3
<1> QED BY <1>1, <1>3, <1>4

\* A request at Block I/O keeps the invariant.
LEMMA BlocksKeep ==
  ASSUME SdInv, NEW kind \in {"read", "write"}, MMCHSBlocks(kind)
  PROVE  SdInv'
<1>1. TypesOK /\ ClockFacts /\ Places /\ RunFacts /\ RequestFacts /\ CallFacts
  BY DEF SdInv, Facts
<1>2. sdPc = "ready" /\ sdReq.status # "pending" /\ UNCHANGED <<sdPc, media>>
  BY DEF MMCHSBlocks
<1>3. PICK lba \in 0..media.last, size \in Sizes, null \in BOOLEAN :
        /\ sdReq' = [kind |-> kind, lba |-> lba, size |-> size, status |-> AtOnce(size, null)]
        /\ IF AtOnce(size, null) = "pending"
           THEN mmc_call(kind, lba, size \div media.blksz)
           ELSE UNCHANGED mmcVars
  BY DEF MMCHSBlocks
<1>4. size \in Nat /\ lba \in Nat /\ media.blksz \in Nat /\ media \in [last : Nat, blksz : Nat]
  <2>1. media.last \in Nat /\ media.blksz \in Nat /\ media \in [last : Nat, blksz : Nat]
    BY <1>1, Fields DEF TypesOK
  <2> QED BY <2>1, SdCardAssumption
<1>5. InCall /\ Stopped /\ mmcRun.todo = <<>> /\ mmcDrv.dev.ops /\ mmcDrv.ready
  BY <1>1, <1>2 DEF Places, Stopped
<1>6. media.blksz # 0 /\ media = [last |-> mmcDrv.dev.lba, blksz |-> mmcDrv.dev.blksz]
  BY <1>1, <1>2, <1>5 DEF RequestFacts, ClockFacts
<1>7. PICK s : s = AtOnce(size, null)
  OBVIOUS
<1>8. /\ s \in {"BAD_BUFFER_SIZE", "INVALID_PARAMETER", "SUCCESS", "pending"}
      /\ s = "SUCCESS" => size = 0
      /\ s = "pending" => size # 0 /\ size % media.blksz = 0
  BY <1>4, <1>7, Answered
<1>9. sdReq' = [kind |-> kind, lba |-> lba, size |-> size, status |-> s] /\ sdReq' \in RequestSet
  BY <1>3, <1>4, <1>7, <1>8 DEF RequestSet
<1>10. /\ sdReq'.kind = kind /\ sdReq'.lba = lba /\ sdReq'.size = size /\ sdReq'.status = s
  BY <1>9
<1>11. CASE s = "pending"
  <2>1. PICK count \in Nat \ {0} : count = size \div media.blksz /\ count * media.blksz = size
    BY <1>4, <1>6, <1>8, <1>11, WholeBlocks
  <2>2. mmc_call(kind, lba, count)
    BY <1>3, <1>7, <1>11, <2>1
  <2>3. Called(kind, lba, count) /\ mmcDrv' = mmcDrv
    BY <1>1, <1>4, <2>2, CallFields DEF mmc_call
  <2>4. mmcCall'.kind = kind /\ mmcCall'.blk = lba /\ mmcCall'.left = count /\ mmcCall'.run = 0
    BY <2>3 DEF Called
  <2>5. RequestFacts'
    <3>1. Base' = lba
      BY <1>4, <2>4 DEF Base
    <3>2. Whole' => (mmcCall'.run + mmcCall'.left) * BLOCK_SIZE = sdReq'.size
      BY <1>2, <1>10, <2>1, <2>4 DEF Whole, BLOCK_SIZE
    <3>3. sdPc' = "ready" /\ media' = media
      BY <1>2
    <3>4. sdReq'.size > 0
      BY <1>4, <1>8, <1>10, <1>11
    <3> QED BY <1>6, <1>10, <2>3, <2>4, <3>1, <3>2, <3>3, <3>4 DEF RequestFacts
  <2>6. sdPc \notin {"off", "start"} /\ sdPc' \in {"search", "ready"}
        /\ media' \in [last : Nat, blksz : Nat]
        /\ (sdReq'.status = "pending" <=> sdPc' = "ready")
    BY <1>2, <1>4, <1>10, <1>11
  <2> QED BY <1>4, <1>5, <1>9, <2>2, <2>5, <2>6, CallStarts
<1>12. CASE s # "pending"
  <2>1. UNCHANGED mmcVars
    BY <1>3, <1>7, <1>12
  <2>2. UNCHANGED <<mmcBuild, sdCard, sdcc, sdcn, mmcDrv, mmcRun, mmcCall, mmcGot, mmcFaults>>
    BY <2>1 DEF mmcVars
  <2>3. Going' => Going
    BY <1>2, <2>2 DEF Going, Stopped
  <2>4. InCall' /\ Stopped'
    BY <1>5, <2>2 DEF InCall, Stopped
  <2>5. Places'
    BY <1>1, <1>2, <1>5, <1>10, <1>12, <2>2, <2>4 DEF Places, InCall
  <2>6. RequestFacts'
    <3>1. ~(sdReq'.size > 0 /\ sdReq'.status \in {"pending", "SUCCESS"})
      BY <1>4, <1>8, <1>10, <1>12
    <3> QED BY <1>2, <1>6, <1>10, <1>12, <2>2, <3>1 DEF RequestFacts
  <2>7. sdPc' \in Stages \ {"start", "off"} /\ sdPc # "off" /\ media' \in [last : Nat, blksz : Nat]
    BY <1>2, <1>4 DEF Stages
  <2> QED BY <1>9, <2>1, <2>3, <2>5, <2>6, <2>7, PlaceKeeps
<1> QED BY <1>11, <1>12

\* The answer to a request keeps the invariant.
LEMMA DoneKeeps ==
  ASSUME SdInv, BlocksDone
  PROVE  SdInv'
<1>1. TypesOK /\ Places /\ RequestFacts
  BY DEF SdInv, Facts
<1>2. PICK s \in {"SUCCESS", "DEVICE_ERROR"} : sdReq' = [sdReq EXCEPT !.status = s]
  BY DEF BlocksDone
<1>3. sdReq.status = "pending" /\ CallOver /\ UNCHANGED mmcVars /\ UNCHANGED <<sdPc, media>>
  BY DEF BlocksDone
<1>4. /\ sdReq' \in RequestSet /\ sdReq'.kind = sdReq.kind /\ sdReq'.lba = sdReq.lba
      /\ sdReq'.size = sdReq.size /\ sdReq'.status = s
  BY <1>1, <1>2 DEF TypesOK, RequestSet
<1>5. UNCHANGED <<mmcBuild, sdCard, sdcc, sdcn, mmcDrv, mmcRun, mmcCall, mmcGot, mmcFaults>>
  BY <1>3 DEF mmcVars
<1>6. sdPc = "ready" /\ Stopped /\ InCall
  BY <1>1, <1>3 DEF Places, CallOver, Stopped, InCall
<1>7. Going' => Going
  BY <1>3, <1>5 DEF Going, Stopped
<1>8. InCall' /\ Stopped' /\ Base' = Base /\ (Whole' <=> Whole)
  BY <1>3, <1>5, <1>6 DEF InCall, Stopped, Base, Whole
<1>9. Places'
  BY <1>1, <1>3, <1>4, <1>5, <1>6, <1>8 DEF Places, InCall
<1>10. RequestFacts'
  BY <1>1, <1>3, <1>4, <1>5, <1>6, <1>8 DEF RequestFacts
<1>11. sdPc' \in Stages \ {"start", "off"} /\ sdPc # "off" /\ media' \in [last : Nat, blksz : Nat]
  BY <1>1, <1>3, <1>6 DEF Stages, TypesOK
<1> QED BY <1>3, <1>4, <1>7, <1>9, <1>10, <1>11, PlaceKeeps

\* The end of the driver keeps the invariant.
LEMMA DeinitKeeps ==
  ASSUME SdInv, Deinit
  PROVE  SdInv'
<1>1. TypesOK /\ Facts /\ CommandsLegal
  BY DEF SdInv
<1>2. CapacityFacts /\ ClockFacts /\ Places /\ RunFacts /\ RequestFacts /\ CallFacts
  BY <1>1 DEF Facts
<1>3. sdPc = "ready" /\ sdReq.status # "pending" /\ sdPc' = "off" /\ UNCHANGED <<media, sdReq>>
  BY DEF Deinit
<1>4. /\ sdcc' = [MCLK(sdcn.mclk) EXCEPT !.hclk = IF sdcn.hclk THEN @ ELSE @ \ {SDC_INSTANCE}]
      /\ sdCard' = CardAfter("CMD0", 0)
      /\ UNCHANGED <<mmcBuild, sdcn, mmcDrv, mmcRun, mmcCall, mmcGot, mmcFaults>>
  BY DEF Deinit, SDCn_deinit
<1>5. InCall /\ Stopped /\ mmcDrv.ready /\ mmcCall.stage = 5 /\ SDC_INSTANCE \in sdcc.hclk
      /\ sdcn.mclk = 0
  BY <1>2, <1>3 DEF Places, ClockFacts
<1>6. PICK d : d = CardAfter("CMD0", 0)
  OBVIOUS
<1>7. /\ sdCard' \in CardSet /\ sdCard'.state = StateAfter("CMD0", 0) /\ sdCard'.kind = sdCard.kind
      /\ sdCard'.legal = sdCard.legal /\ sdCard'.off = sdCard.off /\ sdCard'.disk = sdCard.disk
  <2>1. "CMD0" \in Commands /\ 0 \in Nat /\ sdCard' = d
    BY <1>4, <1>6 DEF Commands
  <2> QED BY <1>1, <1>6, <2>1, CardAfterFields
<1>8. sdCard'.state = "idle"
  BY <1>7 DEF StateAfter, BlockCmds
<1>9. PICK c : c = MCLK(sdcn.mclk)
  OBVIOUS
<1>10. c \in ControllerSet /\ c.mclk[SDC_INSTANCE] = 0 /\ c.hclk = sdcc.hclk
  <2>1. sdcn.mclk \in Nat
    BY <1>5
  <2> QED BY <1>1, <1>5, <1>9, <2>1, ClockSet
<1>11. sdcc' \in ControllerSet /\ sdcc'.mclk = c.mclk
       /\ sdcc'.hclk = (IF sdcn.hclk THEN c.hclk ELSE c.hclk \ {SDC_INSTANCE})
  <2>1. PICK h : h = (IF sdcn.hclk THEN c.hclk ELSE c.hclk \ {SDC_INSTANCE})
    OBVIOUS
  <2>2. sdcc' = [c EXCEPT !.hclk = h]
    BY <1>4, <1>9, <1>10, <2>1 DEF ControllerSet
  <2>3. c.hclk \in SUBSET (1..4)
    BY <1>10 DEF ControllerSet
  <2>4. h \in SUBSET (1..4)
    BY <2>1, <2>3
  <2> QED BY <1>10, <2>1, <2>2, <2>4 DEF ControllerSet
<1>12. TypesOK'
  <2>1. sdCard'.disk \in [0..(sdCard'.kind.units - 1) -> Int]
    BY <1>1, <1>7 DEF TypesOK
  <2>2. sdPc' \in Stages
    BY <1>3 DEF Stages
  <2> QED BY <1>1, <1>3, <1>4, <1>7, <1>11, <2>1, <2>2 DEF TypesOK
<1>13. DriverStands'
  BY <1>3 DEF DriverStands, Going
<1>14. Facts'
  <2>1. CapacityFacts'
    BY <1>2, <1>4, <1>7, <1>8 DEF CapacityFacts
  <2>2. ClockFacts'
    BY <1>2, <1>3, <1>4 DEF ClockFacts
  <2>3. StartFacts'
    BY <1>3 DEF StartFacts
  <2>4. InCall' /\ Stopped' /\ Base' = Base
    BY <1>4, <1>5 DEF InCall, Stopped, Base
  <2>5. Places'
    BY <1>2, <1>3, <1>4, <1>5, <1>7, <2>4 DEF Places, InCall
  <2>6. RunFacts'
    BY <1>2, <1>4, <1>5, <2>4 DEF RunFacts
  <2>7. CallFacts'
    BY <1>2, <1>4, <1>5, <1>7, <2>4 DEF CallFacts
  <2>8. RequestFacts'
    BY <1>2, <1>3, <1>4, <2>4 DEF RequestFacts, Whole
  <2> QED BY <2>1, <2>2, <2>3, <2>5, <2>6, <2>7, <2>8 DEF Facts
<1>15. CommandsLegal'
  BY <1>1, <1>4, <1>7 DEF CommandsLegal
<1>16. DeinitRestores'
  BY <1>4, <1>5, <1>10, <1>11 DEF DeinitRestores
<1> QED BY <1>12, <1>13, <1>14, <1>15, <1>16 DEF SdInv

\* The invariant holds at first.
LEMMA InvFirst ==
  ASSUME SdInit
  PROVE  SdInv
<1>1. /\ mmcBuild \in Builds /\ sdcn = [mclk |-> 0, hclk |-> FALSE]
      /\ mmcDrv = [scrValid |-> FALSE, hcSupport |-> FALSE, highCapacity |-> FALSE,
                   dev |-> [ops |-> FALSE, blksz |-> 0, lba |-> 0], ready |-> FALSE]
      /\ mmcRun = [todo |-> <<>>, ok |-> TRUE]
      /\ mmcCall = [kind |-> "none", stage |-> 0, blk |-> 0, left |-> 0, run |-> 0]
      /\ mmcGot = <<>> /\ mmcFaults = 0
      /\ sdPc = "start" /\ media = [last |-> 0, blksz |-> BLOCK_SIZE] /\ sdReq = NoReq
  BY DEF SdInit, MmcInit
<1>2. PICK k \in Cards :
        sdCard = [kind |-> k, state |-> "idle", app |-> FALSE, up |-> FALSE,
                  blocklen |-> BLOCK_SIZE, unit |-> 0, good |-> TRUE, fresh |-> TRUE,
                  legal |-> TRUE, off |-> FALSE, disk |-> [u \in 0..(k.units - 1) |-> -1]]
  BY DEF SdInit, MmcInit
<1>3. sdcc \in [mclk : {[i \in 1..4 |-> 0]}, hclk : {{}, {SDC_INSTANCE}}, pins : {{}},
                flags : {{}}, coming : {{}}, clk : {{}}, armed : {FALSE}]
  BY DEF SdInit, MmcInit
<1>4. SDC_INSTANCE \in 1..4 /\ MaxFaults \in Nat
  BY MmcAssumption
<1>5. PICK d : d = [u \in 0..(k.units - 1) |-> -1]
  OBVIOUS
<1>6. d \in [0..(k.units - 1) -> Int]
  BY <1>5
<1>7. sdCard \in CardSet /\ sdCard.disk \in [0..(sdCard.kind.units - 1) -> Int]
  <2>1. sdCard = [kind |-> k, state |-> "idle", app |-> FALSE, up |-> FALSE,
                  blocklen |-> BLOCK_SIZE, unit |-> 0, good |-> TRUE, fresh |-> TRUE,
                  legal |-> TRUE, off |-> FALSE, disk |-> d]
    BY <1>2, <1>5
  <2>2. d \in UNION {[0..(c.units - 1) -> Int] : c \in Cards}
    BY <1>6
  <2>3. "idle" \in States /\ BLOCK_SIZE \in Nat
    BY DEF States, BLOCK_SIZE
  <2> QED BY <1>6, <2>1, <2>2, <2>3 DEF CardSet
<1>8. /\ sdcc \in ControllerSet /\ sdcc.flags = {} /\ sdcc.coming = {} /\ ~sdcc.armed
      /\ sdcc.mclk[SDC_INSTANCE] = 0
  <2>1. sdcc.mclk = [i \in 1..4 |-> 0] /\ sdcc.flags = {} /\ sdcc.coming = {} /\ ~sdcc.armed
    BY <1>3
  <2>2. PICK m : m = [i \in 1..4 |-> 0]
    OBVIOUS
  <2>3. m \in [1..4 -> Nat] /\ m[SDC_INSTANCE] = 0
    BY <1>4, <2>2
  <2>4. {m} \subseteq [1..4 -> Nat] /\ {{}, {SDC_INSTANCE}} \subseteq SUBSET (1..4)
    BY <1>4, <2>3
  <2>5. sdcc \in ControllerSet
    BY <1>3, <2>2, <2>4 DEF ControllerSet
  <2> QED BY <2>1, <2>2, <2>3, <2>5
<1>9. TypesOK
  <2>1. mmcDrv \in DriverSet
    BY <1>1 DEF DriverSet
  <2>2. mmcRun \in RunSet /\ mmcCall \in CallSet
    BY <1>1 DEF RunSet, CallSet
  <2>3. mmcGot \in Seq(GotSet) /\ sdPc \in Stages
    BY <1>1 DEF Stages
  <2>4. media \in [last : Nat, blksz : Nat] /\ sdReq \in RequestSet
    BY <1>1 DEF RequestSet, NoReq, BLOCK_SIZE
  <2>5. mmcFaults \in 0..MaxFaults /\ sdcn \in [mclk : Nat, hclk : BOOLEAN]
    BY <1>1, <1>4
  <2> QED BY <1>1, <1>7, <1>8, <2>1, <2>2, <2>3, <2>4, <2>5 DEF TypesOK
<1>10. DriverStands
  BY <1>1 DEF DriverStands, Going
<1>11. Facts
  <2>1. sdCard.state = "idle" /\ ~sdCard.app /\ sdCard.blocklen = BLOCK_SIZE /\ ~sdCard.off
        /\ sdCard.legal
    BY <1>2
  <2>2. CapacityFacts
    BY <1>1, <2>1 DEF CapacityFacts
  <2>3. ClockFacts
    BY <1>1 DEF ClockFacts
  <2>4. StartFacts
    BY <1>1, <1>8, <2>1 DEF StartFacts
  <2>5. ~InCall
    BY <1>1 DEF InCall
  <2>6. Places
    BY <1>1, <2>5 DEF Places, NoReq
  <2>7. RunFacts
    BY <1>1, <2>5 DEF RunFacts
  <2>8. CallFacts
    BY <2>5 DEF CallFacts
  <2>9. RequestFacts
    BY <1>1 DEF RequestFacts, NoReq
  <2> QED BY <2>2, <2>3, <2>4, <2>6, <2>7, <2>8, <2>9 DEF Facts
<1>12. CommandsLegal /\ DeinitRestores
  BY <1>1, <1>2 DEF CommandsLegal, DeinitRestores
<1> QED BY <1>9, <1>10, <1>11, <1>12 DEF SdInv

\* A step that changes nothing.
LEMMA InvStutters ==
  ASSUME SdInv, UNCHANGED sdVars
  PROVE  SdInv'
<1>1. UNCHANGED <<mmcBuild, sdCard, sdcc, sdcn, mmcDrv, mmcRun, mmcCall, mmcGot, mmcFaults, sdPc,
      media, sdReq>>
  BY DEF sdVars, mmcVars
<1>2. TypesOK /\ StartFacts
  BY DEF SdInv, Facts
<1>3. Hardware /\ FlagsOnly /\ sdCard' \in CardSet
  BY <1>1, <1>2 DEF Hardware, FlagsOnly, TypesOK
<1>4. StartFacts'
  BY <1>1, <1>2 DEF StartFacts
<1>5. ASSUME NEW v \in Views, Shows(v)
      PROVE  Shows(v)'
  BY <1>1, <1>5 DEF Shows, Holds, HoldsWell, Well, Damaged
<1> QED BY <1>1, <1>3, <1>4, <1>5, HardwareDone

\* Every step keeps the invariant.
LEMMA InvNext ==
  ASSUME SdInv, [SdNext]_sdVars
  PROVE  SdInv'
<1>1. CASE SdCardInitialize
  BY <1>1, InitializeKeeps
<1>2. CASE CardInitialized
  BY <1>2, InitializedKeeps
<1>3. CASE SearchedBlock
  BY <1>3, SearchKeeps
<1>4. CASE MMCHSReadBlocks \/ MMCHSWriteBlocks
  BY <1>4, BlocksKeep DEF MMCHSReadBlocks, MMCHSWriteBlocks
<1>5. CASE BlocksDone
  BY <1>5, DoneKeeps
<1>6. CASE Deinit
  BY <1>6, DeinitKeeps
<1>7. CASE MmcDriverStep /\ UNCHANGED <<sdPc, media, sdReq>>
  BY <1>7, SendCmd, ReadFifoKeeps, ReadScrKeeps, MoverKeeps, WriteFifoKeeps, CheckKeeps, ClearKeeps,
     ProgKeeps,
     TestsKeep, StageEndsKeeps, ReturnKeeps, RoundEndsKeeps DEF MmcDriverStep
<1>8. CASE MmcHardwareStep /\ UNCHANGED <<sdPc, media, sdReq>>
  BY <1>8, PowersUpKeeps, ProgrammedKeeps, FlagsKeep DEF MmcHardwareStep
<1>9. CASE UNCHANGED sdVars
  BY <1>9, InvStutters
<1> QED BY <1>1, <1>2, <1>3, <1>4, <1>5, <1>6, <1>7, <1>8, <1>9 DEF SdNext

-----------------------------------------------------------------------------
(* What the invariant says of the properties.                               *)

\* The card is driven as its protocol has it.
LEMMA InvHandles ==
  ASSUME SdInv
  PROVE  CardHandled
<1>1. TypesOK /\ DriverStands /\ Facts /\ CommandsLegal /\ DeinitRestores
  BY DEF SdInv
<1>2. CapacityFacts /\ ClockFacts /\ Places /\ RunFacts /\ CallFacts
  BY <1>1 DEF Facts
<1>3. SdTypeOK
  <2>1. AllowedIn["CMD0"] = States
    BY AllowedValues
  <2>2. sdCard.kind \in Cards /\ sdCard.state \in States
    BY <1>1, Fields
  <2>3. sdcc.flags \subseteq Flags /\ sdcc.coming \subseteq Flags
    BY <1>1, Fields
  <2>4. sdcc.flags \cup sdcc.coming \subseteq Errors \cup {"blk_end", "data_end", "prog_done"}
    BY <2>3 DEF Flags
  <2>5. mmcCall.run \in Nat /\ mmcCall.left \in Nat
    BY <1>1, Fields
  <2>6. sdReq.status \in {"-", "pending", "SUCCESS", "DEVICE_ERROR", "BAD_BUFFER_SIZE",
        "INVALID_PARAMETER"}
    BY <1>1 DEF TypesOK, RequestSet
  <2>7. mmcFaults \in 0..MaxFaults /\ sdPc \in Stages
    BY <1>1 DEF TypesOK
  <2> QED BY <2>1, <2>2, <2>4, <2>5, <2>6, <2>7 DEF SdTypeOK, Stages
<1>4. FreshBlockChecked
  <2>1. CASE InCall
    BY <1>2, <2>1 DEF CallFacts, FreshBlockChecked
  <2>2. CASE ~InCall
    BY <1>2, <2>2 DEF RunFacts, FreshBlockChecked
  <2> QED BY <2>1, <2>2
<1>5. PublishedIsUsable
  <2>1. ASSUME sdPc = "ready"
        PROVE  /\ mmcDrv.ready /\ mmcDrv.dev.ops /\ mmcDrv.scrValid
               /\ sdCard.state \notin {"idle", "ready", "ident", "stby"}
               /\ SDC_INSTANCE \in sdcc.hclk /\ sdcc.mclk[SDC_INSTANCE] >= 25000
               /\ mmcDrv.highCapacity = sdCard.kind.hc
    <3>1. InCall /\ mmcDrv.ready /\ mmcDrv.dev.ops /\ mmcCall.stage = 5
      BY <1>2, <2>1 DEF Places, ClockFacts
    <3>2. Going /\ Later
      BY <2>1, <3>1 DEF Going, Later, InCall
    <3>3. PICK v \in Views : Stands(v)
      BY <1>1, <3>2 DEF DriverStands
    <3>4. sdCard.state \in Selected /\ mmcDrv.scrValid
      BY <3>2, <3>3 DEF Stands, Shows, Holds
    <3>5. sdCard.kind.hc \in BOOLEAN /\ mmcDrv.highCapacity \in BOOLEAN
      BY <1>1, Fields
    <3>6. mmcDrv.highCapacity <=> sdCard.kind.hc
      BY <1>2, <3>4 DEF CapacityFacts, Selected
    <3>7. SDC_INSTANCE \in sdcc.hclk /\ sdcc.mclk[SDC_INSTANCE] >= 25000
      BY <1>2, <2>1, <3>1 DEF ClockFacts
    <3>8. sdCard.state \notin {"idle", "ready", "ident", "stby"}
      BY <3>4 DEF Selected
    <3>9. mmcDrv.highCapacity = sdCard.kind.hc
      BY <3>5, <3>6
    <3> QED BY <3>1, <3>4, <3>7, <3>8, <3>9
  <2> QED BY <2>1 DEF PublishedIsUsable
<1> QED BY <1>1, <1>3, <1>4, <1>5 DEF CardHandled

\* Reads and writes move the blocks that were asked for.
LEMMA InvPlaces ==
  ASSUME SdInv
  PROVE  BlocksInPlace
<1>1. TypesOK /\ Places /\ RunFacts /\ CallFacts /\ RequestFacts
  BY DEF SdInv, Facts
<1>2. /\ mmcCall.blk \in Nat /\ mmcCall.left \in Nat /\ mmcCall.run \in Nat /\ sdReq.size \in Nat
         /\ sdReq.lba \in Nat
  BY <1>1, Fields
<1>3. ReadInPlace
  <2>1. ASSUME sdReq.kind = "read", sdReq.size > 0, mmcCall.kind = "read",
        sdReq.status \in {"pending", "SUCCESS"}, Whole
        PROVE  /\ Len(mmcGot) * BLOCK_SIZE <= sdReq.size
               /\ \A k \in 1..Len(mmcGot) : mmcGot[k].unit = sdReq.lba + k - 1
    <3>1. sdReq.lba = Base /\ (mmcCall.run + mmcCall.left) * BLOCK_SIZE = sdReq.size
      BY <1>1, <2>1 DEF RequestFacts
    <3>2. Len(mmcGot) = mmcCall.run /\ \A k \in 1..mmcCall.run : mmcGot[k].unit = Base + k - 1
      BY <1>1, <2>1 DEF CallFacts, InCall
    <3>3. mmcCall.run * BLOCK_SIZE <= sdReq.size
      BY <1>2, <3>1 DEF BLOCK_SIZE
    <3> QED BY <3>1, <3>2, <3>3
  <2> QED BY <2>1 DEF ReadInPlace
<1>4. WriteInPlace
  <2>1. ASSUME sdReq.kind = "write", sdReq.status = "pending", Whole
        PROVE  /\ \A u \in DOMAIN sdCard.disk : sdCard.disk[u] # -1 =>
                    u = sdReq.lba + sdCard.disk[u]
                      /\ u * BLOCK_SIZE < sdReq.lba * BLOCK_SIZE + sdReq.size
               /\ \A j \in 0..(mmcCall.run - 1) : mmcGot[j + 1].good
                 => sdCard.disk[sdReq.lba + j] = j
    <3>1. /\ mmcCall.kind = "write" /\ sdReq.lba = Base
          /\ (mmcCall.run + mmcCall.left) * BLOCK_SIZE = sdReq.size
      BY <1>1, <2>1 DEF RequestFacts
    <3>2. /\ \A u \in DOMAIN sdCard.disk : sdCard.disk[u] # -1 =>
               u = Base + sdCard.disk[u] /\ u < mmcCall.blk + mmcCall.left
          /\ \A j \in 0..(mmcCall.run - 1) : mmcGot[j + 1].good => sdCard.disk[Base + j] = j
      BY <1>1, <3>1 DEF CallFacts, InCall
    <3>3. ASSUME NEW u \in DOMAIN sdCard.disk, u < mmcCall.blk + mmcCall.left
          PROVE  u * BLOCK_SIZE < sdReq.lba * BLOCK_SIZE + sdReq.size
      <4>1. sdCard.disk \in [0..(sdCard.kind.units - 1) -> Int]
        BY <1>1 DEF TypesOK
      <4>2. u \in Int
        <5>1. DOMAIN sdCard.disk = 0..(sdCard.kind.units - 1)
          BY <4>1
        <5>2. u \in 0..(sdCard.kind.units - 1)
          BY <3>3, <5>1
        <5> QED BY <5>2
      <4>3. sdReq.lba = mmcCall.blk - mmcCall.run
        BY <3>1 DEF Base
      <4> QED BY <1>2, <3>1, <3>3, <4>2, <4>3 DEF BLOCK_SIZE
    <3> QED BY <3>1, <3>2, <3>3
  <2> QED BY <2>1 DEF WriteInPlace
<1> QED BY <1>3, <1>4 DEF BlocksInPlace

\* Whatever the card, the build and the faults, the card is driven as its
\* protocol has it: no command that its state does not allow as long as
\* nothing goes wrong, no fresh block counted unchecked, Block I/O published
\* only over a card that is usable, the clocks restored at the end.
THEOREM CardIsHandled == SdInit /\ [][SdNext]_sdVars => []CardHandled
<1>1. SdInit => SdInv
  BY InvFirst
<1>2. SdInv /\ [SdNext]_sdVars => SdInv'
  BY InvNext
<1>3. SdInv => CardHandled
  BY InvHandles
<1> QED BY <1>1, <1>2, <1>3, PTL

\* Whatever the card, the build and the faults, mmc_bread's blocks come from
\* where they were asked for and mmc_bwrite's go there, and nowhere else.
THEOREM BlocksStayInPlace == SdInit /\ [][SdNext]_sdVars => []BlocksInPlace
<1>1. SdInit => SdInv
  BY InvFirst
<1>2. SdInv /\ [SdNext]_sdVars => SdInv'
  BY InvNext
<1>3. SdInv => BlocksInPlace
  BY InvPlaces
<1> QED BY <1>1, <1>2, <1>3, PTL
=============================================================================
