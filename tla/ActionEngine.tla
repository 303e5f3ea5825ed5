---------------------------- MODULE ActionEngine ----------------------------
(***************************************************************************)
(* The tree of actions that transforms a function (action.cc): perform,    *)
(* with its repetition, its once-per-function actions and its breakpoints, *)
(* over groups, groups that restart, and pools of rules.  `stack' is the   *)
(* C++ stack: one frame for each perform in progress.  An action that      *)
(* follows the flow of a function can perform a second tree, "jumptable",  *)
(* on a partial copy of it (stageJumpTable), and an action or a rule may   *)
(* throw, which leaves every action of its tree as it was at that moment.  *)
(*                                                                         *)
(* What an action or a rule does to its function is not modelled, but for  *)
(* whether it counts a change, whether it asks for a restart, and the op   *)
(* codes of the ops that a pool goes through.                              *)
(***************************************************************************)
EXTENDS Integers, Sequences

CONSTANTS
  Actions,          \* of both trees
  Rules,            \* of their pools
  Universal,        \* the root of the tree that decompiles a function
  JumpTable,        \* the root of the tree that stageJumpTable performs
  FollowsFlow,      \* the leaves that look for jump tables
  Kind,             \* of each action: "group", "restart", "pool" or "leaf"
  Flags,            \* of each action: "repeatapply", "onceperfunc"
  List,             \* the actions of a group, in order
  Below,            \* of each action: itself and all the actions within it
  PerOp,            \* perop: the rules for each op code
  MaxRestarts,      \* maxrestarts
  NumOps,           \* bound: ops are 1 .. NumOps, in the order of a pool
  InitialCode,      \* the op codes of the ops that a function starts with
  BreakPoints,      \* the breakpoints that may be set, on actions and rules
  MaxChanges,       \* bound: the changes, of all decompilations
  MaxTables,        \* bound: jump tables
  MaxPerforms       \* bound: decompilations

Codes == DOMAIN PerOp
Absent == {"unborn", "dead", "gone"}
Functions == {"function", "partial"}
BreakKinds == {"start", "tmpstart", "action", "tmpaction"}

ASSUME ActionsAssumption ==
  /\ Universal \in Actions /\ JumpTable \in Actions
  /\ Kind \in [Actions -> {"group", "restart", "pool", "leaf"}]
  /\ Flags \in [Actions -> SUBSET {"repeatapply", "onceperfunc"}]
  /\ List \in [Actions -> Seq(Actions)]
  /\ Below \in [Actions -> SUBSET Actions]
  /\ PerOp \in [Codes -> Seq(Rules)]
  /\ {MaxRestarts, NumOps, MaxChanges, MaxTables, MaxPerforms} \subseteq Nat
  /\ InitialCode \in [1 .. NumOps -> Codes \cup {"unborn"}]
  /\ BreakPoints \subseteq [Actions \cup Rules -> SUBSET BreakKinds]

(* Two trees apart: the second is cloned.  Only the roots may restart, and  *)
(* they do not repeat; an action is added to one list, once; no leaf has   *)
(* two flags, and no group or pool within a root is done once only.        *)
ASSUME TreesAssumption ==
  /\ Below[Universal] \cap Below[JumpTable] = {}
  /\ \A a \in Actions :
       /\ a \in Below[a]
       /\ \A b \in Below[a] :
            /\ Below[b] \subseteq Below[a]
            /\ b = a \/ \E i \in DOMAIN List[a] : b \in Below[List[a][i]]
       /\ \A i \in DOMAIN List[a] : /\ List[a][i] \in Below[a] \ {Universal, JumpTable}
                                    /\ a \notin Below[List[a][i]]
       /\ List[a] # <<>> => Kind[a] \in {"group", "restart"}
       /\ Kind[a] = "restart" <=> a \in {Universal, JumpTable}
       /\ Kind[a] = "leaf" => Flags[a] # {"repeatapply", "onceperfunc"}
       /\ Kind[a] \in {"group", "pool"} => "onceperfunc" \notin Flags[a]
       /\ Kind[a] = "restart" => "repeatapply" \notin Flags[a]
  /\ \A a, b \in Actions : \A i \in DOMAIN List[a] :
       /\ List[a][i] \in Below[b] => List[a][i] = b \/ a \in Below[b]
       /\ \A j \in DOMAIN List[b] : List[a][i] = List[b][j] => a = b /\ i = j
  /\ FollowsFlow \subseteq {a \in Below[Universal] : Kind[a] = "leaf"}

VARIABLES
  status, count, lcount, breakpoint,
  state,            \* the position in a group's list, or the op a pool is at
  ruleIndex, curstart,
  code, pending,    \* of each function: its ops, and whether to restart
  current,          \* the current root of the ActionDatabase
  stack,
  ret,              \* what the perform that just returned returned
  outcome,          \* of the last perform of a root, "done", "error", ...
  budget, tables, performs,
  made,             \* of each action: the changes since its perform began
  settled,          \* the tests that changed nothing since the last change
  applied,          \* of each leaf: how often it was applied since the start
  restarts          \* of the function, since the tree was reset

fields == <<status, count, lcount, breakpoint, state, ruleIndex, curstart>>
function == <<code, pending, budget>>
client == <<current, outcome, tables, performs>>
ghosts == <<made, settled, applied, restarts>>
vars == <<fields, function, client, stack, ret, ghosts>>
-----------------------------------------------------------------------------
Data(a) == IF a \in Below[Universal] THEN "function" ELSE "partial"

Reset(S, field, value) == [a \in DOMAIN field |-> IF a \in S THEN value ELSE field[a]]

Init ==
  /\ status = [a \in Actions |-> "start"]
  /\ count = [a \in Actions |-> 0] /\ lcount = count
  /\ breakpoint \in BreakPoints
  /\ state = [a \in Actions |-> 1] /\ ruleIndex = state
  /\ curstart = count
  /\ code = [f \in Functions |-> InitialCode]
  /\ pending = [f \in Functions |-> FALSE]
  /\ budget = MaxChanges
  /\ current = Universal
  /\ outcome = "none" /\ tables = 0 /\ performs = 0
  /\ stack = <<>> /\ ret = 0
  /\ made = count /\ settled = {} /\ applied = count /\ restarts = 0
-----------------------------------------------------------------------------
(* The stack.  `old' is the root that a leaf puts back as the current one. *)
Frame(a, pc, old) == [action |-> a, pc |-> pc, old |-> old]

Top == stack[Len(stack)]
This == Top.action

At(pc) == stack # <<>> /\ Top.pc = pc

In(kind, pc) == At(pc) /\ Kind[This] = kind

Under(k, pc) ==
  [SubSeq(stack, 1, k) EXCEPT ![k] = Frame(stack[k].action, pc, stack[k].old)]

Goto(pc) == stack' = Under(Len(stack), pc)

Call(a) == stack' = Append(stack, Frame(a, "perform", current))

(* perform returns to the apply that called it, or to the client.          *)
Return(r) ==
  /\ ret' = r
  /\ IF Len(stack) = 1
     THEN stack' = <<>> /\ outcome' = IF r < 0 THEN "interrupted" ELSE "done"
     ELSE stack' = Under(Len(stack) - 1, "returned") /\ UNCHANGED outcome
  /\ UNCHANGED <<current, tables, performs>>

Going(pc) == Goto(pc) /\ UNCHANGED <<ret, client>>

(* checkStartBreak and checkActionBreak; what they leave of the breakpoint.*)
OnStart == {"start", "tmpstart"}
OnAction == {"action", "tmpaction"}
Temporary == {"tmpstart", "tmpaction"}

Breaking(x, kinds) == breakpoint[x] \cap kinds # {}

Tripped(x, kinds) == [breakpoint EXCEPT ![x] = @ \ (kinds \cap Temporary)]
-----------------------------------------------------------------------------
(* The client: DoExecute, and the decompile command of the console.        *)
Cleared(f) ==
  /\ code' = [code EXCEPT ![f] = InitialCode]
  /\ pending' = [pending EXCEPT ![f] = FALSE]

(* reset, of an action and of all those within it.                         *)
ResetTree(root) ==
  /\ status' = Reset(Below[root], status, "start")
  /\ curstart' = Reset(Below[root], curstart, 0)

Decompile ==
  /\ stack = <<>> /\ performs < MaxPerforms
  /\ performs' = performs + 1
  /\ Cleared("function")
  /\ ResetTree(current)
  /\ Call(current)
  /\ outcome' = "none" /\ ret' = 0
  /\ made' = Reset(Actions, made, 0) /\ settled' = {}
  /\ applied' = Reset(Actions, applied, 0) /\ restarts' = 0
  /\ UNCHANGED <<count, lcount, breakpoint, state, ruleIndex, budget, current,
                 tables>>

(* The continue command of the console.                                    *)
Continue ==
  /\ stack = <<>> /\ outcome = "interrupted"
  /\ status[current] \notin {"start", "end"}
  /\ Call(current)
  /\ outcome' = "none"
  /\ UNCHANGED <<fields, function, current, tables, performs, ret, ghosts>>
-----------------------------------------------------------------------------
(* perform.                                                                *)
(* The op at or after o (past them all, if there is none), as a set.       *)
OpFrom(o, f) ==
  LET Held(p) == code[f][p] \notin {"unborn", "gone"}
  IN {p \in o .. NumOps + 1 : /\ p <= NumOps => Held(p)
                              /\ \A q \in o .. p - 1 : ~Held(q)}

First(a) == IF Kind[a] = "pool" THEN OpFrom(1, Data(a)) ELSE {1}

(* The head of apply: all but an action in the middle start at the         *)
(* beginning, and a restart group that has finished does nothing.          *)
Entering(a) ==
  /\ Going(IF Kind[a] = "restart" /\ curstart[a] = -1 THEN "applied" ELSE "next")
  /\ IF status[a] = "mid"
     THEN UNCHANGED <<state, ruleIndex>>
     ELSE /\ \E p \in First(a) : state' = [state EXCEPT ![a] = p]
          /\ ruleIndex' = [ruleIndex EXCEPT ![a] = 1]
  /\ UNCHANGED <<curstart, function, settled, applied, restarts>>

Beginning(a) ==
  /\ At("perform") /\ status[a] = "start"
  /\ count' = [count EXCEPT ![a] = 0]
  /\ made' = [made EXCEPT ![a] = 0]

StartBreak ==
  /\ Beginning(This)
  /\ Breaking(This, OnStart)
  /\ breakpoint' = Tripped(This, OnStart)
  /\ status' = [status EXCEPT ![This] = "breakstarthit"]
  /\ Return(-1)
  /\ UNCHANGED <<lcount, state, ruleIndex, curstart, function, settled, applied,
                 restarts>>

Start ==
  /\ Beginning(This)
  /\ ~Breaking(This, OnStart)
  /\ lcount' = [lcount EXCEPT ![This] = 0]
  /\ Entering(This)
  /\ UNCHANGED <<status, breakpoint>>

Repeat ==
  /\ At("perform") /\ status[This] \in {"breakstarthit", "repeat"}
  /\ lcount' = [lcount EXCEPT ![This] = count[This]]
  /\ Entering(This)
  /\ UNCHANGED <<status, count, breakpoint, made>>

ResumeAfresh ==                              \* faulty: counts from here
  /\ At("perform") /\ status[This] = "mid"
  /\ lcount' = [lcount EXCEPT ![This] = count[This]]
  /\ Entering(This)
  /\ UNCHANGED <<status, count, breakpoint, made>>

Resume ==
  /\ At("perform") /\ status[This] = "mid"
  /\ Entering(This)
  /\ UNCHANGED <<status, count, lcount, breakpoint, made>>

Ended ==
  /\ At("perform") /\ status[This] = "end"
  /\ Return(0)
  /\ UNCHANGED <<fields, function, ghosts>>

Changed(a) == lcount[a] < count[a]

ActionBreak ==
  /\ At("applied") /\ Changed(This)
  /\ Breaking(This, OnAction)
  /\ breakpoint' = Tripped(This, OnAction)
  /\ status' = [status EXCEPT ![This] = "actionbreak"]
  /\ Return(-1)
  /\ UNCHANGED <<count, lcount, state, ruleIndex, curstart, function, ghosts>>

(* apply has returned 0, or the action goes on after its breakpoint.       *)
AppliedOnce ==
  \/ At("applied") /\ ~(Changed(This) /\ Breaking(This, OnAction))
  \/ At("perform") /\ status[This] = "actionbreak"

AgainIdle(a) ==                              \* faulty: with no change too
  lcount[a] <= count[a] /\ "repeatapply" \in Flags[a]

Again(a) == Changed(a) /\ "repeatapply" \in Flags[a]

Loop ==
  /\ AppliedOnce /\ Again(This)
  /\ status' = [status EXCEPT ![This] = "repeat"]
  /\ Going("perform")
  /\ UNCHANGED <<count, lcount, breakpoint, state, ruleIndex, curstart, function,
                 ghosts>>

Finish ==
  /\ AppliedOnce /\ ~Again(This)
  /\ status' = [status EXCEPT
                  ![This] = IF "onceperfunc" \in Flags[This] THEN "end" ELSE "start"]
  /\ Return(count[This])
  /\ UNCHANGED <<count, lcount, breakpoint, state, ruleIndex, curstart, function,
                 ghosts>>

(* apply returns -1, and perform after it.                                 *)
Partial(a) == status' = [status EXCEPT ![a] = "mid"] /\ Return(-1)
-----------------------------------------------------------------------------
(* ActionGroup::apply.                                                     *)
IsGroup(a) == Kind[a] \in {"group", "restart"}

GroupNext ==
  /\ At("next") /\ IsGroup(This) /\ state[This] <= Len(List[This])
  /\ Call(List[This][state[This]])
  /\ UNCHANGED <<fields, function, client, ret, ghosts>>

GroupMemberAny ==                            \* faulty: any result is a count
  /\ At("returned") /\ IsGroup(This)
  /\ count' = [count EXCEPT ![This] = @ + ret]
  /\ state' = [state EXCEPT ![This] = @ + 1]
  /\ Going("next")
  /\ UNCHANGED <<status, lcount, breakpoint, ruleIndex, curstart, function, ghosts>>

GroupMemberLate ==                           \* faulty: breaks, then counts
  /\ At("returned") /\ IsGroup(This) /\ ret >= 0
  /\ state' = [state EXCEPT ![This] = @ + 1]
  /\ IF ret > 0 /\ Breaking(This, OnAction)
     THEN breakpoint' = Tripped(This, OnAction) /\ Partial(This) /\ UNCHANGED count
     ELSE /\ count' = [count EXCEPT ![This] = @ + ret]
          /\ Going("next") /\ UNCHANGED <<breakpoint, status>>
  /\ UNCHANGED <<lcount, ruleIndex, curstart, function, ghosts>>

GroupMember ==
  /\ At("returned") /\ IsGroup(This) /\ ret >= 0
  /\ count' = [count EXCEPT ![This] = @ + ret]
  /\ state' = [state EXCEPT ![This] = @ + 1]
  /\ IF ret > 0 /\ Breaking(This, OnAction)
     THEN breakpoint' = Tripped(This, OnAction) /\ Partial(This)
     ELSE Going("next") /\ UNCHANGED <<breakpoint, status>>
  /\ UNCHANGED <<lcount, ruleIndex, curstart, function, ghosts>>

GroupPartial ==
  /\ At("returned") /\ IsGroup(This) /\ ret < 0
  /\ Partial(This)
  /\ UNCHANGED <<count, lcount, breakpoint, state, ruleIndex, curstart, function,
                 ghosts>>

AtEnd(a) == At("next") /\ IsGroup(a) /\ state[a] > Len(List[a])

GroupDone ==
  /\ AtEnd(This) /\ Kind[This] = "group"
  /\ Going("applied")
  /\ UNCHANGED <<fields, function, ghosts>>

(* ActionRestartGroup::apply, once its members are applied.                *)
RestartWanted == AtEnd(This) /\ Kind[This] = "restart" /\ pending[Data(This)]

RestartsLeftFew(a) == curstart[a] + 1 < MaxRestarts      \* faulty: off by one

RestartsLeft(a) == curstart[a] + 1 <= MaxRestarts

NoRestart ==
  /\ AtEnd(This) /\ Kind[This] = "restart" /\ ~pending[Data(This)]
  /\ curstart' = [curstart EXCEPT ![This] = -1]
  /\ Going("applied")
  /\ UNCHANGED <<status, count, lcount, breakpoint, state, ruleIndex, function,
                 ghosts>>

NoRestartInRecovery ==
  /\ RestartWanted /\ Data(This) = "partial"
  /\ Going("applied")
  /\ UNCHANGED <<fields, function, ghosts>>

TooManyRestarts ==
  /\ RestartWanted /\ Data(This) = "function" /\ ~RestartsLeft(This)
  /\ curstart' = [curstart EXCEPT ![This] = -1]
  /\ Going("applied")
  /\ UNCHANGED <<status, count, lcount, breakpoint, state, ruleIndex, function,
                 ghosts>>

Restart ==
  /\ RestartWanted /\ Data(This) = "function" /\ RestartsLeft(This)
  /\ Cleared("function")
  /\ status' = Reset(Below[This], status, "start")
  /\ curstart' = [Reset(Below[This], curstart, 0) EXCEPT ![This] = curstart[This] + 1]
  /\ state' = [state EXCEPT ![This] = 1]
  /\ applied' = Reset(Below[This], applied, 0)
  /\ settled' = {} /\ restarts' = restarts + 1
  /\ UNCHANGED <<count, lcount, breakpoint, ruleIndex, budget, stack, ret, client,
                 made>>
-----------------------------------------------------------------------------
(* A leaf or a rule changes its function n times: every action on the way  *)
(* to it has n changes more to account for, and no test is settled.        *)
ChangeBy(a, n) ==
  /\ budget' = budget - n
  /\ count' = [count EXCEPT ![a] = @ + n]
  /\ made' = [x \in Actions |->
                IF \E i \in DOMAIN stack :
                     stack[i].action = x /\ Data(x) = Data(a)
                THEN made[x] + n ELSE made[x]]
  /\ settled' = {t \in settled : Data(t[1]) # Data(a)}

Change(a) == \E n \in 1 .. budget : ChangeBy(a, n)

(* setRestartPending, which an action or a rule may call.                  *)
MayRequestRestart(f) ==
  \E p \in BOOLEAN : pending' = [pending EXCEPT ![f] = @ \/ p]

(* An action of its own: it may count changes, and ask for a restart.      *)
LeafApply ==
  /\ In("leaf", "next")
  /\ \/ Change(This)
     \/ /\ settled' = settled \cup {<<This, 0, 0>>}
        /\ UNCHANGED <<budget, count, made>>
  /\ MayRequestRestart(Data(This))
  /\ applied' = [applied EXCEPT ![This] = IF @ < 2 THEN @ + 1 ELSE @]
  /\ Going("applied")
  /\ UNCHANGED <<status, lcount, breakpoint, state, ruleIndex, curstart, code,
                 restarts>>

(* stageJumpTable: the tree "jumptable" is made the current one, reset,    *)
(* and performed on a new function.  What perform returns is ignored.      *)
StageJumpTable ==
  /\ In("leaf", "next") /\ This \in FollowsFlow
  /\ tables < MaxTables
  /\ tables' = tables + 1
  /\ current' = JumpTable
  /\ Cleared("partial")
  /\ ResetTree(JumpTable)
  /\ stack' = [stack EXCEPT ![Len(stack)] = Frame(This, "staging", current)]
                \o <<Frame(JumpTable, "perform", JumpTable)>>
  /\ settled' = {t \in settled : Data(t[1]) = "function"}
  /\ UNCHANGED <<count, lcount, breakpoint, state, ruleIndex, budget, ret, outcome,
                 performs, made, applied, restarts>>

Staged ==
  /\ In("leaf", "returned")
  /\ current' = Top.old
  /\ Goto("next")
  /\ UNCHANGED <<fields, function, outcome, tables, performs, ret, ghosts>>

-----------------------------------------------------------------------------
(* ActionPool::apply and processOp.                                        *)
ThisOp == state[This]
ThisCode == code[Data(This)][ThisOp]
ThisRule == PerOp[ThisCode][ruleIndex[This]]

OnOp == In("pool", "next") /\ ThisOp <= NumOps

Trying == OnOp /\ ThisCode # "dead" /\ ruleIndex[This] <= Len(PerOp[ThisCode])

NextOp ==
  /\ \E p \in OpFrom(ThisOp + 1, Data(This)) : state' = [state EXCEPT ![This] = p]
  /\ ruleIndex' = [ruleIndex EXCEPT ![This] = 1]

PoolDone ==
  /\ In("pool", "next") /\ ThisOp > NumOps
  /\ Going("applied")
  /\ UNCHANGED <<fields, function, ghosts>>

OpDead ==
  /\ OnOp /\ ThisCode = "dead"
  /\ code' = [code EXCEPT ![Data(This)] = [@ EXCEPT ![ThisOp] = "gone"]]
  /\ NextOp
  /\ UNCHANGED <<status, count, lcount, breakpoint, curstart, pending, budget, client,
                 stack, ret, ghosts>>

OpDone ==
  /\ OnOp /\ ThisCode # "dead" /\ ruleIndex[This] > Len(PerOp[ThisCode])
  /\ NextOp
  /\ UNCHANGED <<status, count, lcount, breakpoint, curstart, function, client, stack,
                 ret, ghosts>>

RuleIdle ==
  /\ Trying
  /\ settled' = settled \cup {<<This, ThisOp, ruleIndex[This]>>}
  /\ ruleIndex' = [ruleIndex EXCEPT ![This] = @ + 1]
  /\ UNCHANGED <<status, count, lcount, breakpoint, state, curstart, function, client,
                 stack, ret, made, applied, restarts>>

(* The ops after a rule: one has another code, has died or is born.        *)
Rewritten(ops) ==
  {[ops EXCEPT ![o] = c] : o \in {o \in 1 .. NumOps : ops[o] \notin Absent},
                           c \in Codes \cup {"dead"}}
  \cup {[ops EXCEPT ![o] = c] : o \in {o \in 1 .. NumOps : ops[o] = "unborn"},
                                c \in Codes}

(* The changes are those the rule returns.  With a breakpoint on the rule  *)
(* processOp returns before it looks at what has become of the op.  A rule *)
(* that gives the op another code and returns 0 is an error to processOp,  *)
(* which prints it and goes on; no rule is taken to do so.                 *)
RuleApplies ==
  /\ Trying
  /\ Change(This)
  /\ MayRequestRestart(Data(This))
  /\ \E ops \in Rewritten(code[Data(This)]) :
       /\ code' = [code EXCEPT ![Data(This)] = ops]
       /\ IF Breaking(ThisRule, OnAction)
          THEN /\ breakpoint' = Tripped(ThisRule, OnAction)
               /\ ruleIndex' = [ruleIndex EXCEPT ![This] = @ + 1]
               /\ Partial(This)
               /\ UNCHANGED state
          ELSE /\ CASE ops[ThisOp] = "dead" -> NextOp
                    [] ops[ThisOp] = ThisCode ->
                         /\ ruleIndex' = [ruleIndex EXCEPT ![This] = @ + 1]
                         /\ UNCHANGED state
                    [] OTHER ->
                         /\ ruleIndex' = [ruleIndex EXCEPT ![This] = 1]
                         /\ UNCHANGED state
               /\ UNCHANGED <<status, breakpoint, client, stack, ret>>
  /\ UNCHANGED <<lcount, curstart, applied, restarts>>

(* A LowlevelError is caught by the nearest stageJumpTable, which puts the *)
(* current root back, or else by the client.                               *)
Catchers == {i \in DOMAIN stack : stack[i].pc = "staging"}

ThrowUnrestored ==                           \* faulty: leaves the current root
  /\ In("leaf", "next") \/ Trying
  /\ IF Catchers = {}
     THEN stack' = <<>> /\ outcome' = "error"
     ELSE \E i \in Catchers : stack' = Under(i, "next") /\ UNCHANGED outcome
  /\ UNCHANGED <<fields, function, current, tables, performs, ret, ghosts>>

Throw ==
  /\ In("leaf", "next") \/ Trying
  /\ IF Catchers = {}
     THEN stack' = <<>> /\ outcome' = "error" /\ UNCHANGED current
     ELSE \E i \in Catchers :
            /\ stack' = Under(i, "next")
            /\ current' = stack[i].old
            /\ UNCHANGED outcome
  /\ UNCHANGED <<fields, function, tables, performs, ret, ghosts>>
-----------------------------------------------------------------------------
Perform ==
  \/ StartBreak \/ Start \/ Repeat \/ Resume \/ Ended
  \/ ActionBreak \/ Loop \/ Finish

Apply ==
  \/ GroupNext \/ GroupMember \/ GroupPartial \/ GroupDone
  \/ NoRestart \/ NoRestartInRecovery \/ TooManyRestarts \/ Restart
  \/ LeafApply \/ StageJumpTable \/ Staged \/ Throw
  \/ PoolDone \/ OpDead \/ OpDone \/ RuleIdle \/ RuleApplies

Engine == Perform \/ Apply

Next == Decompile \/ Continue \/ Engine

(* A perform runs on in its caller's thread until it returns.              *)
Spec == Init /\ [][Next]_vars /\ WF_vars(Engine)
-----------------------------------------------------------------------------
TypeOK ==
  /\ status \in [Actions -> {"start", "breakstarthit", "repeat", "mid", "end",
                             "actionbreak"}]
  /\ count \in [Actions -> Nat] /\ lcount \in [Actions -> Nat]
  /\ breakpoint \in [Actions \cup Rules -> SUBSET BreakKinds]
  /\ state \in [Actions -> Nat \ {0}] /\ ruleIndex \in [Actions -> Nat]
  /\ curstart \in [Actions -> Nat \cup {-1}]
  /\ code \in [Functions -> [1 .. NumOps -> Codes \cup Absent]]
  /\ pending \in [Functions -> BOOLEAN]
  /\ budget \in Nat
  /\ current \in Actions /\ tables \in Nat /\ performs \in Nat
  /\ outcome \in {"none", "done", "interrupted", "error"}
  /\ stack \in Seq([action : Actions, old : Actions,
                    pc : {"perform", "next", "returned", "applied", "staging"}])
  /\ ret \in Nat \cup {-1}
  /\ made \in [Actions -> Nat] /\ applied \in [Actions -> Nat]
  /\ settled \subseteq Actions \X (0 .. NumOps) \X Nat
  /\ restarts \in Nat

(* What has to be tried within an action before it may be left: its leaves *)
(* that are not through for good, and every rule of a pool on every op.    *)
Tests(a) ==
  {<<x, 0, 0>> : x \in {x \in Below[a] : Kind[x] = "leaf" /\ status[x] # "end"}}
  \cup UNION {{<<x, o, i>> : i \in 1 .. Len(PerOp[code[Data(a)][o]])} :
                x \in {x \in Below[a] : Kind[x] = "pool"},
                o \in {o \in 1 .. NumOps : code[Data(a)][o] \notin Absent}}

(* "Apply rule repeatedly until no change": a repeated action returns only *)
(* when everything within it has been tried since the last change, however *)
(* often it was interrupted in the middle.                                 *)
FixpointReached ==
  [][(Finish /\ "repeatapply" \in Flags[This]) => Tests(This) \subseteq settled]_vars

(* "Generally the number of changes made by the action is returned": all   *)
(* of them, those before a breakpoint included.                            *)
NoChangeForgotten == [][Finish => ret' = made[This]]_vars

(* A function that was decompiled went through every action of the tree    *)
(* since it was last cleared, and just once through those for which that   *)
(* is asked, whatever happened to the tree before.                         *)
OncePerStart ==
  (stack = <<>> /\ outcome = "done") =>
    \A a \in Below[Universal] :
      Kind[a] = "leaf" =>
        /\ applied[a] >= 1
        /\ "onceperfunc" \in Flags[a] => applied[a] = 1

(* A request to restart is dropped only when the restarts are used up, and *)
(* there are never more.                                                   *)
RestartHonoured ==
  /\ restarts <= MaxRestarts
  /\ (stack = <<>> /\ outcome = "done" /\ pending["function"]) =>
       restarts = MaxRestarts

(* A perform returns, provided the changes a function admits are finite.   *)
PerformReturns == stack # <<>> ~> stack = <<>>
=============================================================================
