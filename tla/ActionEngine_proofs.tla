------------------------ MODULE ActionEngine_proofs ------------------------
(***************************************************************************)
(* Theorems about ActionEngine, for any trees of actions, rules and        *)
(* breakpoints: its types; a request to restart is dropped only when the   *)
(* restarts are used up; perform returns all the changes made in its       *)
(* action; a decompilation that returns has applied every leaf, and once   *)
(* those that are to be applied once; an action that is repeated until     *)
(* there is no change returns with nothing in it left to try.              *)
(***************************************************************************)
EXTENDS ActionEngine, TLAPS

Pcs == {"perform", "next", "returned", "applied", "staging"}
Frames == [action : Actions, old : Actions, pc : Pcs]
Statuses == {"start", "breakstarthit", "repeat", "mid", "end", "actionbreak"}
Settled == Actions \X (0 .. NumOps) \X Nat

(* TypeOK in parts, by what an action leaves alone.                        *)
CountsOK ==
  /\ count \in [Actions -> Nat] /\ lcount \in [Actions -> Nat]
  /\ breakpoint \in [Actions \cup Rules -> SUBSET BreakKinds]
  /\ state \in [Actions -> Nat \ {0}] /\ ruleIndex \in [Actions -> Nat]

StatusOK ==
  status \in [Actions -> Statuses] /\ curstart \in [Actions -> Nat \cup {-1}]

FunctionOK ==
  /\ code \in [Functions -> [1 .. NumOps -> Codes \cup Absent]]
  /\ pending \in [Functions -> BOOLEAN]
  /\ budget \in Nat

ClientOK ==
  /\ current \in Actions /\ tables \in Nat /\ performs \in Nat
  /\ outcome \in {"none", "done", "interrupted", "error"}

StackOK == stack \in Seq(Frames) /\ ret \in Nat \cup {-1}

GhostsOK ==
  /\ made \in [Actions -> Nat] /\ applied \in [Actions -> Nat]
  /\ settled \subseteq Settled
  /\ restarts \in Nat

Types == CountsOK /\ StatusOK /\ FunctionOK /\ ClientOK /\ StackOK /\ GhostsOK

LEMMA TypesTypeOK == Types => TypeOK
BY DEF Types, CountsOK, StatusOK, FunctionOK, ClientOK, StackOK, GhostsOK, TypeOK,
   Pcs, Frames, Statuses, Settled

LEMMA Assumed ==
  /\ Universal \in Actions /\ JumpTable \in Actions
  /\ Kind \in [Actions -> {"group", "restart", "pool", "leaf"}]
  /\ List \in [Actions -> Seq(Actions)]
  /\ MaxRestarts \in Nat /\ NumOps \in Nat /\ MaxChanges \in Nat
  /\ InitialCode \in [1 .. NumOps -> Codes \cup Absent]
BY ActionsAssumption DEF Absent

(* What the proofs need to know of the trees.                              *)
LEMMA Trees ==
  /\ Universal \in Below[Universal] /\ JumpTable \in Below[JumpTable]
  /\ Universal \notin Below[JumpTable] /\ Universal # JumpTable
  /\ JumpTable \notin Below[Universal]
  /\ Kind[Universal] = "restart"
  /\ \A a \in Actions : Kind[a] = "restart" => a \in {Universal, JumpTable}
  /\ \A a \in FollowsFlow : a \notin Below[JumpTable] /\ Kind[a] = "leaf"
  /\ \A a \in Actions, i \in Nat :
       i \in DOMAIN List[a] =>
         /\ List[a][i] \in Actions /\ List[a][i] \in Below[a]
         /\ List[a][i] # Universal
  /\ \A a \in Below[JumpTable] : Below[a] \subseteq Below[JumpTable]
<1>1. \A a \in Actions, i \in Nat :
        i \in DOMAIN List[a] => List[a][i] \in Actions
  BY ActionsAssumption
<1> QED BY <1>1, TreesAssumption, ActionsAssumption
-----------------------------------------------------------------------------
(* The shape of the stack.  A frame that has to put the current root back: *)
Catch(i) ==
  \/ stack[i].pc = "staging"
  \/ stack[i].pc = "returned" /\ Kind[stack[i].action] = "leaf"

(* The tree of the client is at the bottom, all but the top frame wait for *)
(* the one above them, and above a leaf that recovers a jump table there   *)
(* is nothing but the tree "jumptable".                                    *)
Shape ==
  /\ stack # <<>> => stack[1].action = Universal
  /\ \A i \in 1 .. Len(stack) : stack[i].action = Universal => i = 1
  /\ \A i \in 1 .. Len(stack) :
       i < Len(stack) =>
         stack[i].pc = "staging" \/ (stack[i].pc = "next" /\ IsGroup(stack[i].action))
  /\ \A i \in 1 .. Len(stack) :
       Catch(i) =>
         /\ stack[i].action \in FollowsFlow /\ stack[i].old = Universal
         /\ \A j \in 1 .. Len(stack) : j > i => stack[j].action \in Below[JumpTable]
  /\ (\A i \in 1 .. Len(stack) : ~Catch(i)) => current = Universal

(* The root of the client's tree.  It is through (curstart is -1) exactly  *)
(* when its apply has returned, and then nothing asks for a restart unless *)
(* the restarts are used up.                                               *)
Root ==
  /\ restarts <= MaxRestarts
  /\ curstart[Universal] # -1 => restarts = curstart[Universal]
  /\ curstart[Universal] = -1 /\ pending["function"] => restarts = MaxRestarts
  /\ Len(stack) > 1 => curstart[Universal] # -1
  /\ (Len(stack) = 1 /\ stack[1].pc \in {"next", "returned"}) =>
       curstart[Universal] # -1
  /\ (Len(stack) = 1 /\ stack[1].pc = "applied") => curstart[Universal] = -1
  /\ status[Universal] \in {"end", "actionbreak"} => curstart[Universal] = -1
  /\ (stack = <<>> /\ outcome = "done") => curstart[Universal] = -1

IInv == Types /\ Shape /\ Root

LEMMA IInvRestarts == IInv => RestartHonoured
BY DEF IInv, Root, RestartHonoured

LEMMA OneOrMore == \A k \in Nat : k >= 1 => (k > 1 <=> k # 1)
OBVIOUS

LEMMA EmptySequence == (\A S : <<>> \in Seq(S)) /\ Len(<<>>) = 0
OBVIOUS

LEMMA InitIInv == Init => IInv
<1> SUFFICES ASSUME Init PROVE IInv
  OBVIOUS
<1>1. stack = <<>> /\ Len(stack) = 0 /\ StackOK
  BY EmptySequence DEF Init, StackOK
<1>2. CountsOK /\ StatusOK
  <2>1. count \in [Actions -> Nat] /\ lcount \in [Actions -> Nat]
        /\ curstart \in [Actions -> Nat \cup {-1}]
    BY DEF Init
  <2>2. state \in [Actions -> Nat \ {0}] /\ ruleIndex \in [Actions -> Nat]
    BY DEF Init
  <2>3. breakpoint \in [Actions \cup Rules -> SUBSET BreakKinds]
    BY ActionsAssumption DEF Init
  <2>4. status \in [Actions -> Statuses]
    BY DEF Init, Statuses
  <2> QED BY <2>1, <2>2, <2>3, <2>4 DEF CountsOK, StatusOK
<1>3. FunctionOK /\ ClientOK /\ GhostsOK
  BY Assumed DEF Init, FunctionOK, ClientOK, GhostsOK
<1>4. Shape
  BY <1>1 DEF Init, Shape
<1>5. Root
  BY <1>1, Assumed DEF Init, Root
<1> QED BY <1>1, <1>2, <1>3, <1>4, <1>5 DEF IInv, Types
-----------------------------------------------------------------------------
(* The ways the stack changes.                                             *)
LEMMA UnderParts ==
  ASSUME StackOK, NEW k \in 1 .. Len(stack), NEW pc \in Pcs
  PROVE  /\ Under(k, pc) \in Seq(Frames)
         /\ Len(Under(k, pc)) = k /\ Under(k, pc) # <<>>
         /\ \A i \in 1 .. k - 1 : Under(k, pc)[i] = stack[i]
         /\ Under(k, pc)[k].action = stack[k].action
         /\ Under(k, pc)[k].pc = pc /\ Under(k, pc)[k].old = stack[k].old
<1>1. stack \in Seq(Frames) /\ Len(stack) \in Nat /\ k \in Nat /\ k >= 1
      /\ k <= Len(stack)
  BY DEF StackOK
<1> DEFINE s == SubSeq(stack, 1, k)
           f == Frame(stack[k].action, pc, stack[k].old)
<1>2. s \in Seq(Frames) /\ Len(s) = k /\ \A i \in 1 .. k : s[i] = stack[i]
  BY <1>1
<1>3. stack[k] \in Frames
  BY <1>1
<1>4. f \in Frames /\ f.pc = pc /\ f.action = stack[k].action /\ f.old = stack[k].old
  BY <1>3 DEF f, Frame, Frames
<1> HIDE DEF s, f
<1> DEFINE u == [s EXCEPT ![k] = f]
<1>5. u \in Seq(Frames) /\ Len(u) = k /\ u[k] = f /\ \A i \in 1 .. k - 1 : u[i] = s[i]
  BY <1>1, <1>2, <1>4
<1>6. u # <<>>
  BY <1>1, <1>5, EmptySequence
<1>7. Under(k, pc) = u
  BY DEF Under, u, s, f
<1> HIDE DEF u
<1> QED BY <1>1, <1>2, <1>4, <1>5, <1>6, <1>7

LEMMA GotoShape ==
  ASSUME StackOK, Shape, stack # <<>>, ~Catch(Len(stack)),
         NEW pc \in {"perform", "next", "applied"},
         stack' = Under(Len(stack), pc), current' = current
  PROVE  /\ Shape' /\ stack' \in Seq(Frames) /\ stack' # <<>>
         /\ Len(stack') = Len(stack) /\ stack'[Len(stack)].pc = pc
<1> DEFINE n == Len(stack)
<1>1. n \in 1 .. Len(stack) /\ n \in Nat /\ pc \in Pcs
  BY DEF StackOK, Pcs
<1>2. /\ stack' \in Seq(Frames) /\ Len(stack') = n /\ stack' # <<>>
      /\ \A i \in 1 .. n - 1 : stack'[i] = stack[i]
      /\ stack'[n].action = stack[n].action /\ stack'[n].pc = pc
  BY <1>1, UnderParts
<1>3. \A i \in 1 .. n : stack'[i].action = stack[i].action
  BY <1>1, <1>2
<1>4. \A i \in 1 .. n : Catch(i)' <=> Catch(i)
  <2> SUFFICES ASSUME NEW i \in 1 .. n PROVE Catch(i)' <=> Catch(i)
    OBVIOUS
  <2>1. CASE i = n
    BY <1>2, <2>1 DEF Catch
  <2>2. CASE i \in 1 .. n - 1
    BY <1>2, <2>2 DEF Catch
  <2> QED BY <1>1, <2>1, <2>2
<1>5. \A i \in 1 .. n : Catch(i) => i < n
  BY <1>1
<1> HIDE DEF n
<1>6. /\ stack'[1].action = Universal
      /\ \A i \in 1 .. n : stack'[i].action = Universal => i = 1
  BY <1>1, <1>3 DEF Shape, n
<1>7. \A i \in 1 .. n : i < n =>
        stack'[i].pc = "staging" \/ (stack'[i].pc = "next" /\ IsGroup(stack'[i].action))
  BY <1>1, <1>2 DEF Shape, n
<1>8. ASSUME NEW i \in 1 .. n, Catch(i)
      PROVE  /\ stack'[i].action \in FollowsFlow /\ stack'[i].old = Universal
             /\ \A j \in 1 .. n : j > i => stack'[j].action \in Below[JumpTable]
  <2>1. i \in 1 .. n - 1
    BY <1>1, <1>5, <1>8
  <2> QED BY <1>2, <1>3, <1>8, <2>1 DEF Shape, n
<1>9. (\A i \in 1 .. n : ~Catch(i)') => current' = Universal
  BY <1>4 DEF Shape, n
<1>10. Shape'
  BY <1>2, <1>4, <1>6, <1>7, <1>8, <1>9 DEF Shape
<1> QED BY <1>2, <1>10 DEF n

LEMMA ReturnShape ==
  ASSUME StackOK, Shape, stack # <<>>, ~Catch(Len(stack)), NEW r, Return(r)
  PROVE  /\ Shape' /\ stack' \in Seq(Frames)
         /\ Len(stack) = 1 => stack' = <<>>
         /\ Len(stack) > 1 => /\ stack' # <<>> /\ Len(stack') = Len(stack) - 1
                              /\ stack'[Len(stack) - 1].pc = "returned"
<1>1. Len(stack) \in Nat /\ Len(stack) >= 1
  BY DEF StackOK
<1>2. current' = current
  BY DEF Return
<1>3. CASE Len(stack) = 1
  <2>1. stack' = <<>> /\ Len(stack') = 0 /\ stack' \in Seq(Frames)
    BY <1>3, EmptySequence DEF Return
  <2>2. \A i \in 1 .. Len(stack) : ~Catch(i)
    BY <1>3
  <2>3. current = Universal
    BY <2>2 DEF Shape
  <2>4. Shape'
    BY <1>2, <2>1, <2>3 DEF Shape
  <2> QED BY <1>3, <2>1, <2>4
<1>4. CASE Len(stack) > 1
  <2> DEFINE n == Len(stack) - 1
  <2>1. n \in 1 .. Len(stack) /\ n \in Nat /\ n < Len(stack) /\ "returned" \in Pcs
    BY <1>1, <1>4 DEF Pcs
  <2>2. stack' = Under(n, "returned")
    <3>1. Len(stack) # 1
      BY <1>1, <1>4, OneOrMore
    <3> QED BY <3>1, Zenon DEF Return
  <2>3. /\ stack' \in Seq(Frames) /\ Len(stack') = n /\ stack' # <<>>
        /\ \A i \in 1 .. n - 1 : stack'[i] = stack[i]
        /\ stack'[n].action = stack[n].action /\ stack'[n].pc = "returned"
        /\ stack'[n].old = stack[n].old
    BY <2>1, <2>2, UnderParts
  <2>4. stack[n].pc = "staging" \/ (stack[n].pc = "next" /\ IsGroup(stack[n].action))
    BY <2>1 DEF Shape
  <2>5. \A i \in 1 .. n : /\ stack'[i].action = stack[i].action
                          /\ stack'[i].old = stack[i].old
    BY <2>1, <2>3
  <2>6. \A i \in 1 .. n : i = n => (Catch(i)' <=> Catch(i))
    <3>1. CASE stack[n].pc = "staging"
      <4>1. \A i \in 1 .. n : i = n => Catch(i)
        BY <3>1 DEF Catch
      <4>2. Kind[stack[n].action] = "leaf"
        BY <2>1, <4>1, Trees DEF Shape
      <4> QED BY <2>3, <4>1, <4>2 DEF Catch
    <3>2. CASE stack[n].pc = "next" /\ IsGroup(stack[n].action)
      BY <2>3, <3>2 DEF Catch, IsGroup
    <3> QED BY <2>4, <3>1, <3>2
  <2>7. \A i \in 1 .. n : Catch(i)' <=> Catch(i)
    <3> SUFFICES ASSUME NEW i \in 1 .. n PROVE Catch(i)' <=> Catch(i)
      OBVIOUS
    <3>1. CASE i = n
      BY <2>6, <3>1
    <3>2. CASE i \in 1 .. n - 1
      BY <2>3, <3>2 DEF Catch
    <3> QED BY <2>1, <3>1, <3>2
  <2>8. (\A i \in 1 .. n : ~Catch(i)) => current = Universal
    <3> SUFFICES ASSUME \A i \in 1 .. n : ~Catch(i) PROVE current = Universal
      OBVIOUS
    <3>1. \A i \in 1 .. Len(stack) : i \in 1 .. n \/ i = Len(stack)
      BY <1>1
    <3> QED BY <3>1 DEF Shape
  <2>9. \A i \in 1 .. n : i \in 1 .. Len(stack)
    BY <1>1
  <2> HIDE DEF n
  <2>10. /\ stack'[1].action = Universal
         /\ \A i \in 1 .. n : stack'[i].action = Universal => i = 1
    BY <2>1, <2>5, <2>9 DEF Shape
  <2>11. \A i \in 1 .. n : i < n =>
           stack'[i].pc = "staging" \/ (stack'[i].pc = "next" /\ IsGroup(stack'[i].action))
    <3> SUFFICES ASSUME NEW i \in 1 .. n, i < n
                 PROVE  stack'[i].pc = "staging"
                        \/ (stack'[i].pc = "next" /\ IsGroup(stack'[i].action))
      OBVIOUS
    <3>1. i \in 1 .. n - 1 /\ i < Len(stack)
      BY <2>1
    <3> QED BY <2>3, <2>9, <3>1 DEF Shape
  <2>12. ASSUME NEW i \in 1 .. n, Catch(i)
         PROVE  /\ stack'[i].action \in FollowsFlow /\ stack'[i].old = Universal
                /\ \A j \in 1 .. n : j > i => stack'[j].action \in Below[JumpTable]
    BY <2>5, <2>9, <2>12 DEF Shape
  <2>13. Shape'
    BY <1>2, <2>3, <2>7, <2>8, <2>10, <2>11, <2>12 DEF Shape
  <2> QED BY <1>4, <2>3, <2>13 DEF n
<1>5. Len(stack) = 1 \/ Len(stack) > 1
  BY <1>1, OneOrMore
<1> QED BY <1>3, <1>4, <1>5

(* A member of a group is called, or the root by its client.               *)
LEMMA CallShape ==
  ASSUME StackOK, ClientOK, Shape, NEW a \in Actions, Call(a), current' = current,
         \/ stack = <<>> /\ a = Universal
         \/ /\ stack # <<>> /\ Top.pc = "next" /\ IsGroup(This)
            /\ a # Universal /\ a \in Below[This]
  PROVE  /\ Shape' /\ stack' \in Seq(Frames) /\ stack' # <<>>
         /\ Len(stack') = Len(stack) + 1 /\ stack'[Len(stack) + 1].pc = "perform"
<1> DEFINE n == Len(stack)
           f == Frame(a, "perform", current)
<1>1. stack \in Seq(Frames) /\ n \in Nat /\ (stack = <<>> => n = 0)
  BY EmptySequence DEF StackOK
<1>2. f \in Frames /\ f.action = a /\ f.pc = "perform"
  BY DEF Frame, Frames, Pcs, ClientOK
<1> HIDE DEF f
<1>3. /\ stack' \in Seq(Frames) /\ Len(stack') = n + 1 /\ stack'[n + 1] = f
      /\ \A i \in 1 .. n : stack'[i] = stack[i]
  BY <1>1, <1>2 DEF Call, f
<1>4. stack' # <<>>
  BY <1>1, <1>3, EmptySequence
<1>5. \A i \in 1 .. n : Catch(i)' <=> Catch(i)
  BY <1>3 DEF Catch
<1>6. \A i \in 1 .. n + 1 : i = n + 1 => ~Catch(i)'
  BY <1>2, <1>3 DEF Catch
<1>7. \A i \in 1 .. n + 1 : i \in 1 .. n \/ i = n + 1
  BY <1>1
<1>8. stack = <<>> \/ (n \in 1 .. n /\ stack[n] = Top)
  BY <1>1 DEF Top
<1> HIDE DEF n
<1>9. /\ stack'[1].action = Universal
      /\ \A i \in 1 .. n + 1 : stack'[i].action = Universal => i = 1
  <2>1. CASE stack = <<>>
    BY <1>1, <1>2, <1>3, <2>1
  <2>2. CASE stack # <<>>
    <3>1. stack[1].action = Universal /\ 1 \in 1 .. n
      BY <1>1, <1>8, <2>2 DEF Shape
    <3>2. \A i \in 1 .. n : stack'[i].action = Universal => i = 1
      BY <1>3 DEF Shape, n
    <3>3. stack'[n + 1].action # Universal
      BY <1>2, <1>3, <2>2
    <3> QED BY <1>3, <1>7, <3>1, <3>2, <3>3
  <2> QED BY <2>1, <2>2
<1>10. \A i \in 1 .. n + 1 : i < n + 1 =>
         stack'[i].pc = "staging" \/ (stack'[i].pc = "next" /\ IsGroup(stack'[i].action))
  <2> SUFFICES ASSUME NEW i \in 1 .. n
               PROVE  stack'[i].pc = "staging"
                      \/ (stack'[i].pc = "next" /\ IsGroup(stack'[i].action))
    BY <1>1, <1>7
  <2>1. CASE i < n
    BY <1>3, <2>1 DEF Shape, n
  <2>2. CASE i = n
    BY <1>1, <1>3, <1>8, <2>2 DEF This
  <2> QED BY <1>1, <2>1, <2>2
<1>11. ASSUME NEW i \in 1 .. n + 1, Catch(i)'
       PROVE  /\ stack'[i].action \in FollowsFlow /\ stack'[i].old = Universal
              /\ \A j \in 1 .. n + 1 : j > i => stack'[j].action \in Below[JumpTable]
  <2>1. i \in 1 .. n /\ Catch(i) /\ stack # <<>>
    BY <1>1, <1>5, <1>6, <1>7, <1>11
  <2>2. /\ stack[i].action \in FollowsFlow /\ stack[i].old = Universal
        /\ \A j \in 1 .. n : j > i => stack[j].action \in Below[JumpTable]
    BY <2>1 DEF Shape, n
  <2>3. i # n
    BY <1>8, <2>1 DEF Catch
  <2>4. This \in Below[JumpTable]
    BY <1>1, <1>8, <2>1, <2>2, <2>3 DEF This
  <2>5. a \in Below[JumpTable]
    BY <2>1, <2>4, Trees
  <2> QED BY <1>2, <1>3, <1>7, <2>1, <2>2, <2>5
<1>12. (\A i \in 1 .. n + 1 : ~Catch(i)') => current' = Universal
  BY <1>1, <1>5 DEF Shape, n
<1>13. Shape'
  BY <1>3, <1>9, <1>10, <1>11, <1>12 DEF Shape
<1> QED BY <1>2, <1>3, <1>4, <1>13 DEF n
-----------------------------------------------------------------------------
(* The frame on top.                                                       *)
LEMMA Here ==
  ASSUME IInv, stack # <<>>
  PROVE  /\ Len(stack) \in 1 .. Len(stack) /\ Len(stack) \in Nat
         /\ stack[Len(stack)] = Top /\ Top \in Frames /\ This \in Actions
         /\ This = Universal <=> Len(stack) = 1
         /\ Len(stack) > 1 <=> Len(stack) # 1
         /\ Top.pc \in {"perform", "next", "applied"} => ~Catch(Len(stack))
         /\ IsGroup(This) => (Catch(Len(stack)) <=> Top.pc = "staging")
<1>1. stack \in Seq(Frames) /\ Len(stack) \in Nat /\ Len(stack) >= 1
  BY DEF IInv, Types, StackOK
<1>2. Len(stack) \in 1 .. Len(stack) /\ stack[Len(stack)] = Top /\ Top \in Frames
  BY <1>1 DEF Top
<1>3. This \in Actions
  BY <1>2 DEF This, Frames
<1>4. This = Universal <=> Len(stack) = 1
  BY <1>2 DEF IInv, Shape, This
<1>5. Len(stack) > 1 <=> Len(stack) # 1
  BY <1>1, OneOrMore
<1>6. Top.pc \in {"perform", "next", "applied"} => ~Catch(Len(stack))
  BY <1>2 DEF Catch
<1>7. IsGroup(This) => (Catch(Len(stack)) <=> Top.pc = "staging")
  BY <1>2 DEF Catch, IsGroup, This
<1> QED BY <1>1, <1>2, <1>3, <1>4, <1>5, <1>6, <1>7

(* What a step that is no restart may do to the root's tree.               *)
RootStep ==
  /\ restarts' = restarts
  /\ Len(stack) > 1 =>
       /\ curstart'[Universal] = curstart[Universal]
       /\ status'[Universal] = status[Universal]
  /\ Len(stack) = 1 =>
       /\ curstart'[Universal] # -1 => restarts = curstart'[Universal]
       /\ (curstart'[Universal] = -1 /\ pending'["function"]) => restarts = MaxRestarts
       /\ status'[Universal] \in {"end", "actionbreak"} => curstart'[Universal] = -1

LEMMA GoingKeeps ==
  ASSUME IInv, stack # <<>>, ~Catch(Len(stack)), NEW pc \in {"perform", "next", "applied"},
         Going(pc), CountsOK', StatusOK', FunctionOK', GhostsOK', RootStep,
         Len(stack) = 1 => /\ pc = "next" => curstart'[Universal] # -1
                           /\ pc = "applied" => curstart'[Universal] = -1
  PROVE  IInv'
<1>1. stack' = Under(Len(stack), pc) /\ UNCHANGED <<current, outcome, tables, performs, ret>>
  BY DEF Going, Goto, client
<1>2. /\ Shape' /\ stack' \in Seq(Frames) /\ stack' # <<>>
      /\ Len(stack') = Len(stack) /\ stack'[Len(stack)].pc = pc
  BY <1>1, GotoShape DEF IInv, Types
<1>3. Types'
  BY <1>1, <1>2 DEF IInv, Types, ClientOK, StackOK
<1>4. Len(stack) = 1 \/ Len(stack) > 1
  BY Here
<1>5. Root'
  <2>1. CASE Len(stack) = 1
    <3>1. Len(stack') = 1 /\ stack'[1].pc = pc /\ ~(Len(stack') > 1)
      BY <1>2, <2>1
    <3> QED BY <1>2, <2>1, <3>1 DEF Root, RootStep, IInv
  <2>2. CASE Len(stack) > 1
    <3>1. Len(stack') > 1 /\ Len(stack') # 1
      BY <1>2, <2>2, Here
    <3> QED BY <1>2, <2>2, <3>1 DEF Root, RootStep, IInv
  <2> QED BY <1>4, <2>1, <2>2
<1> QED BY <1>2, <1>3, <1>5 DEF IInv

LEMMA ReturnKeeps ==
  ASSUME IInv, stack # <<>>, ~Catch(Len(stack)), NEW r \in Nat \cup {-1},
         Return(r), CountsOK', StatusOK', FunctionOK', GhostsOK', RootStep,
         Len(stack) = 1 /\ r # -1 => curstart'[Universal] = -1
  PROVE  IInv'
<1>1. /\ Shape' /\ stack' \in Seq(Frames)
      /\ Len(stack) = 1 => stack' = <<>>
      /\ Len(stack) > 1 => /\ stack' # <<>> /\ Len(stack') = Len(stack) - 1
                           /\ stack'[Len(stack) - 1].pc = "returned"
  BY ReturnShape DEF IInv, Types
<1>2. /\ UNCHANGED <<current, tables, performs>> /\ ret' = r
      /\ outcome' \in {"none", "done", "interrupted", "error"}
      /\ Len(stack) = 1 => (outcome' = "done" => r # -1)
  <2>1. r < 0 <=> r = -1
    OBVIOUS
  <2> QED BY <2>1 DEF Return, IInv, Types, ClientOK
<1>3. Types'
  BY <1>1, <1>2 DEF IInv, Types, ClientOK, StackOK
<1>4. Len(stack) = 1 \/ Len(stack) > 1
  BY Here
<1>5. Root'
  <2>1. CASE Len(stack) = 1
    <3>1. stack' = <<>> /\ Len(stack') = 0
      BY <1>1, <2>1, EmptySequence
    <3> QED BY <1>2, <2>1, <3>1 DEF Root, RootStep, IInv
  <2>2. CASE Len(stack) > 1
    <3>1. curstart[Universal] # -1 /\ restarts' <= MaxRestarts
      BY <2>2 DEF Root, RootStep, IInv
    <3>2. Len(stack') = 1 => stack'[1].pc = "returned"
      BY <1>1, <2>2, Here
    <3>3. curstart'[Universal] # -1 /\ restarts' = curstart'[Universal]
          /\ status'[Universal] \notin {"end", "actionbreak"}
      BY <2>2, <3>1 DEF Root, RootStep, IInv
    <3> QED BY <1>1, <2>2, <3>1, <3>2, <3>3 DEF Root
  <2> QED BY <1>4, <2>1, <2>2
<1> QED BY <1>1, <1>3, <1>5 DEF IInv

(* A step inside an action, which leaves the stack as it is.               *)
LEMMA InsideKeeps ==
  ASSUME IInv, stack # <<>>, UNCHANGED <<stack, ret, client>>,
         CountsOK', StatusOK', FunctionOK', GhostsOK', RootStep,
         Len(stack) = 1 => curstart'[Universal] = curstart[Universal]
  PROVE  IInv'
<1>1. UNCHANGED <<stack, ret, current, outcome, tables, performs>>
  BY DEF client
<1>2. Types'
  BY <1>1 DEF IInv, Types, ClientOK, StackOK
<1>3. Shape'
  BY <1>1 DEF IInv, Shape, Catch
<1>4. Len(stack) = 1 \/ Len(stack) > 1
  BY Here
<1>5. Root'
  <2>1. CASE Len(stack) = 1
    BY <1>1, <2>1 DEF Root, RootStep, IInv
  <2>2. CASE Len(stack) > 1
    <3>1. Len(stack) # 1
      BY <2>2, Here
    <3> QED BY <1>1, <2>2, <3>1 DEF Root, RootStep, IInv
  <2> QED BY <1>4, <2>1, <2>2
<1> QED BY <1>2, <1>3, <1>5 DEF IInv
-----------------------------------------------------------------------------
(* perform.                                                                *)
LEMMA Opened ==
  ASSUME IInv, NEW o \in Nat \ {0}, NEW f
  PROVE  \A p \in OpFrom(o, f) : p \in Nat \ {0}
BY Assumed DEF OpFrom

LEMMA EnteringCounts ==
  ASSUME IInv, Entering(This), This \in Actions
  PROVE  /\ state' \in [Actions -> Nat \ {0}] /\ ruleIndex' \in [Actions -> Nat]
<1>1. state \in [Actions -> Nat \ {0}] /\ ruleIndex \in [Actions -> Nat]
  BY DEF IInv, Types, CountsOK
<1>2. \A p \in First(This) : p \in Nat \ {0}
  <2>1. \A p \in OpFrom(1, Data(This)) : p \in Nat \ {0}
    BY Opened
  <2> QED BY <2>1 DEF First
<1> QED BY <1>1, <1>2 DEF Entering

LEMMA EnteringKeeps ==
  ASSUME IInv, At("perform"), Entering(This), UNCHANGED <<status, breakpoint>>,
         count' \in [Actions -> Nat], lcount' \in [Actions -> Nat],
         made' \in [Actions -> Nat]
  PROVE  IInv'
<1> DEFINE pc == IF Kind[This] = "restart" /\ curstart[This] = -1
                 THEN "applied" ELSE "next"
<1>1. stack # <<>> /\ Top.pc = "perform" /\ Going(pc)
      /\ UNCHANGED <<curstart, code, pending, budget, settled, applied, restarts>>
  BY DEF At, Entering, function
<1>2. This \in Actions /\ ~Catch(Len(stack))
  BY <1>1, Here
<1>3. CountsOK'
  BY <1>2, EnteringCounts DEF IInv, Types, CountsOK
<1>4. StatusOK' /\ FunctionOK' /\ GhostsOK'
  BY <1>1 DEF IInv, Types, StatusOK, FunctionOK, GhostsOK
<1>5. RootStep
  BY <1>1 DEF RootStep, IInv, Root
<1>6. Len(stack) = 1 => /\ pc = "next" => curstart'[Universal] # -1
                        /\ pc = "applied" => curstart'[Universal] = -1
  BY <1>1, Here, Trees
<1>7. pc \in {"perform", "next", "applied"}
  OBVIOUS
<1> HIDE DEF pc
<1> QED BY <1>1, <1>2, <1>3, <1>4, <1>5, <1>6, <1>7, GoingKeeps

LEMMA StartKeeps == IInv /\ (Start \/ Repeat \/ Resume) => IInv'
<1> SUFFICES ASSUME IInv, Start \/ Repeat \/ Resume PROVE IInv'
  OBVIOUS
<1>1. At("perform") /\ Entering(This) /\ UNCHANGED <<status, breakpoint>>
  BY DEF Start, Beginning, Repeat, Resume
<1>2. This \in Actions
  BY <1>1, Here DEF At
<1>3. count \in [Actions -> Nat] /\ lcount \in [Actions -> Nat] /\ made \in [Actions -> Nat]
  BY DEF IInv, Types, CountsOK, GhostsOK
<1>4. count' \in [Actions -> Nat] /\ made' \in [Actions -> Nat]
  BY <1>3 DEF Start, Beginning, Repeat, Resume
<1>5. lcount' \in [Actions -> Nat]
  BY <1>2, <1>3 DEF Start, Beginning, Repeat, Resume
<1> QED BY <1>1, <1>4, <1>5, EnteringKeeps

(* What checkStartBreak and checkActionBreak leave of the breakpoints.     *)
LEMMA TrippedType ==
  ASSUME IInv, NEW x, NEW kinds
  PROVE  Tripped(x, kinds) \in [Actions \cup Rules -> SUBSET BreakKinds]
BY DEF Tripped, IInv, Types, CountsOK

(* A new status of the action on top.                                      *)
LEMMA StatusSet ==
  ASSUME IInv, This \in Actions, NEW v \in Statuses,
         status' = [status EXCEPT ![This] = v]
  PROVE  /\ status' \in [Actions -> Statuses]
         /\ This = Universal => status'[Universal] = v
         /\ This # Universal => status'[Universal] = status[Universal]
BY Assumed DEF IInv, Types, StatusOK

LEMMA StartBreakKeeps == IInv /\ StartBreak => IInv'
<1> SUFFICES ASSUME IInv, StartBreak PROVE IInv'
  OBVIOUS
<1>1. /\ stack # <<>> /\ Top.pc = "perform" /\ Return(-1)
      /\ breakpoint' = Tripped(This, OnStart)
      /\ status' = [status EXCEPT ![This] = "breakstarthit"]
      /\ count' = [count EXCEPT ![This] = 0] /\ made' = [made EXCEPT ![This] = 0]
      /\ UNCHANGED <<lcount, state, ruleIndex, curstart, code, pending, budget,
                     settled, applied, restarts>>
  BY DEF StartBreak, Beginning, At, function
<1>2. This \in Actions /\ ~Catch(Len(stack))
  BY <1>1, Here
<1>3. /\ status' \in [Actions -> Statuses]
      /\ This = Universal => status'[Universal] = "breakstarthit"
      /\ This # Universal => status'[Universal] = status[Universal]
  BY <1>1, <1>2, StatusSet DEF Statuses
<1>4. CountsOK'
  <2>1. count' \in [Actions -> Nat]
    BY <1>1 DEF IInv, Types, CountsOK
  <2> QED BY <1>1, <2>1, TrippedType DEF IInv, Types, CountsOK
<1>5. StatusOK' /\ FunctionOK'
  BY <1>1, <1>3 DEF IInv, Types, StatusOK, FunctionOK
<1>6. GhostsOK'
  <2>1. made' \in [Actions -> Nat]
    BY <1>1 DEF IInv, Types, GhostsOK
  <2> QED BY <1>1, <2>1 DEF IInv, Types, GhostsOK
<1>7. RootStep
  BY <1>1, <1>3, Here DEF RootStep, IInv, Root
<1> QED BY <1>1, <1>2, <1>4, <1>5, <1>6, <1>7, ReturnKeeps

LEMMA EndedKeeps == IInv /\ Ended => IInv'
<1> SUFFICES ASSUME IInv, Ended PROVE IInv'
  OBVIOUS
<1>1. /\ stack # <<>> /\ Top.pc = "perform" /\ status[This] = "end" /\ Return(0)
      /\ UNCHANGED <<count, lcount, breakpoint, state, ruleIndex, status, curstart,
                     code, pending, budget, made, settled, applied, restarts>>
  BY DEF Ended, At, fields, function, ghosts
<1>2. ~Catch(Len(stack))
  BY <1>1, Here
<1>3. CountsOK' /\ StatusOK' /\ FunctionOK' /\ GhostsOK'
  BY <1>1 DEF IInv, Types, CountsOK, StatusOK, FunctionOK, GhostsOK
<1>4. RootStep
  BY <1>1 DEF RootStep, IInv, Root
<1>5. Len(stack) = 1 => curstart'[Universal] = -1
  BY <1>1, Here DEF IInv, Root
<1> QED BY <1>1, <1>2, <1>3, <1>4, <1>5, ReturnKeeps

(* When an apply has returned, or the action goes on after its breakpoint. *)
LEMMA AppliedOnceRoot ==
  ASSUME IInv, AppliedOnce
  PROVE  /\ stack # <<>> /\ This \in Actions /\ ~Catch(Len(stack))
         /\ Len(stack) = 1 => curstart[Universal] = -1
<1>1. stack # <<>> /\ Top.pc \in {"applied", "perform"}
      /\ (Top.pc = "applied" \/ status[This] = "actionbreak")
  BY DEF AppliedOnce, At
<1>2. Len(stack) = 1 => Top = stack[1] /\ This = Universal
  BY <1>1, Here DEF Top
<1>3. Len(stack) = 1 => curstart[Universal] = -1
  BY <1>1, <1>2 DEF IInv, Root
<1> QED BY <1>1, <1>3, Here

LEMMA ActionBreakKeeps == IInv /\ ActionBreak => IInv'
<1> SUFFICES ASSUME IInv, ActionBreak PROVE IInv'
  OBVIOUS
<1>1. /\ stack # <<>> /\ Top.pc = "applied" /\ Return(-1)
      /\ breakpoint' = Tripped(This, OnAction)
      /\ status' = [status EXCEPT ![This] = "actionbreak"]
      /\ UNCHANGED <<count, lcount, state, ruleIndex, curstart, code, pending, budget,
                     made, settled, applied, restarts>>
  BY DEF ActionBreak, At, function, ghosts
<1>2. This \in Actions /\ ~Catch(Len(stack))
  BY <1>1, Here
<1>3. /\ status' \in [Actions -> Statuses]
      /\ This # Universal => status'[Universal] = status[Universal]
  BY <1>1, <1>2, StatusSet DEF Statuses
<1>4. CountsOK'
  BY <1>1, TrippedType DEF IInv, Types, CountsOK
<1>5. StatusOK' /\ FunctionOK' /\ GhostsOK'
  BY <1>1, <1>3 DEF IInv, Types, StatusOK, FunctionOK, GhostsOK
<1>6. Len(stack) = 1 => curstart[Universal] = -1
  <2>1. Len(stack) = 1 => stack[1].pc = "applied"
    BY <1>1 DEF Top
  <2> QED BY <2>1 DEF IInv, Root
<1>7. RootStep
  BY <1>1, <1>3, <1>6, Here DEF RootStep, IInv, Root
<1> QED BY <1>1, <1>2, <1>4, <1>5, <1>7, ReturnKeeps

LEMMA LoopKeeps == IInv /\ Loop => IInv'
<1> SUFFICES ASSUME IInv, Loop PROVE IInv'
  OBVIOUS
<1>1. /\ AppliedOnce /\ Going("perform")
      /\ status' = [status EXCEPT ![This] = "repeat"]
      /\ UNCHANGED <<count, lcount, breakpoint, state, ruleIndex, curstart, code,
                     pending, budget, made, settled, applied, restarts>>
  BY DEF Loop, function, ghosts
<1>2. stack # <<>> /\ This \in Actions /\ ~Catch(Len(stack))
  BY <1>1, AppliedOnceRoot
<1>3. /\ status' \in [Actions -> Statuses]
      /\ This = Universal => status'[Universal] = "repeat"
      /\ This # Universal => status'[Universal] = status[Universal]
  BY <1>1, <1>2, StatusSet DEF Statuses
<1>4. CountsOK' /\ StatusOK' /\ FunctionOK' /\ GhostsOK'
  BY <1>1, <1>3 DEF IInv, Types, CountsOK, StatusOK, FunctionOK, GhostsOK
<1>5. RootStep
  BY <1>1, <1>2, <1>3, Here DEF RootStep, IInv, Root
<1> QED BY <1>1, <1>2, <1>4, <1>5, GoingKeeps

LEMMA FinishKeeps == IInv /\ Finish => IInv'
<1> SUFFICES ASSUME IInv, Finish PROVE IInv'
  OBVIOUS
<1> DEFINE v == IF "onceperfunc" \in Flags[This] THEN "end" ELSE "start"
<1>1. /\ AppliedOnce /\ Return(count[This])
      /\ status' = [status EXCEPT ![This] = v]
      /\ UNCHANGED <<count, lcount, breakpoint, state, ruleIndex, curstart, code,
                     pending, budget, made, settled, applied, restarts>>
  BY DEF Finish, function, ghosts
<1>2. v \in Statuses
  BY DEF Statuses
<1> HIDE DEF v
<1>3. /\ stack # <<>> /\ This \in Actions /\ ~Catch(Len(stack))
      /\ Len(stack) = 1 => curstart[Universal] = -1
  BY <1>1, AppliedOnceRoot
<1>4. /\ status' \in [Actions -> Statuses]
      /\ This # Universal => status'[Universal] = status[Universal]
  BY <1>1, <1>2, <1>3, StatusSet
<1>5. CountsOK' /\ StatusOK' /\ FunctionOK' /\ GhostsOK'
  BY <1>1, <1>4 DEF IInv, Types, CountsOK, StatusOK, FunctionOK, GhostsOK
<1>6. RootStep
  BY <1>1, <1>3, <1>4, Here DEF RootStep, IInv, Root
<1>7. count[This] \in Nat
  BY <1>3 DEF IInv, Types, CountsOK
<1>8. Len(stack) = 1 => curstart'[Universal] = -1
  BY <1>1, <1>3
<1> QED BY <1>1, <1>3, <1>5, <1>6, <1>7, <1>8, ReturnKeeps
-----------------------------------------------------------------------------
(* apply, of a group.                                                      *)
LEMMA GroupNextKeeps == IInv /\ GroupNext => IInv'
<1> SUFFICES ASSUME IInv, GroupNext PROVE IInv'
  OBVIOUS
<1> DEFINE a == List[This][state[This]]
<1>1. /\ stack # <<>> /\ Top.pc = "next" /\ IsGroup(This) /\ Call(a)
      /\ state[This] <= Len(List[This])
      /\ UNCHANGED <<status, count, lcount, breakpoint, state, ruleIndex, curstart,
                     code, pending, budget, current, outcome, tables, performs, ret,
                     made, settled, applied, restarts>>
  BY DEF GroupNext, At, fields, function, client, ghosts
<1>2. This \in Actions
  BY <1>1, Here
<1>3. a \in Actions /\ a \in Below[This] /\ a # Universal
  <2>1. state[This] \in Nat /\ state[This] >= 1
    BY <1>2 DEF IInv, Types, CountsOK
  <2>2. List[This] \in Seq(Actions)
    BY <1>2, Assumed
  <2>3. state[This] \in DOMAIN List[This]
    BY <1>1, <2>1, <2>2
  <2> QED BY <1>2, <2>1, <2>3, Trees
<1> HIDE DEF a
<1>4. /\ Shape' /\ stack' \in Seq(Frames) /\ stack' # <<>>
      /\ Len(stack') = Len(stack) + 1
  BY <1>1, <1>3, CallShape DEF IInv, Types
<1>5. Types'
  BY <1>1, <1>4 DEF IInv, Types, CountsOK, StatusOK, FunctionOK, GhostsOK, ClientOK,
     StackOK
<1>6. curstart[Universal] # -1
  <2>1. Len(stack) = 1 => stack[1].pc = "next"
    BY <1>1 DEF Top
  <2>2. Len(stack) = 1 \/ Len(stack) > 1
    BY <1>1, Here
  <2> QED BY <2>1, <2>2 DEF IInv, Root
<1>7. Root'
  <2>1. Len(stack') # 1
    BY <1>1, <1>4, Here
  <2>2. /\ restarts <= MaxRestarts /\ restarts = curstart[Universal]
        /\ status[Universal] \notin {"end", "actionbreak"}
    BY <1>6 DEF IInv, Root
  <2> QED BY <1>1, <1>4, <1>6, <2>1, <2>2 DEF Root
<1> QED BY <1>4, <1>5, <1>7 DEF IInv

(* When the root is on top, within its apply.                              *)
LEMMA RootOpen ==
  ASSUME IInv, stack # <<>>, Top.pc \in {"next", "returned"}
  PROVE  curstart[Universal] # -1
<1>1. Len(stack) = 1 => stack[1].pc \in {"next", "returned"}
  BY DEF Top
<1>2. Len(stack) = 1 \/ Len(stack) > 1
  BY Here
<1> QED BY <1>1, <1>2 DEF IInv, Root

(* Partial, with the fields it leaves to the action around it.             *)
LEMMA PartialKeeps ==
  ASSUME IInv, stack # <<>>, ~Catch(Len(stack)), Partial(This), CountsOK',
         FunctionOK', GhostsOK',
         UNCHANGED <<curstart, restarts>>, Len(stack) # 1 \/ pending' = pending
  PROVE  IInv'
<1>1. Return(-1) /\ status' = [status EXCEPT ![This] = "mid"] /\ This \in Actions
  BY Here DEF Partial
<1>2. /\ status' \in [Actions -> Statuses]
      /\ This = Universal => status'[Universal] = "mid"
      /\ This # Universal => status'[Universal] = status[Universal]
  BY <1>1, StatusSet DEF Statuses
<1>3. StatusOK'
  BY <1>2 DEF IInv, Types, StatusOK
<1>4. RootStep
  BY <1>2, Here DEF RootStep, IInv, Root
<1> QED BY <1>1, <1>3, <1>4, ReturnKeeps

LEMMA GroupMemberKeeps == IInv /\ GroupMember => IInv'
<1> SUFFICES ASSUME IInv, GroupMember PROVE IInv'
  OBVIOUS
<1>1. /\ stack # <<>> /\ Top.pc = "returned" /\ IsGroup(This) /\ ret >= 0
      /\ count' = [count EXCEPT ![This] = @ + ret]
      /\ state' = [state EXCEPT ![This] = @ + 1]
      /\ UNCHANGED <<lcount, ruleIndex, curstart, code, pending, budget, made, settled,
                     applied, restarts>>
  BY DEF GroupMember, At, function, ghosts
<1>2. This \in Actions /\ ~Catch(Len(stack)) /\ curstart[Universal] # -1
  BY <1>1, Here, RootOpen
<1>3. count' \in [Actions -> Nat]
  <2>1. ret \in Nat /\ count \in [Actions -> Nat]
    BY <1>1 DEF IInv, Types, StackOK, CountsOK
  <2>2. count[This] + ret \in Nat
    BY <1>2, <2>1
  <2> QED BY ONLY <1>1, <1>2, <2>1, <2>2
<1>4. state' \in [Actions -> Nat \ {0}]
  <2>1. state \in [Actions -> Nat \ {0}]
    BY DEF IInv, Types, CountsOK
  <2>2. state[This] + 1 \in Nat \ {0}
    BY <1>2, <2>1
  <2> QED BY ONLY <1>1, <1>2, <2>1, <2>2
<1>5. FunctionOK' /\ GhostsOK'
  BY <1>1 DEF IInv, Types, FunctionOK, GhostsOK
<1>6. CASE breakpoint' = Tripped(This, OnAction) /\ Partial(This)
  <2>1. CountsOK'
    BY <1>1, <1>3, <1>4, <1>6, TrippedType DEF IInv, Types, CountsOK
  <2> QED BY <1>1, <1>2, <1>5, <1>6, <2>1, PartialKeeps
<1>7. CASE Going("next") /\ UNCHANGED <<breakpoint, status>>
  <2>1. CountsOK' /\ StatusOK'
    BY <1>1, <1>3, <1>4, <1>7 DEF IInv, Types, CountsOK, StatusOK
  <2>2. RootStep
    BY <1>1, <1>7 DEF RootStep, IInv, Root
  <2>3. curstart'[Universal] # -1
    BY <1>1, <1>2
  <2> QED BY <1>1, <1>2, <1>5, <1>7, <2>1, <2>2, <2>3, GoingKeeps
<1> QED BY <1>6, <1>7 DEF GroupMember

LEMMA GroupPartialKeeps == IInv /\ GroupPartial => IInv'
<1> SUFFICES ASSUME IInv, GroupPartial PROVE IInv'
  OBVIOUS
<1>1. /\ stack # <<>> /\ Top.pc = "returned" /\ IsGroup(This) /\ Partial(This)
      /\ UNCHANGED <<count, lcount, breakpoint, state, ruleIndex, curstart, code,
                     pending, budget, made, settled, applied, restarts>>
  BY DEF GroupPartial, At, function, ghosts
<1>2. ~Catch(Len(stack))
  BY <1>1, Here
<1>3. CountsOK' /\ FunctionOK' /\ GhostsOK'
  BY <1>1 DEF IInv, Types, CountsOK, FunctionOK, GhostsOK
<1> QED BY <1>1, <1>2, <1>3, PartialKeeps

LEMMA GroupDoneKeeps == IInv /\ (GroupDone \/ NoRestartInRecovery \/ PoolDone) => IInv'
<1> SUFFICES ASSUME IInv, GroupDone \/ NoRestartInRecovery \/ PoolDone PROVE IInv'
  OBVIOUS
<1>1. /\ stack # <<>> /\ Top.pc = "next" /\ Going("applied")
      /\ UNCHANGED <<status, count, lcount, breakpoint, state, ruleIndex, curstart,
                     code, pending, budget, made, settled, applied, restarts>>
  BY DEF GroupDone, NoRestartInRecovery, PoolDone, RestartWanted, AtEnd, In, At,
     fields, function, ghosts
<1>2. ~Catch(Len(stack))
  BY <1>1, Here
<1>3. Len(stack) # 1
  <2>1. Data(Universal) = "function"
    BY Trees DEF Data
  <2>2. This # Universal
    BY <2>1, Trees DEF GroupDone, NoRestartInRecovery, PoolDone, RestartWanted, In
  <2> QED BY <1>1, <2>2, Here
<1>4. CountsOK' /\ StatusOK' /\ FunctionOK' /\ GhostsOK'
  BY <1>1 DEF IInv, Types, CountsOK, StatusOK, FunctionOK, GhostsOK
<1>5. RootStep
  BY <1>1, <1>3 DEF RootStep
<1> QED BY <1>1, <1>2, <1>3, <1>4, <1>5, GoingKeeps

LEMMA NoRestartKeeps == IInv /\ (NoRestart \/ TooManyRestarts) => IInv'
<1> SUFFICES ASSUME IInv, NoRestart \/ TooManyRestarts PROVE IInv'
  OBVIOUS
<1>1. /\ stack # <<>> /\ Top.pc = "next" /\ Going("applied")
      /\ curstart' = [curstart EXCEPT ![This] = -1]
      /\ UNCHANGED <<status, count, lcount, breakpoint, state, ruleIndex, code,
                     pending, budget, made, settled, applied, restarts>>
  BY DEF NoRestart, TooManyRestarts, RestartWanted, AtEnd, At, function, ghosts
<1>2. This \in Actions /\ ~Catch(Len(stack)) /\ curstart[Universal] # -1
  BY <1>1, Here, RootOpen
<1>3. /\ curstart' \in [Actions -> Nat \cup {-1}]
      /\ This = Universal => curstart'[Universal] = -1
      /\ This # Universal => curstart'[Universal] = curstart[Universal]
  BY <1>1, <1>2, Assumed DEF IInv, Types, StatusOK
<1>4. CountsOK' /\ StatusOK' /\ FunctionOK' /\ GhostsOK'
  BY <1>1, <1>3 DEF IInv, Types, CountsOK, StatusOK, FunctionOK, GhostsOK
<1>5. This = Universal /\ pending["function"] => restarts = MaxRestarts
  <2> SUFFICES ASSUME This = Universal, pending["function"]
               PROVE  restarts = MaxRestarts
    OBVIOUS
  <2>1. ~RestartsLeft(Universal)
    BY Trees DEF NoRestart, TooManyRestarts, Data
  <2>2. /\ restarts <= MaxRestarts /\ restarts = curstart[Universal]
        /\ restarts \in Nat /\ MaxRestarts \in Nat
    BY <1>2, Assumed DEF IInv, Root, Types, GhostsOK
  <2> QED BY <2>1, <2>2 DEF RestartsLeft
<1>6. RootStep
  BY <1>1, <1>3, <1>5, Here DEF RootStep
<1>7. Len(stack) = 1 => curstart'[Universal] = -1
  BY <1>1, <1>3, Here
<1> QED BY <1>1, <1>2, <1>4, <1>6, <1>7, GoingKeeps

LEMMA ResetType ==
  ASSUME NEW S, NEW V, NEW field \in [Actions -> V], NEW v \in V
  PROVE  /\ Reset(S, field, v) \in [Actions -> V]
         /\ \A a \in Actions :
              Reset(S, field, v)[a] = IF a \in S THEN v ELSE field[a]
BY DEF Reset

LEMMA RestartKeeps == IInv /\ Restart => IInv'
<1> SUFFICES ASSUME IInv, Restart PROVE IInv'
  OBVIOUS
<1>1. /\ stack # <<>> /\ Top.pc = "next" /\ Kind[This] = "restart"
      /\ Data(This) = "function" /\ RestartsLeft(This) /\ Cleared("function")
      /\ status' = Reset(Below[This], status, "start")
      /\ curstart' = [Reset(Below[This], curstart, 0) EXCEPT ![This] = curstart[This] + 1]
      /\ state' = [state EXCEPT ![This] = 1]
      /\ applied' = Reset(Below[This], applied, 0)
      /\ settled' = {} /\ restarts' = restarts + 1
      /\ UNCHANGED <<count, lcount, breakpoint, ruleIndex, budget, stack, ret, current,
                     outcome, tables, performs, made>>
  BY DEF Restart, RestartWanted, AtEnd, At, client
<1>2. This = Universal
  <2>1. This \in Actions
    BY <1>1, Here
  <2>2. Data(JumpTable) = "partial"
    BY Trees DEF Data
  <2> QED BY <1>1, <2>1, <2>2, Trees
<1>3. /\ curstart[Universal] = restarts /\ restarts \in Nat
      /\ restarts + 1 <= MaxRestarts
  <2>1. curstart[Universal] # -1
    BY <1>1, RootOpen
  <2> QED BY <1>1, <1>2, <2>1 DEF IInv, Root, Types, GhostsOK, RestartsLeft
<1>4. status' \in [Actions -> Statuses] /\ status'[Universal] = "start"
  <2>1. status \in [Actions -> Statuses] /\ "start" \in Statuses
    BY DEF IInv, Types, StatusOK, Statuses
  <2> DEFINE S == Below[This]
  <2>2. Universal \in S /\ Universal \in Actions
    BY <1>2, Assumed, Trees
  <2>3. status' = Reset(S, status, "start")
    BY <1>1
  <2> HIDE DEF S
  <2> QED BY ONLY <2>1, <2>2, <2>3, ResetType
<1>5. curstart' \in [Actions -> Nat \cup {-1}] /\ curstart'[Universal] = restarts + 1
  <2> DEFINE c == Reset(Below[This], curstart, 0)
  <2>1. c \in [Actions -> Nat \cup {-1}]
    <3>1. curstart \in [Actions -> Nat \cup {-1}] /\ 0 \in Nat \cup {-1}
      BY DEF IInv, Types, StatusOK
    <3> QED BY <3>1, ResetType
  <2>2. curstart' = [c EXCEPT ![Universal] = restarts + 1]
    BY <1>1, <1>2, <1>3
  <2>3. restarts + 1 \in Nat \cup {-1}
    BY <1>3
  <2> HIDE DEF c
  <2> QED BY <2>1, <2>2, <2>3, Assumed
<1>6. CountsOK'
  <2>1. state \in [Actions -> Nat \ {0}]
    BY DEF IInv, Types, CountsOK
  <2>2. 1 \in Nat \ {0} /\ state' = [state EXCEPT ![This] = 1]
    BY <1>1
  <2>3. state' \in [Actions -> Nat \ {0}]
    BY ONLY <2>1, <2>2
  <2> QED BY <1>1, <2>3 DEF IInv, Types, CountsOK
<1>7. GhostsOK'
  <2>1. applied' \in [Actions -> Nat]
    <3>1. applied \in [Actions -> Nat] /\ 0 \in Nat
      BY DEF IInv, Types, GhostsOK
    <3> QED BY <1>1, <3>1, ResetType
  <2> QED BY <1>1, <1>3, <2>1 DEF IInv, Types, GhostsOK
<1>8. FunctionOK'
  BY <1>1, Assumed DEF IInv, Types, FunctionOK, Cleared
<1>9. Types'
  BY <1>1, <1>4, <1>5, <1>6, <1>7, <1>8 DEF IInv, Types, StatusOK, ClientOK, StackOK
<1>10. Shape'
  BY <1>1 DEF IInv, Shape, Catch
<1>11. Root'
  <2>1. Len(stack) = 1 /\ stack[1].pc = "next" /\ restarts + 1 # -1
    BY <1>1, <1>2, <1>3, Here
  <2> QED BY <1>1, <1>3, <1>4, <1>5, <2>1 DEF Root
<1> QED BY <1>9, <1>10, <1>11 DEF IInv
-----------------------------------------------------------------------------
(* apply, of a leaf and of a pool.                                         *)
LEMMA ChangeTypes ==
  ASSUME IInv, This \in Actions, Change(This)
  PROVE  /\ budget' \in Nat /\ count' \in [Actions -> Nat]
         /\ made' \in [Actions -> Nat] /\ settled' \subseteq Settled
<1>1. /\ budget \in Nat /\ count \in [Actions -> Nat] /\ made \in [Actions -> Nat]
      /\ settled \subseteq Settled
  BY DEF IInv, Types, FunctionOK, CountsOK, GhostsOK
<1>2. PICK k \in 1 .. budget : ChangeBy(This, k)
  BY DEF Change
<1>3. count[This] + k \in Nat /\ budget - k \in Nat
  BY <1>1
<1>4. count' = [count EXCEPT ![This] = count[This] + k]
  BY <1>2 DEF ChangeBy
<1>5. count' \in [Actions -> Nat]
  BY ONLY <1>1, <1>3, <1>4
<1>6. made' \in [Actions -> Nat]
  <2>1. \A x \in Actions : made[x] \in Nat /\ made[x] + k \in Nat
    BY <1>1
  <2> QED BY <1>2, <2>1 DEF ChangeBy
<1> QED BY <1>1, <1>2, <1>3, <1>5, <1>6 DEF ChangeBy

LEMMA RequestType ==
  ASSUME IInv, NEW f, MayRequestRestart(f)
  PROVE  pending' \in [Functions -> BOOLEAN]
<1>1. PICK p \in BOOLEAN : pending' = [pending EXCEPT ![f] = pending[f] \/ p]
  BY DEF MayRequestRestart
<1>2. (pending[f] \/ p) \in BOOLEAN
  OBVIOUS
<1> QED BY <1>1, <1>2 DEF IInv, Types, FunctionOK

LEMMA LeafApplyKeeps == IInv /\ LeafApply => IInv'
<1> SUFFICES ASSUME IInv, LeafApply PROVE IInv'
  OBVIOUS
<1>1. /\ stack # <<>> /\ Top.pc = "next" /\ Kind[This] = "leaf" /\ Going("applied")
      /\ UNCHANGED <<status, lcount, breakpoint, state, ruleIndex, curstart, code,
                     restarts>>
  BY DEF LeafApply, In, At
<1>2. This \in Actions /\ ~Catch(Len(stack)) /\ Len(stack) # 1
  BY <1>1, Here, Trees
<1>3. /\ budget' \in Nat /\ count' \in [Actions -> Nat]
      /\ made' \in [Actions -> Nat] /\ settled' \subseteq Settled
  <2>1. CASE Change(This)
    BY <1>2, <2>1, ChangeTypes
  <2>2. CASE settled' = settled \cup {<<This, 0, 0>>} /\ UNCHANGED <<budget, count, made>>
    <3>1. <<This, 0, 0>> \in Settled
      BY <1>2, Assumed DEF Settled
    <3>2. /\ budget \in Nat /\ count \in [Actions -> Nat]
          /\ made \in [Actions -> Nat] /\ settled \subseteq Settled
      BY DEF IInv, Types, FunctionOK, CountsOK, GhostsOK
    <3> QED BY <2>2, <3>1, <3>2
  <2> QED BY <2>1, <2>2 DEF LeafApply
<1>4. FunctionOK'
  <2>1. pending' \in [Functions -> BOOLEAN]
    BY RequestType DEF LeafApply
  <2> QED BY <1>1, <1>3, <2>1 DEF IInv, Types, FunctionOK
<1>5. GhostsOK'
  <2>1. applied' \in [Actions -> Nat]
    <3>1. applied \in [Actions -> Nat]
      BY DEF IInv, Types, GhostsOK
    <3>2. (IF applied[This] < 2 THEN applied[This] + 1 ELSE applied[This]) \in Nat
      BY <1>2, <3>1
    <3>3. applied' = [applied EXCEPT
            ![This] = IF applied[This] < 2 THEN applied[This] + 1 ELSE applied[This]]
      BY DEF LeafApply
    <3> QED BY ONLY <1>2, <3>1, <3>2, <3>3
  <2> QED BY <1>1, <1>3, <2>1 DEF IInv, Types, GhostsOK
<1>6. CountsOK' /\ StatusOK'
  BY <1>1, <1>3 DEF IInv, Types, CountsOK, StatusOK
<1>7. RootStep
  BY <1>1, <1>2 DEF RootStep
<1> QED BY <1>1, <1>2, <1>4, <1>5, <1>6, <1>7, GoingKeeps

LEMMA NextOpTypes ==
  ASSUME IInv, This \in Actions, NextOp
  PROVE  state' \in [Actions -> Nat \ {0}] /\ ruleIndex' \in [Actions -> Nat]
<1>1. state \in [Actions -> Nat \ {0}] /\ ruleIndex \in [Actions -> Nat]
  BY DEF IInv, Types, CountsOK
<1>2. ThisOp + 1 \in Nat \ {0}
  BY <1>1 DEF ThisOp
<1>3. PICK p \in OpFrom(ThisOp + 1, Data(This)) : state' = [state EXCEPT ![This] = p]
  BY DEF NextOp
<1>4. p \in Nat \ {0}
  BY <1>2, Opened
<1>5. ruleIndex' = [ruleIndex EXCEPT ![This] = 1]
  BY DEF NextOp
<1> QED BY ONLY <1>1, <1>3, <1>4, <1>5

LEMMA OpKeeps == IInv /\ (OpDead \/ OpDone) => IInv'
<1> SUFFICES ASSUME IInv, OpDead \/ OpDone PROVE IInv'
  OBVIOUS
<1>1. /\ stack # <<>> /\ NextOp /\ UNCHANGED <<stack, ret, client>>
      /\ UNCHANGED <<status, count, lcount, breakpoint, curstart, pending, budget, made,
                     settled, applied, restarts>>
  BY DEF OpDead, OpDone, OnOp, In, At, function, ghosts
<1>2. This \in Actions
  BY <1>1, Here
<1>3. CountsOK'
  BY <1>1, <1>2, NextOpTypes DEF IInv, Types, CountsOK
<1>4. code' \in [Functions -> [1 .. NumOps -> Codes \cup Absent]]
  <2>1. code \in [Functions -> [1 .. NumOps -> Codes \cup Absent]]
    BY DEF IInv, Types, FunctionOK
  <2>2. CASE code' = [code EXCEPT ![Data(This)] = [code[Data(This)] EXCEPT ![ThisOp] = "gone"]]
    <3>1. Data(This) \in Functions /\ "gone" \in Codes \cup Absent
      BY DEF Data, Functions, Absent
    <3>2. [code[Data(This)] EXCEPT ![ThisOp] = "gone"] \in [1 .. NumOps -> Codes \cup Absent]
      BY <2>1, <3>1
    <3> QED BY <2>1, <2>2, <3>1, <3>2
  <2>3. CASE code' = code
    BY <2>1, <2>3
  <2> QED BY <2>2, <2>3 DEF OpDead, OpDone, function
<1>5. StatusOK' /\ FunctionOK' /\ GhostsOK'
  BY <1>1, <1>4 DEF IInv, Types, StatusOK, FunctionOK, GhostsOK
<1>6. RootStep /\ curstart' = curstart
  BY <1>1 DEF RootStep, IInv, Root
<1> QED BY <1>1, <1>3, <1>5, <1>6, InsideKeeps

(* The next rule on an op, or the first one.                               *)
LEMMA RuleIndexType ==
  ASSUME IInv, This \in Actions,
         \/ ruleIndex' = [ruleIndex EXCEPT ![This] = ruleIndex[This] + 1]
         \/ ruleIndex' = [ruleIndex EXCEPT ![This] = 1]
  PROVE  ruleIndex' \in [Actions -> Nat]
<1>1. ruleIndex \in [Actions -> Nat]
  BY DEF IInv, Types, CountsOK
<1>2. ruleIndex[This] + 1 \in Nat /\ 1 \in Nat
  BY <1>1
<1> QED BY ONLY <1>1, <1>2,
           \/ ruleIndex' = [ruleIndex EXCEPT ![This] = ruleIndex[This] + 1]
           \/ ruleIndex' = [ruleIndex EXCEPT ![This] = 1]

LEMMA RuleIdleKeeps == IInv /\ RuleIdle => IInv'
<1> SUFFICES ASSUME IInv, RuleIdle PROVE IInv'
  OBVIOUS
<1>1. /\ stack # <<>> /\ ThisOp <= NumOps /\ UNCHANGED <<stack, ret, client>>
      /\ settled' = settled \cup {<<This, ThisOp, ruleIndex[This]>>}
      /\ ruleIndex' = [ruleIndex EXCEPT ![This] = ruleIndex[This] + 1]
      /\ UNCHANGED <<status, count, lcount, breakpoint, state, curstart, code, pending,
                     budget, made, applied, restarts>>
  BY DEF RuleIdle, Trying, OnOp, In, At, function
<1>2. This \in Actions
  BY <1>1, Here
<1>3. CountsOK'
  BY <1>1, <1>2, RuleIndexType DEF IInv, Types, CountsOK
<1>4. GhostsOK'
  <2>1. ThisOp \in 0 .. NumOps
    BY <1>1, <1>2, Assumed DEF ThisOp, IInv, Types, CountsOK
  <2>2. ruleIndex[This] \in Nat
    BY <1>2 DEF IInv, Types, CountsOK
  <2>3. <<This, ThisOp, ruleIndex[This]>> \in Settled
    BY <1>2, <2>1, <2>2 DEF Settled
  <2> QED BY <1>1, <2>3 DEF IInv, Types, GhostsOK
<1>5. StatusOK' /\ FunctionOK'
  BY <1>1 DEF IInv, Types, StatusOK, FunctionOK
<1>6. RootStep /\ curstart' = curstart
  BY <1>1 DEF RootStep, IInv, Root
<1> QED BY <1>1, <1>3, <1>4, <1>5, <1>6, InsideKeeps

LEMMA RewrittenType ==
  ASSUME NEW ops \in [1 .. NumOps -> Codes \cup Absent], NEW new \in Rewritten(ops)
  PROVE  new \in [1 .. NumOps -> Codes \cup Absent]
<1>1. "dead" \in Absent
  BY DEF Absent
<1>2. \A o \in 1 .. NumOps, c \in Codes \cup {"dead"} :
        [ops EXCEPT ![o] = c] \in [1 .. NumOps -> Codes \cup Absent]
  BY <1>1
<1>3. \E o \in 1 .. NumOps, c \in Codes \cup {"dead"} : new = [ops EXCEPT ![o] = c]
  BY DEF Rewritten
<1> QED BY <1>2, <1>3

LEMMA RuleAppliesKeeps == IInv /\ RuleApplies => IInv'
<1> SUFFICES ASSUME IInv, RuleApplies PROVE IInv'
  OBVIOUS
<1>1. /\ stack # <<>> /\ Top.pc = "next" /\ Change(This)
      /\ UNCHANGED <<lcount, curstart, applied, restarts>> /\ Kind[This] = "pool"
  BY DEF RuleApplies, Trying, OnOp, In, At
<1>2. /\ This \in Actions /\ ~Catch(Len(stack)) /\ Data(This) \in Functions
      /\ Len(stack) # 1
  BY <1>1, Here, Trees DEF Data, Functions
<1>3. /\ budget' \in Nat /\ count' \in [Actions -> Nat]
      /\ made' \in [Actions -> Nat] /\ settled' \subseteq Settled
  BY <1>1, <1>2, ChangeTypes
<1>4. PICK ops \in Rewritten(code[Data(This)]) :
       /\ code' = [code EXCEPT ![Data(This)] = ops]
       /\ IF Breaking(ThisRule, OnAction)
          THEN /\ breakpoint' = Tripped(ThisRule, OnAction)
               /\ ruleIndex' = [ruleIndex EXCEPT ![This] = @ + 1]
               /\ Partial(This)
               /\ UNCHANGED state
          ELSE /\ CASE ops[ThisOp] = "dead" -> NextOp
                    [] ops[ThisOp] = ThisCode ->
                         /\ ruleIndex' = [ruleIndex EXCEPT ![This] = @ + 1]
                         /\ UNCHANGED state
                    [] OTHER ->
                         /\ ruleIndex' = [ruleIndex EXCEPT ![This] = 1]
                         /\ UNCHANGED state
               /\ UNCHANGED <<status, breakpoint, client, stack, ret>>
  BY DEF RuleApplies
<1>5. FunctionOK'
  <2>1. code \in [Functions -> [1 .. NumOps -> Codes \cup Absent]]
    BY DEF IInv, Types, FunctionOK
  <2>2. ops \in [1 .. NumOps -> Codes \cup Absent]
    BY <1>2, <2>1, RewrittenType
  <2>3. code' \in [Functions -> [1 .. NumOps -> Codes \cup Absent]]
    BY <1>4, <2>1, <2>2
  <2>4. pending' \in [Functions -> BOOLEAN]
    BY RequestType DEF RuleApplies
  <2> QED BY <1>1, <1>3, <2>3, <2>4 DEF IInv, Types, FunctionOK
<1>6. GhostsOK'
  BY <1>1, <1>3 DEF IInv, Types, GhostsOK
<1>7. CASE Breaking(ThisRule, OnAction)
  <2>1. /\ breakpoint' = Tripped(ThisRule, OnAction) /\ Partial(This) /\ state' = state
        /\ ruleIndex' = [ruleIndex EXCEPT ![This] = ruleIndex[This] + 1]
    BY <1>4, <1>7
  <2>2. CountsOK'
    BY <1>1, <1>2, <1>3, <2>1, RuleIndexType, TrippedType DEF IInv, Types, CountsOK
  <2> QED BY <1>1, <1>2, <1>5, <1>6, <2>1, <2>2, PartialKeeps
<1>8. CASE ~Breaking(ThisRule, OnAction)
  <2>1. UNCHANGED <<status, breakpoint, client, stack, ret>>
    BY <1>4, <1>8
  <2>2. \/ NextOp
        \/ ruleIndex' = [ruleIndex EXCEPT ![This] = ruleIndex[This] + 1] /\ state' = state
        \/ ruleIndex' = [ruleIndex EXCEPT ![This] = 1] /\ state' = state
    <3>1. CASE ops[ThisOp] = "dead"
      BY <1>4, <1>8, <3>1
    <3>2. CASE ops[ThisOp] # "dead" /\ ops[ThisOp] = ThisCode
      BY <1>4, <1>8, <3>2
    <3>3. CASE ops[ThisOp] # "dead" /\ ops[ThisOp] # ThisCode
      BY <1>4, <1>8, <3>3
    <3> QED BY <3>1, <3>2, <3>3
  <2>3. state' \in [Actions -> Nat \ {0}] /\ ruleIndex' \in [Actions -> Nat]
    <3>1. state \in [Actions -> Nat \ {0}]
      BY DEF IInv, Types, CountsOK
    <3> QED BY <1>2, <2>2, <3>1, NextOpTypes, RuleIndexType
  <2>4. CountsOK' /\ StatusOK'
    BY <1>1, <1>3, <2>1, <2>3 DEF IInv, Types, CountsOK, StatusOK
  <2>5. RootStep /\ curstart' = curstart
    BY <1>1, <1>2, <2>1 DEF RootStep, IInv, Root
  <2> QED BY <1>1, <1>5, <1>6, <2>1, <2>4, <2>5, InsideKeeps
<1> QED BY <1>7, <1>8
-----------------------------------------------------------------------------
(* The recovery of a jump table, and what it throws.                       *)
LEMMA CaughtShape ==
  ASSUME StackOK, Shape, NEW k \in 1 .. Len(stack), Catch(k),
         stack' = Under(k, "next"), current' = stack[k].old
  PROVE  /\ Shape' /\ stack' \in Seq(Frames) /\ stack' # <<>>
         /\ Len(stack') = k /\ k # 1 /\ current' = Universal
<1>1. "next" \in Pcs /\ Len(stack) \in Nat
  BY DEF Pcs, StackOK
<1>2. /\ stack' \in Seq(Frames) /\ Len(stack') = k /\ stack' # <<>>
      /\ \A i \in 1 .. k - 1 : stack'[i] = stack[i]
      /\ stack'[k].action = stack[k].action /\ stack'[k].pc = "next"
  BY <1>1, UnderParts
<1>3. /\ stack[k].action \in FollowsFlow /\ stack[k].old = Universal
      /\ stack[1].action = Universal
  <2>1. stack # <<>>
    BY EmptySequence
  <2> QED BY <2>1 DEF Shape
<1>4. k # 1
  BY <1>3, Trees
<1>5. \A i \in 1 .. k : stack'[i].action = stack[i].action /\ i \in 1 .. Len(stack)
  BY <1>1, <1>2
<1>6. \A i \in 1 .. k : i \in 1 .. k - 1 \/ i = k
  BY <1>1
<1>7. \A i \in 1 .. k : ~Catch(i)'
  <2>1. ASSUME NEW i \in 1 .. k - 1 PROVE ~Catch(i)'
    <3>1. i \in 1 .. Len(stack) /\ k > i
      BY <1>1
    <3>2. ~Catch(i)
      BY <1>3, <3>1, Trees DEF Shape
    <3> QED BY <1>2, <3>2 DEF Catch
  <2>2. \A i \in 1 .. k : i = k => ~Catch(i)'
    BY <1>2 DEF Catch
  <2> QED BY <1>6, <2>1, <2>2
<1>8. /\ stack'[1].action = Universal
      /\ \A i \in 1 .. k : stack'[i].action = Universal => i = 1
  <2>1. 1 \in 1 .. k
    BY <1>1
  <2> QED BY <1>3, <1>5, <2>1 DEF Shape
<1>9. \A i \in 1 .. k : i < k =>
        stack'[i].pc = "staging" \/ (stack'[i].pc = "next" /\ IsGroup(stack'[i].action))
  <2> SUFFICES ASSUME NEW i \in 1 .. k, i < k
               PROVE  stack'[i].pc = "staging"
                      \/ (stack'[i].pc = "next" /\ IsGroup(stack'[i].action))
    OBVIOUS
  <2>1. i \in 1 .. k - 1 /\ i \in 1 .. Len(stack) /\ i < Len(stack)
    BY <1>1
  <2> QED BY <1>2, <2>1 DEF Shape
<1>10. Shape'
  BY <1>2, <1>3, <1>7, <1>8, <1>9 DEF Shape
<1> QED BY <1>2, <1>3, <1>4, <1>10

LEMMA CaughtKeeps ==
  ASSUME IInv, NEW k \in 1 .. Len(stack), Catch(k), stack' = Under(k, "next"),
         current' = stack[k].old,
         UNCHANGED <<fields, function, outcome, tables, performs, ret, ghosts>>
  PROVE  IInv'
<1>1. UNCHANGED <<status, count, lcount, breakpoint, state, ruleIndex, curstart,
                  code, pending, budget, outcome, tables, performs, ret,
                  made, settled, applied, restarts>>
  BY DEF fields, function, ghosts
<1>2. /\ Shape' /\ stack' \in Seq(Frames) /\ stack' # <<>>
      /\ Len(stack') = k /\ k # 1 /\ current' = Universal
  BY CaughtShape DEF IInv, Types
<1>3. Types'
  BY <1>1, <1>2, Assumed DEF IInv, Types, CountsOK, StatusOK, FunctionOK, GhostsOK,
     ClientOK, StackOK
<1>4. Len(stack) > 1
  BY <1>2 DEF IInv, Types, StackOK
<1>5. Root'
  BY <1>1, <1>2, <1>4 DEF IInv, Root
<1> QED BY <1>2, <1>3, <1>5 DEF IInv

LEMMA StagedKeeps == IInv /\ Staged => IInv'
<1> SUFFICES ASSUME IInv, Staged PROVE IInv'
  OBVIOUS
<1>1. /\ stack # <<>> /\ Top.pc = "returned" /\ Kind[This] = "leaf"
      /\ stack' = Under(Len(stack), "next") /\ current' = Top.old
      /\ UNCHANGED <<fields, function, outcome, tables, performs, ret, ghosts>>
  BY DEF Staged, In, At, Goto
<1>2. Len(stack) \in 1 .. Len(stack) /\ stack[Len(stack)] = Top
  BY <1>1, Here
<1>3. Catch(Len(stack))
  BY <1>1, <1>2 DEF Catch, This
<1> QED BY <1>1, <1>2, <1>3, CaughtKeeps

LEMMA ThrowKeeps == IInv /\ Throw => IInv'
<1> SUFFICES ASSUME IInv, Throw PROVE IInv'
  OBVIOUS
<1>1. /\ stack # <<>> /\ Top.pc = "next"
      /\ UNCHANGED <<fields, function, tables, performs, ret, ghosts>>
  BY DEF Throw, Trying, OnOp, In, At
<1>2. CASE Catchers = {}
  <2>1. stack' = <<>> /\ outcome' = "error" /\ current' = current
    BY <1>2 DEF Throw
  <2>2. current = Universal
    <3> SUFFICES ASSUME NEW i \in 1 .. Len(stack) PROVE ~Catch(i)
      BY DEF IInv, Shape
    <3>1. stack[i].pc # "staging"
      BY <1>2 DEF Catchers, IInv, Types, StackOK
    <3>2. CASE i < Len(stack)
      BY <3>1, <3>2 DEF IInv, Shape, Catch
    <3>3. CASE i = Len(stack)
      BY <1>1, <3>3, Here
    <3> QED BY <1>1, <3>2, <3>3, Here
  <2>3. /\ stack' \in Seq(Frames) /\ Len(stack') = 0
        /\ outcome' \in {"none", "done", "interrupted", "error"}
    BY <2>1, EmptySequence
  <2>4. UNCHANGED <<status, count, lcount, breakpoint, state, ruleIndex, curstart,
                    code, pending, budget, current, tables, performs, ret,
                    made, settled, applied, restarts>>
    BY <1>1, <2>1 DEF fields, function, ghosts
  <2>5. Types'
    BY <2>3, <2>4 DEF IInv, Types, CountsOK, StatusOK, FunctionOK, GhostsOK, ClientOK,
       StackOK
  <2>6. Shape'
    BY <2>1, <2>2, <2>3 DEF Shape
  <2>7. Root'
    BY <2>1, <2>3, <2>4 DEF IInv, Root
  <2> QED BY <2>5, <2>6, <2>7 DEF IInv
<1>3. CASE Catchers # {}
  <2>1. PICK i \in Catchers :
          stack' = Under(i, "next") /\ current' = stack[i].old /\ outcome' = outcome
    BY <1>3 DEF Throw
  <2>2. i \in 1 .. Len(stack) /\ Catch(i)
    BY DEF Catchers, Catch, IInv, Types, StackOK
  <2> QED BY <1>1, <2>1, <2>2, CaughtKeeps
<1> QED BY <1>2, <1>3

(* Nothing that recovers a jump table is below a leaf that is about to.    *)
LEMMA FirstRecovery ==
  ASSUME IInv, stack # <<>>, Top.pc = "next", This \in FollowsFlow
  PROVE  /\ \A i \in 1 .. Len(stack) : ~Catch(i)
         /\ current = Universal /\ Len(stack) # 1
<1>1. Kind[This] = "leaf" /\ This \notin Below[JumpTable]
  BY Trees
<1>2. ASSUME NEW i \in 1 .. Len(stack) PROVE ~Catch(i)
  <2>1. CASE i < Len(stack)
    <3>1. Len(stack) \in 1 .. Len(stack) /\ stack[Len(stack)].action = This
      BY Here DEF This
    <3> QED BY <1>1, <2>1, <3>1 DEF IInv, Shape
  <2>2. CASE i = Len(stack)
    BY <2>2, Here
  <2> QED BY <2>1, <2>2, Here
<1>3. current = Universal
  BY <1>2 DEF IInv, Shape
<1> QED BY <1>1, <1>2, <1>3, Here, Trees

LEMMA StageShape ==
  ASSUME IInv, StageJumpTable
  PROVE  /\ Shape' /\ stack' \in Seq(Frames) /\ stack' # <<>>
         /\ Len(stack') = Len(stack) + 1 /\ Len(stack) # 1 /\ Len(stack) > 1
<1> DEFINE n == Len(stack)
           f == Frame(This, "staging", current)
           g == Frame(JumpTable, "perform", JumpTable)
           s == [stack EXCEPT ![n] = f]
<1>1. /\ stack # <<>> /\ Top.pc = "next" /\ This \in FollowsFlow
      /\ current' = JumpTable /\ stack' = s \o <<g>>
  BY DEF StageJumpTable, In, At
<1>2. (\A i \in 1 .. n : ~Catch(i)) /\ current = Universal /\ n # 1
  BY <1>1, FirstRecovery
<1>3. /\ n \in 1 .. n /\ n \in Nat /\ n > 1 /\ This \in Actions
      /\ stack[n].action = This /\ stack \in Seq(Frames)
  BY <1>1, <1>2, Here DEF This, IInv, Types, StackOK
<1>4. /\ f \in Frames /\ f.action = This /\ f.pc = "staging" /\ f.old = Universal
      /\ g \in Frames /\ g.action = JumpTable /\ g.pc = "perform"
  BY <1>2, <1>3, Assumed DEF Frame, Frames, Pcs
<1> HIDE DEF f, g
<1>5. s \in Seq(Frames) /\ Len(s) = n /\ s[n] = f /\ \A i \in 1 .. n - 1 : s[i] = stack[i]
  BY <1>3, <1>4
<1> HIDE DEF s
<1>6. /\ stack' \in Seq(Frames) /\ Len(stack') = n + 1
      /\ stack'[n] = f /\ stack'[n + 1] = g
      /\ \A i \in 1 .. n - 1 : stack'[i] = stack[i]
  <2>1. <<g>> \in Seq(Frames) /\ Len(<<g>>) = 1 /\ <<g>>[1] = g
    BY <1>4
  <2>2. /\ s \o <<g>> \in Seq(Frames) /\ Len(s \o <<g>>) = n + 1
        /\ (s \o <<g>>)[n + 1] = g
        /\ \A i \in 1 .. n : (s \o <<g>>)[i] = s[i]
    BY ONLY <1>3, <1>5, <2>1
  <2>3. \A i \in 1 .. n - 1 : i \in 1 .. n
    BY <1>3
  <2> QED BY <1>1, <1>3, <1>5, <2>2, <2>3
<1>7. stack' # <<>>
  BY <1>3, <1>6, EmptySequence
<1>8. \A i \in 1 .. n + 1 : i \in 1 .. n - 1 \/ i = n \/ i = n + 1
  BY <1>3
<1>9. \A i \in 1 .. n - 1 : i \in 1 .. n /\ i < n
  BY <1>3
<1>10. \A i \in 1 .. n + 1 : Catch(i)' <=> i = n
  <2>1. ASSUME NEW i \in 1 .. n - 1 PROVE ~Catch(i)' /\ i # n
    <3>1. ~Catch(i) /\ i # n
      BY <1>2, <1>3, <1>9
    <3> QED BY <1>6, <3>1 DEF Catch
  <2>2. \A i \in 1 .. n + 1 : i = n => Catch(i)'
    BY <1>4, <1>6 DEF Catch
  <2>3. \A i \in 1 .. n + 1 : i = n + 1 => ~Catch(i)' /\ i # n
    <3>1. g.pc # "staging" /\ g.pc # "returned" /\ n + 1 # n
      BY <1>3, <1>4
    <3> QED BY <1>6, <3>1 DEF Catch
  <2> QED BY <1>8, <2>1, <2>2, <2>3
<1> HIDE DEF n
<1>11. /\ stack'[1].action = Universal
       /\ \A i \in 1 .. n + 1 : stack'[i].action = Universal => i = 1
  <2>1. 1 \in 1 .. n - 1
    BY <1>3
  <2>2. stack'[1].action = Universal
    BY <1>1, <1>6, <2>1 DEF IInv, Shape
  <2>3. \A i \in 1 .. n - 1 : stack'[i].action = Universal => i = 1
    BY <1>6, <1>9 DEF IInv, Shape, n
  <2>4. stack'[n].action # Universal /\ stack'[n + 1].action # Universal
    BY <1>1, <1>4, <1>6, Trees
  <2> QED BY <1>8, <2>2, <2>3, <2>4
<1>12. \A i \in 1 .. n + 1 : i < n + 1 =>
         stack'[i].pc = "staging" \/ (stack'[i].pc = "next" /\ IsGroup(stack'[i].action))
  <2>1. \A i \in 1 .. n - 1 :
          stack'[i].pc = "staging" \/ (stack'[i].pc = "next" /\ IsGroup(stack'[i].action))
    BY <1>6, <1>9 DEF IInv, Shape, n
  <2>2. \A i \in 1 .. n + 1 : i = n => stack'[i].pc = "staging"
    BY <1>4, <1>6
  <2> SUFFICES ASSUME NEW i \in 1 .. n + 1, i < n + 1
               PROVE  stack'[i].pc = "staging"
                      \/ (stack'[i].pc = "next" /\ IsGroup(stack'[i].action))
    OBVIOUS
  <2>3. i \in 1 .. n - 1 \/ i = n
    BY <1>3
  <2>4. CASE i = n
    BY <2>2, <2>4
  <2>5. CASE i \in 1 .. n - 1
    BY <2>1, <2>5, Zenon
  <2> QED BY <2>3, <2>4, <2>5
<1>13. ASSUME NEW i \in 1 .. n + 1, Catch(i)'
       PROVE  /\ stack'[i].action \in FollowsFlow /\ stack'[i].old = Universal
              /\ \A j \in 1 .. n + 1 : j > i => stack'[j].action \in Below[JumpTable]
  <2>1. i = n
    BY <1>10, <1>13
  <2>2. stack'[n].action \in FollowsFlow /\ stack'[n].old = Universal
    BY <1>1, <1>4, <1>6
  <2>3. \A j \in 1 .. n + 1 : j > n => j = n + 1
    BY <1>3
  <2>4. stack'[n + 1].action \in Below[JumpTable]
    BY <1>4, <1>6, Trees
  <2> QED BY <2>1, <2>2, <2>3, <2>4
<1>14. ~(\A i \in 1 .. n + 1 : ~Catch(i)')
  <2>1. n \in 1 .. n + 1
    BY <1>3
  <2> QED BY <1>10, <2>1
<1>15. Shape'
  BY <1>6, <1>7, <1>11, <1>12, <1>13, <1>14 DEF Shape
<1> QED BY <1>3, <1>2, <1>6, <1>7, <1>15 DEF n

LEMMA ResetTreeTypes ==
  ASSUME IInv, NEW root, ResetTree(root)
  PROVE  /\ StatusOK'
         /\ \A a \in Actions :
              /\ status'[a] = IF a \in Below[root] THEN "start" ELSE status[a]
              /\ curstart'[a] = IF a \in Below[root] THEN 0 ELSE curstart[a]
<1>1. /\ status \in [Actions -> Statuses] /\ "start" \in Statuses
      /\ curstart \in [Actions -> Nat \cup {-1}] /\ 0 \in Nat \cup {-1}
  BY DEF IInv, Types, StatusOK, Statuses
<1> DEFINE S == Below[root]
<1>2. status' = Reset(S, status, "start") /\ curstart' = Reset(S, curstart, 0)
  BY DEF ResetTree
<1> HIDE DEF S
<1>3. /\ status' \in [Actions -> Statuses]
      /\ \A a \in Actions : status'[a] = IF a \in S THEN "start" ELSE status[a]
  BY ONLY <1>1, <1>2 DEF Reset
<1>4. /\ curstart' \in [Actions -> Nat \cup {-1}]
      /\ \A a \in Actions : curstart'[a] = IF a \in S THEN 0 ELSE curstart[a]
  BY ONLY <1>1, <1>2 DEF Reset
<1> QED BY <1>3, <1>4 DEF StatusOK, S

LEMMA ClearedType ==
  ASSUME IInv, NEW f \in Functions, Cleared(f), budget' = budget
  PROVE  FunctionOK'
BY Assumed DEF IInv, Types, FunctionOK, Cleared

LEMMA StageKeeps == IInv /\ StageJumpTable => IInv'
<1> SUFFICES ASSUME IInv, StageJumpTable PROVE IInv'
  OBVIOUS
<1>1. /\ tables' = tables + 1 /\ current' = JumpTable /\ Cleared("partial")
      /\ ResetTree(JumpTable)
      /\ settled' = {t \in settled : Data(t[1]) = "function"}
      /\ UNCHANGED <<count, lcount, breakpoint, state, ruleIndex, budget, ret, outcome,
                     performs, made, applied, restarts>>
  BY DEF StageJumpTable
<1>2. /\ Shape' /\ stack' \in Seq(Frames) /\ stack' # <<>>
      /\ Len(stack') = Len(stack) + 1 /\ Len(stack) # 1 /\ Len(stack) > 1
  BY StageShape
<1>3. /\ StatusOK' /\ status'[Universal] = status[Universal]
      /\ curstart'[Universal] = curstart[Universal]
  BY <1>1, ResetTreeTypes, Assumed, Trees
<1>4. FunctionOK'
  <2>1. "partial" \in Functions
    BY DEF Functions
  <2> QED BY <1>1, <2>1, ClearedType
<1>5. Types'
  <2>1. tables' \in Nat
    BY <1>1 DEF IInv, Types, ClientOK
  <2>2. ClientOK'
    BY <1>1, <2>1, Assumed DEF IInv, Types, ClientOK
  <2>3. settled' \subseteq Settled
    BY <1>1 DEF IInv, Types, GhostsOK
  <2>4. GhostsOK'
    BY <1>1, <2>3 DEF IInv, Types, GhostsOK
  <2>5. CountsOK' /\ StackOK'
    BY <1>1, <1>2 DEF IInv, Types, CountsOK, StackOK
  <2> QED BY <1>3, <1>4, <2>2, <2>4, <2>5 DEF Types
<1>6. curstart[Universal] # -1
  BY <1>2 DEF IInv, Root
<1>7. Len(stack') # 1
  <2>1. Len(stack) \in Nat
    BY DEF IInv, Types, StackOK
  <2> QED BY <1>2, <2>1
<1>8. Root'
  BY <1>1, <1>2, <1>3, <1>6, <1>7 DEF IInv, Root
<1> QED BY <1>2, <1>5, <1>8 DEF IInv
-----------------------------------------------------------------------------
(* The client.                                                             *)
LEMMA AtRest ==
  ASSUME IInv, stack = <<>>, Call(current), current' = current
  PROVE  /\ Shape' /\ stack' \in Seq(Frames) /\ stack' # <<>> /\ current = Universal
         /\ Len(stack') = 1 /\ stack'[1].pc = "perform"
<1>1. Len(stack) = 0
  BY EmptySequence
<1>2. current = Universal /\ current \in Actions
  BY <1>1, Assumed DEF IInv, Shape
<1>3. /\ Shape' /\ stack' \in Seq(Frames) /\ stack' # <<>>
      /\ Len(stack') = Len(stack) + 1 /\ stack'[Len(stack) + 1].pc = "perform"
  BY <1>2, CallShape DEF IInv, Types
<1> QED BY <1>1, <1>2, <1>3

LEMMA DecompileKeeps == IInv /\ Decompile => IInv'
<1> SUFFICES ASSUME IInv, Decompile PROVE IInv'
  OBVIOUS
<1>1. /\ stack = <<>> /\ Call(current) /\ current' = current
      /\ performs' = performs + 1 /\ Cleared("function") /\ ResetTree(current)
      /\ outcome' = "none" /\ ret' = 0 /\ settled' = {} /\ restarts' = 0
      /\ made' = Reset(Actions, made, 0) /\ applied' = Reset(Actions, applied, 0)
      /\ UNCHANGED <<count, lcount, breakpoint, state, ruleIndex, budget, tables>>
  BY DEF Decompile
<1>2. /\ Shape' /\ stack' \in Seq(Frames) /\ stack' # <<>> /\ current = Universal
      /\ Len(stack') = 1 /\ stack'[1].pc = "perform"
  BY <1>1, AtRest
<1>3. StatusOK' /\ status'[Universal] = "start" /\ curstart'[Universal] = 0
  BY <1>1, <1>2, ResetTreeTypes, Assumed, Trees
<1>4. FunctionOK'
  <2>1. "function" \in Functions
    BY DEF Functions
  <2> QED BY <1>1, <2>1, ClearedType
<1>5. GhostsOK'
  <2>1. made \in [Actions -> Nat] /\ applied \in [Actions -> Nat] /\ 0 \in Nat
    BY DEF IInv, Types, GhostsOK
  <2>2. made' \in [Actions -> Nat] /\ applied' \in [Actions -> Nat]
    BY ONLY <1>1, <2>1, ResetType
  <2> QED BY <1>1, <2>2 DEF GhostsOK
<1>6. Types'
  <2>1. performs + 1 \in Nat
    BY DEF IInv, Types, ClientOK
  <2> QED BY <1>1, <1>2, <1>3, <1>4, <1>5, <2>1 DEF IInv, Types, CountsOK, ClientOK,
          StackOK
<1>7. Root'
  <2>1. 0 <= MaxRestarts /\ 0 # -1 /\ ~(Len(stack') > 1)
    BY <1>2, Assumed
  <2> QED BY <1>1, <1>2, <1>3, <2>1 DEF Root
<1> QED BY <1>2, <1>6, <1>7 DEF IInv

LEMMA ContinueKeeps == IInv /\ Continue => IInv'
<1> SUFFICES ASSUME IInv, Continue PROVE IInv'
  OBVIOUS
<1>1. /\ stack = <<>> /\ Call(current) /\ outcome' = "none"
      /\ UNCHANGED <<status, count, lcount, breakpoint, state, ruleIndex, curstart,
                     code, pending, budget, current, tables, performs, ret,
                     made, settled, applied, restarts>>
  BY DEF Continue, fields, function, ghosts
<1>2. /\ Shape' /\ stack' \in Seq(Frames) /\ stack' # <<>>
      /\ Len(stack') = 1 /\ stack'[1].pc = "perform"
  BY <1>1, AtRest
<1>3. Types'
  BY <1>1, <1>2 DEF IInv, Types, CountsOK, StatusOK, FunctionOK, GhostsOK, ClientOK,
     StackOK
<1>4. Root'
  <2>1. ~(Len(stack') > 1)
    BY <1>2
  <2> QED BY <1>1, <1>2, <2>1 DEF IInv, Root
<1> QED BY <1>2, <1>3, <1>4 DEF IInv
-----------------------------------------------------------------------------
LEMMA NextKeeps == IInv /\ [Next]_vars => IInv'
<1> SUFFICES ASSUME IInv, [Next]_vars PROVE IInv'
  OBVIOUS
<1>1. CASE Decompile \/ Continue
  BY <1>1, DecompileKeeps, ContinueKeeps
<1>2. CASE Perform
  BY <1>2, StartBreakKeeps, StartKeeps, EndedKeeps, ActionBreakKeeps, LoopKeeps,
     FinishKeeps DEF Perform
<1>3. CASE Apply
  BY <1>3, GroupNextKeeps, GroupMemberKeeps, GroupPartialKeeps, GroupDoneKeeps,
     NoRestartKeeps, RestartKeeps, LeafApplyKeeps, StageKeeps, StagedKeeps, ThrowKeeps,
     OpKeeps, RuleIdleKeeps, RuleAppliesKeeps DEF Apply
<1>4. CASE UNCHANGED vars
  <2>1. UNCHANGED <<status, count, lcount, breakpoint, state, ruleIndex, curstart,
                    code, pending, budget, current, outcome, tables, performs, stack,
                    ret, made, settled, applied, restarts>>
    BY <1>4 DEF vars, fields, function, client, ghosts
  <2> QED BY <2>1 DEF IInv, Types, CountsOK, StatusOK, FunctionOK, GhostsOK, ClientOK,
          StackOK, Shape, Catch, Root
<1> QED BY <1>1, <1>2, <1>3, <1>4 DEF Next, Engine

LEMMA SpecIInv == Spec => []IInv
BY InitIInv, NextKeeps, PTL DEF Spec

(* Every field of the actions and of the stack keeps its type, whatever    *)
(* the trees, the breakpoints and the order of perform, breakpoint,        *)
(* continue and exception.                                                 *)
THEOREM TypeCorrect == Spec => []TypeOK
<1>1. IInv => TypeOK
  BY TypesTypeOK DEF IInv
<1> QED BY <1>1, SpecIInv, PTL

(* ActionRestartGroup::apply: for any number of restarts, there are never  *)
(* more than maxrestarts, and a function that is left with a restart still *)
(* pending has used them all, breakpoints and continuations included.      *)
THEOREM RestartsHonoured == Spec => []RestartHonoured
BY SpecIInv, IInvRestarts, PTL
-----------------------------------------------------------------------------
(* The path of the actions in progress.  What the lists of a tree are.     *)
LEMMA Members ==
  ASSUME NEW a \in Actions
  PROVE  /\ \A k \in Nat \ {0} : k \in DOMAIN List[a] <=> k <= Len(List[a])
         /\ ~IsGroup(a) => DOMAIN List[a] = {}
         /\ a \in Below[a]
         /\ \A b \in Below[a] : b \in Actions /\ Below[b] \subseteq Below[a]
         /\ \A i \in DOMAIN List[a] :
              /\ i \in Nat \ {0}
              /\ List[a][i] \in Actions /\ List[a][i] \in Below[a]
              /\ List[a][i] # Universal /\ List[a][i] # JumpTable
              /\ List[a][i] # a /\ a \notin Below[List[a][i]]
         /\ \A b \in Actions : \A i \in DOMAIN List[a], j \in DOMAIN List[b] :
              List[a][i] = List[b][j] => a = b /\ i = j
<1>1. List[a] \in Seq(Actions) /\ Below[a] \subseteq Actions
  BY ActionsAssumption
<1>2. /\ \A k \in Nat \ {0} : k \in DOMAIN List[a] <=> k <= Len(List[a])
      /\ \A i \in DOMAIN List[a] : i \in Nat \ {0} /\ List[a][i] \in Actions
  BY <1>1
<1>3. ~IsGroup(a) => DOMAIN List[a] = {}
  <2>1. ~IsGroup(a) => List[a] = <<>>
    BY TreesAssumption DEF IsGroup
  <2> QED BY <2>1
<1>4. \A i \in DOMAIN List[a] :
        /\ List[a][i] \in Below[a] /\ List[a][i] # Universal /\ List[a][i] # JumpTable
        /\ a \notin Below[List[a][i]]
  BY TreesAssumption
<1>5. a \in Below[a] /\ \A b \in Below[a] : Below[b] \subseteq Below[a]
  BY TreesAssumption
<1>6. \A i \in DOMAIN List[a] : List[a][i] # a
  BY <1>4, <1>5
<1>7. \A b \in Actions : \A i \in DOMAIN List[a], j \in DOMAIN List[b] :
        List[a][i] = List[b][j] => a = b /\ i = j
  BY TreesAssumption
<1> QED BY <1>1, <1>2, <1>3, <1>4, <1>5, <1>6, <1>7

(* Each frame but the top one has called the one above it: a group the     *)
(* member it is at, a leaf the tree "jumptable".                           *)
Leads(i) ==
  IF stack[i].pc = "staging" THEN stack[i + 1].action = JumpTable
  ELSE /\ state[stack[i].action] \in DOMAIN List[stack[i].action]
       /\ stack[i + 1].action = List[stack[i].action][state[stack[i].action]]

(* So an action is never in progress twice, and none of "jumptable" is     *)
(* unless that tree is.                                                    *)
Path ==
  /\ \A i, j \in 1 .. Len(stack) :
       i < j => stack[i].action \notin Below[stack[j].action]
  /\ \A i \in 1 .. Len(stack) : i < Len(stack) => Leads(i)
  /\ \A i \in 1 .. Len(stack) :
       \/ stack[i].action \in Below[Universal]
       \/ /\ stack[i].action \in Below[JumpTable]
          /\ \E k \in 1 .. i : stack[k].action = JumpTable

(* Where an action is, if it is in progress.                               *)
Pc(a) == {stack[i].pc : i \in {i \in 1 .. Len(stack) : stack[i].action = a}}

LEMMA FrameTypes ==
  ASSUME IInv
  PROVE  /\ stack \in Seq(Frames) /\ Len(stack) \in Nat /\ (stack # <<>> <=> Len(stack) # 0)
         /\ \A i \in 1 .. Len(stack) :
              stack[i] \in Frames /\ stack[i].action \in Actions /\ stack[i].pc \in Pcs
<1>1. stack \in Seq(Frames) /\ Len(stack) \in Nat /\ (stack # <<>> <=> Len(stack) # 0)
  BY EmptySequence DEF IInv, Types, StackOK
<1>2. \A i \in 1 .. Len(stack) : stack[i] \in Frames
  BY <1>1
<1> QED BY <1>1, <1>2 DEF Frames

LEMMA OneFrame ==
  ASSUME IInv, Path, NEW i \in 1 .. Len(stack)
  PROVE  /\ \A j \in 1 .. Len(stack) : stack[j].action = stack[i].action => j = i
         /\ Pc(stack[i].action) = {stack[i].pc}
<1>1. stack \in Seq(Frames) /\ Len(stack) \in Nat
  BY FrameTypes
<1>2. \A j \in 1 .. Len(stack) : stack[j].action \in Below[stack[j].action]
  <2>1. \A j \in 1 .. Len(stack) : stack[j].action \in Actions
    BY FrameTypes
  <2>2. \A a \in Actions : a \in Below[a]
    BY Members
  <2> QED BY <2>1, <2>2
<1>3. \A j \in 1 .. Len(stack) : stack[j].action = stack[i].action => j = i
  <2> SUFFICES ASSUME NEW j \in 1 .. Len(stack), stack[j].action = stack[i].action
               PROVE  j = i
    OBVIOUS
  <2>1. ~(i < j) /\ ~(j < i)
    BY <1>2 DEF Path
  <2> QED BY <1>1, <2>1
<1> QED BY <1>3 DEF Pc

LEMMA PcShape ==
  ASSUME IInv, Path, stack # <<>>, NEW x, x = This
  PROVE  /\ Pc(x) = {Top.pc} /\ x \in Actions
         /\ \A a \in Actions \ {x} : Pc(a) \subseteq {"next", "staging"}
         /\ \A a : Pc(a) # {} => \E i \in 1 .. Len(stack) :
                                   stack[i].action = a /\ Pc(a) = {stack[i].pc}
<1>1. Pc(x) = {Top.pc} /\ x \in Actions
  BY Here, OneFrame DEF This
<1>2. \A a : Pc(a) # {} => \E i \in 1 .. Len(stack) :
                             stack[i].action = a /\ Pc(a) = {stack[i].pc}
  <2> SUFFICES ASSUME NEW a, Pc(a) # {}
               PROVE  \E i \in 1 .. Len(stack) :
                        stack[i].action = a /\ Pc(a) = {stack[i].pc}
    OBVIOUS
  <2>1. PICK i \in 1 .. Len(stack) : stack[i].action = a
    BY DEF Pc
  <2> QED BY <2>1, OneFrame
<1>3. ASSUME NEW a \in Actions \ {x} PROVE Pc(a) \subseteq {"next", "staging"}
  <2>1. SUFFICES ASSUME NEW i \in 1 .. Len(stack), stack[i].action = a
                 PROVE  stack[i].pc \in {"next", "staging"}
    BY DEF Pc
  <2>2. i # Len(stack) /\ Len(stack) \in Nat
    BY <2>1, Here DEF This
  <2>3. i < Len(stack)
    BY <2>2
  <2> QED BY <2>3 DEF IInv, Shape
<1> QED BY <1>1, <1>2, <1>3

(* The path when the stack is cut, to k frames.                            *)
LEMMA UnderPath ==
  ASSUME IInv, Path, NEW k \in 1 .. Len(stack), NEW pc \in Pcs,
         stack' = Under(k, pc),
         \A i \in 1 .. Len(stack) :
           i < k => state'[stack[i].action] = state[stack[i].action]
  PROVE  /\ Path'
         /\ \A a : Pc(a)' = IF a = stack[k].action THEN {pc}
                            ELSE IF \E i \in 1 .. Len(stack) : i > k /\ stack[i].action = a
                                 THEN {} ELSE Pc(a)
<1>1. /\ Len(stack') = k
      /\ \A i \in 1 .. k - 1 : stack'[i] = stack[i]
      /\ stack'[k].action = stack[k].action /\ stack'[k].pc = pc
  BY UnderParts DEF IInv, Types
<1>2. k \in Nat /\ k >= 1 /\ Len(stack) \in Nat /\ \A i \in 1 .. k : i \in 1 .. Len(stack)
  BY FrameTypes
<1>3. \A i \in 1 .. k : i < k => i \in 1 .. k - 1 /\ i + 1 \in 1 .. k
  BY <1>2
<1>4. \A i \in 1 .. k : i = k \/ i < k
  BY <1>2
<1>5. \A i \in 1 .. k : stack'[i].action = stack[i].action
  BY <1>1, <1>3, <1>4
<1>6. \A i, j \in 1 .. k : i < j => stack'[i].action \notin Below[stack'[j].action]
  BY <1>2, <1>5 DEF Path
<1>7. ASSUME NEW i \in 1 .. k, i < k PROVE Leads(i)'
  <2>1. i < Len(stack) /\ Leads(i)
    BY <1>2, <1>7 DEF Path
  <2>2. stack'[i] = stack[i] /\ stack'[i + 1].action = stack[i + 1].action
    BY <1>1, <1>3, <1>5, <1>7
  <2>3. state'[stack[i].action] = state[stack[i].action]
    BY <1>2, <1>7
  <2> QED BY <2>1, <2>2, <2>3 DEF Leads
<1>8. ASSUME NEW i \in 1 .. k
      PROVE  \/ stack'[i].action \in Below[Universal]
             \/ /\ stack'[i].action \in Below[JumpTable]
                /\ \E j \in 1 .. i : stack'[j].action = JumpTable
  <2>1. \A j \in 1 .. i : j \in 1 .. k
    BY <1>2
  <2> QED BY <1>2, <1>5, <2>1 DEF Path
<1>9. Path'
  BY <1>1, <1>6, <1>7, <1>8 DEF Path
<1>10. ASSUME NEW a
       PROVE  Pc(a)' = IF a = stack[k].action THEN {pc}
                       ELSE IF \E i \in 1 .. Len(stack) : i > k /\ stack[i].action = a
                            THEN {} ELSE Pc(a)
  <2>1. Pc(a)' = {stack'[i].pc : i \in {i \in 1 .. k : stack[i].action = a}}
    BY <1>1, <1>5 DEF Pc
  <2>2. CASE a = stack[k].action
    <3>1. {i \in 1 .. k : stack[i].action = a} = {k}
      BY <1>2, <2>2, OneFrame
    <3> QED BY <1>1, <2>1, <2>2, <3>1
  <2>3. CASE a # stack[k].action /\ \E i \in 1 .. Len(stack) : i > k /\ stack[i].action = a
    <3>1. PICK i \in 1 .. Len(stack) : i > k /\ stack[i].action = a
      BY <2>3
    <3>2. \A j \in 1 .. k : j # i
      BY <1>2, <3>1
    <3>3. {j \in 1 .. k : stack[j].action = a} = {}
      BY <1>2, <3>1, <3>2, OneFrame
    <3> QED BY <2>1, <2>3, <3>3
  <2>4. CASE a # stack[k].action
             /\ ~ \E i \in 1 .. Len(stack) : i > k /\ stack[i].action = a
    <3>1. {i \in 1 .. Len(stack) : stack[i].action = a}
            = {i \in 1 .. k : stack[i].action = a}
      BY <1>2, <2>4
    <3>2. \A i \in 1 .. k : stack[i].action = a => stack'[i].pc = stack[i].pc
      BY <1>1, <1>3, <1>4, <2>4
    <3>3. {stack'[i].pc : i \in {i \in 1 .. k : stack[i].action = a}}
            = {stack[i].pc : i \in {i \in 1 .. k : stack[i].action = a}}
      BY <3>2
    <3> QED BY <2>1, <2>4, <3>1, <3>3 DEF Pc
  <2> QED BY <2>2, <2>3, <2>4
<1> QED BY <1>9, <1>10

LEMMA EmptyPath == stack' = <<>> => Path' /\ \A a : Pc(a)' = {}
BY EmptySequence DEF Path, Pc

(* The path when an action is called.                                      *)
Pushing(b, n, pc) ==
  /\ n = Len(stack) /\ Len(stack') = n + 1
  /\ stack'[n + 1].action = b /\ stack'[n + 1].pc = "perform"
  /\ \A i \in 1 .. n : /\ stack'[i].action = stack[i].action
                       /\ stack'[i].pc = IF i = n THEN pc ELSE stack[i].pc
  /\ state' = state
  /\ \A i \in 1 .. n : stack[i].action \notin Below[b]
  /\ n > 0 => IF pc = "staging" THEN b = JumpTable
              ELSE /\ state[stack[n].action] \in DOMAIN List[stack[n].action]
                   /\ b = List[stack[n].action][state[stack[n].action]]
  /\ \/ b \in Below[Universal]
     \/ /\ b \in Below[JumpTable]
        /\ b = JumpTable \/ \E k \in 1 .. n : stack[k].action = JumpTable

Pushed(b, n, pc) ==
  \A a : Pc(a)' = IF a = b THEN {"perform"}
                  ELSE IF n > 0 /\ a = stack[n].action THEN {pc} ELSE Pc(a)

LEMMA PushPath ==
  ASSUME IInv, Path, NEW b \in Actions, NEW n, NEW pc, Pushing(b, n, pc)
  PROVE  Path' /\ Pushed(b, n, pc)
<1> USE DEF Pushing
<1>1. n \in Nat
  BY FrameTypes
<1>2. \A i \in 1 .. n + 1 : i \in 1 .. n \/ i = n + 1
  BY <1>1
<1>3. \A i, j \in 1 .. n + 1 : i < j => i \in 1 .. n
  BY <1>1
<1>4. \A i, j \in 1 .. n + 1 : i < j => stack'[i].action \notin Below[stack'[j].action]
  <2> SUFFICES ASSUME NEW i \in 1 .. n, NEW j \in 1 .. n + 1, i < j
               PROVE  stack'[i].action \notin Below[stack'[j].action]
    BY <1>3
  <2>1. CASE j \in 1 .. n
    BY <2>1 DEF Path
  <2>2. CASE j = n + 1
    BY <2>2
  <2> QED BY <1>2, <2>1, <2>2
<1>5. ASSUME NEW i \in 1 .. n + 1, i < n + 1 PROVE Leads(i)'
  <2>1. CASE i = n
    <3>1. n > 0 /\ n \in 1 .. n
      BY <1>1, <1>5, <2>1
    <3>2. stack'[n].action = stack[n].action /\ stack'[n].pc = pc
      BY <3>1
    <3> QED BY <2>1, <3>1, <3>2 DEF Leads
  <2>2. CASE i # n
    <3>1. i \in 1 .. n /\ i + 1 \in 1 .. n /\ i < n
      BY <1>1, <1>5, <2>2
    <3>2. Leads(i)
      BY <3>1 DEF Path
    <3> QED BY <2>2, <3>1, <3>2 DEF Leads
  <2> QED BY <2>1, <2>2
<1>6. ASSUME NEW i \in 1 .. n + 1
      PROVE  \/ stack'[i].action \in Below[Universal]
             \/ /\ stack'[i].action \in Below[JumpTable]
                /\ \E j \in 1 .. i : stack'[j].action = JumpTable
  <2>1. CASE i = n + 1
    <3>1. i \in 1 .. i /\ \A k \in 1 .. n : k \in 1 .. i
      BY <1>1, <2>1
    <3> QED BY <2>1, <3>1
  <2>2. CASE i \in 1 .. n
    <3>1. \A k \in 1 .. i : k \in 1 .. n
      BY <1>1, <2>2
    <3> QED BY <2>2, <3>1 DEF Path
  <2> QED BY <1>2, <2>1, <2>2
<1>7. Path'
  BY <1>4, <1>5, <1>6 DEF Path
<1>8. ASSUME NEW a
      PROVE  Pc(a)' = IF a = b THEN {"perform"}
                      ELSE IF n > 0 /\ a = stack[n].action THEN {pc} ELSE Pc(a)
  <2>1. \A i \in 1 .. n : stack[i].action # b
    BY Members
  <2>2. CASE a = b
    <3>1. {i \in 1 .. n + 1 : stack'[i].action = a} = {n + 1}
      BY <1>1, <1>2, <2>1, <2>2
    <3> QED BY <2>2, <3>1 DEF Pc
  <2>3. CASE a # b
    <3>1. {i \in 1 .. n + 1 : stack'[i].action = a} = {i \in 1 .. n : stack[i].action = a}
      BY <1>1, <1>2, <2>3
    <3>2. Pc(a)' = {stack'[i].pc : i \in {i \in 1 .. n : stack[i].action = a}}
      BY <3>1 DEF Pc
    <3>3. CASE n > 0 /\ a = stack[n].action
      <4>1. n \in 1 .. n
        BY <1>1, <3>3
      <4>2. {i \in 1 .. n : stack[i].action = a} = {n}
        BY <3>3, <4>1, OneFrame
      <4> QED BY <2>3, <3>2, <3>3, <4>1, <4>2
    <3>4. CASE ~(n > 0 /\ a = stack[n].action)
      <4>1. \A i \in 1 .. n : stack[i].action = a => i # n
        BY <1>1, <3>4
      <4>2. \A i \in 1 .. n : stack[i].action = a => stack'[i].pc = stack[i].pc
        BY <4>1
      <4>3. {stack'[i].pc : i \in {i \in 1 .. n : stack[i].action = a}}
              = {stack[i].pc : i \in {i \in 1 .. n : stack[i].action = a}}
        BY <4>2
      <4> QED BY <2>3, <3>2, <3>4, <4>3 DEF Pc
    <3> QED BY <3>3, <3>4
  <2> QED BY <2>2, <2>3
<1> QED BY <1>7, <1>8 DEF Pushed
-----------------------------------------------------------------------------
(* The account of changes.  An action is busy from the moment it counts    *)
(* anew until perform returns its count, however often it is interrupted   *)
(* in between; it then owes its caller all the changes made in it.         *)
Busy(a) == status[a] \notin {"start", "end"} \/ \E p \in Pc(a) : p # "perform"

Owed(a, M) == IF Busy(a) THEN M[a] ELSE 0

(* What a group has yet to add to its count: what the member it is at owes *)
(* it, or has just returned.                                               *)
Due(a, M) ==
  IF IsGroup(a) /\ "returned" \in Pc(a) /\ ret >= 0 THEN ret
  ELSE IF state[a] \in DOMAIN List[a] THEN Owed(List[a][state[a]], M) ELSE 0

Idle(a) == \A i \in DOMAIN List[a] : ~Busy(List[a][i])

(* Outside of a pass through its members, and between two of them.         *)
Through(a) ==
  "applied" \in Pc(a) \/ (Pc(a) \subseteq {"perform"} /\ status[a] # "mid")

Resting(a) == Through(a) \/ ("returned" \in Pc(a) /\ ret >= 0)

(* No member but the one a group is at is busy, and none while the group   *)
(* rests; what it counted and what is due are what was made since it began.*)
(* M and C stand for made and count.                                       *)
Balanced(a, M, C) ==
  /\ \A i \in DOMAIN List[a] : i # state[a] => ~Busy(List[a][i])
  /\ Resting(a) => Idle(a)
  /\ Kind[a] = "restart" /\ curstart[a] = -1 => Through(a)
  /\ Busy(a) => M[a] = C[a] + Due(a, M)

(* The trees this is true of: that of the client until it has ended or an  *)
(* error has ended it, and "jumptable" while it is performed.              *)
Live(a) ==
  \/ a \in Below[Universal] /\ (stack # <<>> \/ outcome = "interrupted")
  \/ a \in Below[JumpTable] /\ Pc(JumpTable) # {}

AllBalanced(M, C) == \A a \in Actions : Live(a) => Balanced(a, M, C)

Accounts == AllBalanced(made, count)

(* A step leaves all actions but one as they are; M and C again stand for  *)
(* made and count, as they are when a change has just been made.           *)
Elsewhere(x, M, C) ==
  \A a \in Actions \ {x} :
    /\ made'[a] = M[a] /\ count'[a] = C[a]
    /\ status'[a] = status[a] /\ state'[a] = state[a] /\ curstart'[a] = curstart[a]

LEMMA Unmoved ==
  ASSUME NEW a, NEW M, Pc(a)' = Pc(a), status'[a] = status[a], made'[a] = M[a]
  PROVE  (Busy(a)' <=> Busy(a)) /\ Owed(a, made)' = Owed(a, M)
BY DEF Busy, Owed

LEMMA StillBalanced ==
  ASSUME NEW a \in Actions, NEW M, NEW C, Balanced(a, M, C),
         made'[a] = M[a], count'[a] = C[a], status'[a] = status[a],
         state'[a] = state[a], curstart'[a] = curstart[a], Pc(a)' = Pc(a),
         "returned" \notin Pc(a),
         \A i \in DOMAIN List[a] :
           (i # state[a] \/ Resting(a)) =>
             (Busy(List[a][i])' => Busy(List[a][i])),
         state[a] \in DOMAIN List[a] =>
           Owed(List[a][state[a]], made)' = Owed(List[a][state[a]], M)
  PROVE  Balanced(a, made, count)'
<1>1. (Busy(a)' <=> Busy(a)) /\ (Through(a)' <=> Through(a))
      /\ (Resting(a)' <=> Resting(a))
  BY DEF Busy, Through, Resting
<1>2. Due(a, made)' = Due(a, M)
  BY DEF Due
<1>3. Resting(a) => Idle(a)'
  BY DEF Balanced, Idle
<1> QED BY <1>1, <1>2, <1>3 DEF Balanced

(* Who calls an action in progress, and at which place of its list.        *)
LEMMA Caller ==
  ASSUME IInv, Path, NEW j \in 1 .. Len(stack),
         NEW a \in Actions, NEW i \in DOMAIN List[a], List[a][i] = stack[j].action
  PROVE  /\ j - 1 \in 1 .. Len(stack) /\ j - 1 < j
         /\ a = stack[j - 1].action /\ i = state[a] /\ stack[j - 1].pc = "next"
<1>1. PICK x : x = stack[j].action
  OBVIOUS
<1>2. x # Universal /\ x # JumpTable /\ x \in Actions
  BY <1>1, Members
<1>3. Len(stack) \in Nat /\ stack # <<>> /\ j \in Nat /\ j >= 1
  BY FrameTypes
<1>4. j # 1
  BY <1>1, <1>2, <1>3 DEF IInv, Shape
<1>5. j - 1 \in 1 .. Len(stack) /\ j - 1 < j /\ (j - 1) + 1 = j /\ j - 1 < Len(stack)
  BY <1>3, <1>4
<1>6. Leads(j - 1)
  BY <1>5 DEF Path
<1>7. stack[j - 1].pc = "next" /\ stack[j - 1].action \in Actions
  BY <1>1, <1>2, <1>5, <1>6, FrameTypes DEF Leads, IInv, Shape
<1>8. /\ state[stack[j - 1].action] \in DOMAIN List[stack[j - 1].action]
      /\ x = List[stack[j - 1].action][state[stack[j - 1].action]]
  BY <1>1, <1>5, <1>6, <1>7 DEF Leads
<1>9. a = stack[j - 1].action /\ i = state[stack[j - 1].action]
  BY <1>1, <1>7, <1>8, Members
<1> QED BY <1>5, <1>7, <1>9

LEMMA Owner ==
  ASSUME IInv, Path, stack # <<>>, NEW x, x = This, NEW n, n = Len(stack),
         NEW a \in Actions, NEW i \in DOMAIN List[a], List[a][i] = x
  PROVE  /\ n > 1 /\ n - 1 \in 1 .. n /\ n - 1 < n
         /\ a = stack[n - 1].action /\ i = state[a] /\ stack[n - 1].pc = "next"
<1>1. n \in 1 .. Len(stack) /\ n \in Nat /\ x = stack[n].action
  BY Here DEF This
<1>2. /\ n - 1 \in 1 .. Len(stack) /\ n - 1 < n
      /\ a = stack[n - 1].action /\ i = state[a] /\ stack[n - 1].pc = "next"
  BY <1>1, Caller
<1> QED BY <1>1, <1>2

LEMMA AllLive ==
  ASSUME IInv, Path, NEW i \in 1 .. Len(stack)
  PROVE  Live(stack[i].action)
<1>1. stack # <<>>
  BY FrameTypes
<1>2. \A k \in 1 .. i : k \in 1 .. Len(stack)
  BY FrameTypes
<1>3. (\E k \in 1 .. i : stack[k].action = JumpTable) => Pc(JumpTable) # {}
  BY <1>2 DEF Pc
<1> QED BY <1>1, <1>3 DEF Path, Live

(* A step of the action on top that neither calls nor returns.             *)
Turn(x, pc) ==
  Path' /\ stack' # <<>> /\ Pc(x)' = {pc} /\ \A a \in Actions \ {x} : Pc(a)' = Pc(a)

LEMMA GotoTurns ==
  ASSUME IInv, Path, stack # <<>>, NEW x, x = This, NEW M, NEW C, Elsewhere(x, M, C),
         NEW pc \in Pcs, stack' = Under(Len(stack), pc)
  PROVE  Turn(x, pc)
<1> DEFINE n == Len(stack)
<1>1. n \in 1 .. Len(stack) /\ x = stack[n].action /\ n \in Nat
  BY Here DEF This
<1>2. \A i \in 1 .. n : i < n => stack[i].action \in Actions \ {x}
  BY <1>1, OneFrame, FrameTypes
<1>3. \A i \in 1 .. n : i < n => state'[stack[i].action] = state[stack[i].action]
  BY <1>2 DEF Elsewhere
<1>4. ~ \E i \in 1 .. n : i > n
  BY <1>1
<1>5. stack' # <<>>
  BY <1>1, UnderParts DEF IInv, Types
<1> HIDE DEF n
<1>6. /\ Path'
      /\ \A a : Pc(a)' = IF a = stack[n].action THEN {pc}
                         ELSE IF \E i \in 1 .. Len(stack) : i > n /\ stack[i].action = a
                              THEN {} ELSE Pc(a)
  BY <1>1, <1>3, UnderPath DEF n
<1> QED BY <1>1, <1>4, <1>5, <1>6 DEF Turn, n

LEMMA StayTurns ==
  ASSUME IInv, Path, stack # <<>>, NEW x, x = This, NEW M, NEW C, Elsewhere(x, M, C),
         stack' = stack
  PROVE  Turn(x, Top.pc)
<1> DEFINE n == Len(stack)
<1>1. n \in 1 .. Len(stack) /\ x = stack[n].action /\ n \in Nat
  BY Here DEF This
<1>2. \A i \in 1 .. n : i < n => stack[i].action \in Actions \ {x}
  BY <1>1, OneFrame, FrameTypes
<1>3. \A i \in 1 .. n : i < n => state'[stack[i].action] = state[stack[i].action]
  BY <1>2 DEF Elsewhere
<1>4. Path'
  BY <1>3 DEF Path, Leads
<1>5. \A a : Pc(a)' = Pc(a)
  BY DEF Pc
<1> QED BY <1>4, <1>5, PcShape DEF Turn

LEMMA TurnKeeps ==
  ASSUME IInv, Path, stack # <<>>, NEW x, x = This, NEW M, NEW C, Elsewhere(x, M, C),
         NEW pc, Turn(x, pc)
  PROVE  /\ Pc(x) = {Top.pc} /\ x \in Actions /\ Live(x)
         /\ \A a \in Actions \ {x} : /\ "returned" \notin Pc(a)
                                     /\ Busy(a)' <=> Busy(a)
                                     /\ Owed(a, made)' = Owed(a, M)
         /\ \A a \in Actions : Live(a)' <=> Live(a)
         /\ \A i \in DOMAIN List[x] :
              /\ Busy(List[x][i])' <=> Busy(List[x][i])
              /\ Owed(List[x][i], made)' = Owed(List[x][i], M)
<1>1. Pc(x) = {Top.pc} /\ x \in Actions
      /\ \A a \in Actions \ {x} : Pc(a) \subseteq {"next", "staging"}
  BY PcShape
<1>2. \A a \in Actions \ {x} : /\ "returned" \notin Pc(a)
                               /\ Busy(a)' <=> Busy(a)
                               /\ Owed(a, made)' = Owed(a, M)
  BY <1>1, Unmoved DEF Turn, Elsewhere
<1>3. \A i \in DOMAIN List[x] : List[x][i] \in Actions \ {x}
  BY <1>1, Members
<1>4. Pc(JumpTable)' # {} <=> Pc(JumpTable) # {}
  BY <1>1, Assumed DEF Turn
<1>5. \A a \in Actions : Live(a)' <=> Live(a)
  BY <1>4 DEF Live, Turn
<1>6. Live(x)
  BY Here, AllLive DEF This
<1> QED BY <1>1, <1>2, <1>3, <1>5, <1>6

LEMMA TurnBalances ==
  ASSUME IInv, Path, stack # <<>>, NEW x, x = This, NEW M, NEW C, Elsewhere(x, M, C),
         AllBalanced(M, C), NEW pc, Turn(x, pc),
         Owed(x, made)' = Owed(x, M), Balanced(x, made, count)'
  PROVE  Path' /\ Accounts'
<1>1. /\ x \in Actions
      /\ \A a \in Actions \ {x} : /\ "returned" \notin Pc(a)
                                  /\ Busy(a)' <=> Busy(a)
                                  /\ Owed(a, made)' = Owed(a, M)
      /\ \A a \in Actions : Live(a)' <=> Live(a)
  BY TurnKeeps
<1>2. ASSUME NEW a \in Actions, Live(a)' PROVE Balanced(a, made, count)'
  <2>1. CASE a = x
    BY <2>1
  <2>2. CASE a # x
    <3>1. /\ Balanced(a, M, C) /\ made'[a] = M[a] /\ count'[a] = C[a]
          /\ status'[a] = status[a] /\ state'[a] = state[a]
          /\ curstart'[a] = curstart[a] /\ Pc(a)' = Pc(a) /\ "returned" \notin Pc(a)
      BY <1>1, <1>2, <2>2 DEF AllBalanced, Elsewhere, Turn
    <3>2. ASSUME NEW i \in DOMAIN List[a], i # state[a] \/ Resting(a)
          PROVE  Busy(List[a][i])' => Busy(List[a][i])
      <4>1. CASE List[a][i] = x
        <5>1. /\ Len(stack) - 1 \in 1 .. Len(stack) /\ a = stack[Len(stack) - 1].action
              /\ i = state[a] /\ stack[Len(stack) - 1].pc = "next"
          BY <4>1, Owner
        <5>3. Pc(a) = {"next"}
          BY <5>1, OneFrame
        <5>2. ~Resting(a)
          BY <5>3 DEF Resting, Through
        <5> QED BY <3>2, <5>1, <5>2
      <4>2. CASE List[a][i] # x
        BY <1>1, <4>2, Members
      <4> QED BY <4>1, <4>2
    <3>3. state[a] \in DOMAIN List[a] =>
            Owed(List[a][state[a]], made)' = Owed(List[a][state[a]], M)
      <4>1. \A b \in Actions : Owed(b, made)' = Owed(b, M)
        BY <1>1
      <4>2. state[a] \in DOMAIN List[a] => List[a][state[a]] \in Actions
        BY Members
      <4>3. state'[a] = state[a]
        BY <3>1
      <4> QED BY <4>1, <4>2, <4>3
    <3> QED BY <3>1, <3>2, <3>3, StillBalanced
  <2> QED BY <2>1, <2>2
<1> QED BY <1>2 DEF Accounts, AllBalanced, Turn

(* A step that returns from the action on top, to its caller y if any.     *)
Back(x, y) ==
  /\ Path' /\ stack' # <<>> /\ Pc(x)' = {} /\ Pc(y)' = {"returned"}
  /\ y \in Actions \ {x}
  /\ \A a \in Actions \ {x, y} : Pc(a)' = Pc(a)

LEMMA ReturnPcs ==
  ASSUME IInv, Path, stack # <<>>, NEW x, x = This, NEW M, NEW C, Elsewhere(x, M, C),
         NEW r, Return(r), NEW n, n = Len(stack)
  PROVE  /\ n = 1 => Path' /\ stack' = <<>> /\ \A a : Pc(a)' = {}
         /\ n > 1 => \E y : y = stack[n - 1].action /\ Back(x, y)
<1>1. n \in 1 .. Len(stack) /\ x = stack[n].action /\ n \in Nat
  BY Here DEF This
<1>2. CASE n = 1
  <2>1. stack' = <<>>
    BY <1>2 DEF Return
  <2> QED BY <1>2, <2>1, EmptyPath
<1>3. CASE n > 1
  <2>0. PICK k : k = n - 1
    OBVIOUS
  <2>11. PICK y : y = stack[k].action
    OBVIOUS
  <2>1. k \in 1 .. Len(stack) /\ k \in Nat /\ k < n
    BY <1>1, <1>3, <2>0
  <2>2. stack' = Under(k, "returned") /\ "returned" \in Pcs
    BY <1>3, <2>0, Here, Zenon DEF Return, Pcs
  <2>3. \A i \in 1 .. Len(stack) : i > k <=> i = n
    BY <1>1, <2>0
  <2>4. y # x /\ y \in Actions
    BY <1>1, <2>1, <2>11, OneFrame, FrameTypes
  <2>5. \A i \in 1 .. Len(stack) : i < k => stack[i].action \in Actions \ {x}
    BY <1>1, <2>1, OneFrame, FrameTypes
  <2>6. \A i \in 1 .. Len(stack) :
          i < k => state'[stack[i].action] = state[stack[i].action]
    BY <2>5 DEF Elsewhere
  <2>7. stack' # <<>>
    BY <2>1, <2>2, UnderParts DEF IInv, Types
  <2>8. /\ Path'
        /\ \A a : Pc(a)' = IF a = stack[k].action THEN {"returned"}
                           ELSE IF \E i \in 1 .. Len(stack) : i > k /\ stack[i].action = a
                                THEN {} ELSE Pc(a)
    BY <2>1, <2>2, <2>6, UnderPath
  <2>9. \A a : (\E i \in 1 .. Len(stack) : i > k /\ stack[i].action = a) <=> a = x
    BY <1>1, <2>3
  <2>10. Back(x, y)
    BY <2>4, <2>7, <2>8, <2>9, <2>11 DEF Back
  <2> QED BY <1>3, <2>0, <2>10, <2>11
<1>4. n = 1 \/ n > 1
  BY <1>1, OneOrMore
<1> QED BY <1>2, <1>3, <1>4

LEMMA ReturnBalances ==
  ASSUME IInv, Path, stack # <<>>, NEW x, x = This, NEW M, NEW C, Elsewhere(x, M, C),
         AllBalanced(M, C), NEW r \in Nat \cup {-1}, Return(r),
         r = -1 => Owed(x, made)' = Owed(x, M),
         r # -1 => ~Busy(x)' /\ Owed(x, M) = r,
         Balanced(x, made, count)'
  PROVE  Path' /\ Accounts'
<1> DEFINE n == Len(stack)
<1>1. n \in 1 .. Len(stack) /\ x = stack[n].action /\ n \in Nat /\ x \in Actions
      /\ Pc(x) = {Top.pc} /\ (n = 1 => x = Universal)
  BY Here, PcShape DEF This
<1>2. /\ n = 1 => Path' /\ stack' = <<>> /\ \A a : Pc(a)' = {}
      /\ n > 1 => \E y : y = stack[n - 1].action /\ Back(x, y)
  BY ReturnPcs
<1>3. ret' = r
  BY DEF Return
<1>4. CASE n = 1
  <2>1. ASSUME NEW a \in Actions, Live(a)', a # x PROVE Balanced(a, made, count)'
    <3>1. a \in Below[Universal] /\ Live(a)
      BY <1>2, <1>4, <2>1 DEF Live
    <3>2. \A b \in Actions \ {x} : Pc(b) = {} /\ Pc(b)' = Pc(b)
      BY <1>1, <1>2, <1>4 DEF Pc
    <3>3. \A b \in Actions \ {x} : (Busy(b)' <=> Busy(b)) /\ Owed(b, made)' = Owed(b, M)
      BY <3>2, Unmoved DEF Elsewhere
    <3>4. \A i \in DOMAIN List[a] : List[a][i] \in Actions \ {x}
      BY <1>1, <1>4, Members
    <3>5. /\ Balanced(a, M, C) /\ made'[a] = M[a] /\ count'[a] = C[a]
          /\ status'[a] = status[a] /\ state'[a] = state[a]
          /\ curstart'[a] = curstart[a] /\ Pc(a)' = Pc(a) /\ "returned" \notin Pc(a)
      BY <2>1, <3>1, <3>2 DEF AllBalanced, Elsewhere
    <3> QED BY <3>3, <3>4, <3>5, StillBalanced
  <2> QED BY <1>2, <1>4, <2>1 DEF Accounts, AllBalanced
<1>5. CASE n > 1
  <2>0. PICK k : k = n - 1
    OBVIOUS
  <2>12. PICK y : y = stack[k].action /\ Back(x, y)
    BY <1>2, <1>5, <2>0
  <2>1. k \in 1 .. Len(stack) /\ k < n /\ k + 1 = n
    BY <1>1, <1>5, <2>0
  <2>2. Back(x, y) /\ Pc(y) = {stack[k].pc} /\ Live(y)
    BY <2>1, <2>12, OneFrame, AllLive
  <2>3. Leads(k) /\ stack[k].pc \in {"next", "staging"}
    BY <2>1 DEF Path, IInv, Shape
  <2>4. stack[k].pc = "next" => /\ state[y] \in DOMAIN List[y]
                                /\ x = List[y][state[y]] /\ IsGroup(y)
    BY <1>1, <2>1, <2>3, <2>12 DEF Leads, IInv, Shape
  <2>5. stack[k].pc = "staging" => ~IsGroup(y)
    <3>1. stack[k].pc = "staging" => y \in FollowsFlow
      BY <2>1, <2>12 DEF IInv, Shape, Catch
    <3> QED BY <3>1, Trees DEF IsGroup
  <2>6. ASSUME NEW a \in Actions, NEW i \in DOMAIN List[a], List[a][i] = x
        PROVE  a = y /\ i = state[a]
    BY <2>0, <2>6, <2>12, Owner
  <2> HIDE DEF n
  <2>7. y \in Actions \ {x} /\ (Busy(y)' <=> Busy(y)) /\ Busy(y) /\ Pc(y)' = {"returned"}
        /\ ~Through(y) /\ ~Through(y)'
    <3>1. Busy(y) /\ ~Through(y)
      BY <2>2, <2>3 DEF Busy, Through
    <3>2. Pc(y)' = {"returned"} /\ y \in Actions \ {x}
      BY <2>2 DEF Back
    <3>3. Busy(y)' /\ ~Through(y)'
      BY <3>2 DEF Busy, Through
    <3> QED BY <3>1, <3>2, <3>3
  <2>8. \A b \in Actions \ {x} : (Busy(b)' <=> Busy(b)) /\ Owed(b, made)' = Owed(b, M)
    <3> SUFFICES ASSUME NEW b \in Actions \ {x}
                 PROVE  (Busy(b)' <=> Busy(b)) /\ Owed(b, made)' = Owed(b, M)
      OBVIOUS
    <3>1. CASE b = y
      BY <2>7, <3>1 DEF Owed, Elsewhere
    <3>2. CASE b # y
      BY <2>2, <3>2, Unmoved DEF Back, Elsewhere
    <3> QED BY <3>1, <3>2
  <2>9. Balanced(y, M, C)
    BY <2>2, <2>7 DEF AllBalanced
  <2>10. Balanced(y, made, count)'
    <3>1. \A i \in DOMAIN List[y] : List[y][i] = x \/ List[y][i] \in Actions \ {x}
      BY <2>7, Members
    <3>2. /\ status'[y] = status[y] /\ state'[y] = state[y] /\ curstart'[y] = curstart[y]
          /\ made'[y] = M[y] /\ count'[y] = C[y]
      BY <2>7 DEF Elsewhere
    <3>3. \A i \in DOMAIN List[y] : i # state[y] => ~Busy(List[y][i])'
      <4> SUFFICES ASSUME NEW i \in DOMAIN List[y], i # state[y]
                   PROVE  ~Busy(List[y][i])'
        OBVIOUS
      <4>1. List[y][i] \in Actions \ {x}
        BY <2>6, <2>7, <3>1
      <4> QED BY <2>8, <2>9, <4>1 DEF Balanced
    <3>4. Kind[y] = "restart" => curstart[y] # -1
      BY <2>7, <2>9 DEF Balanced
    <3>5. M[y] = C[y] + Due(y, M)
      BY <2>7, <2>9 DEF Balanced
    <3>6. CASE stack[k].pc = "staging"
      <4>1. DOMAIN List[y] = {} /\ ~IsGroup(y)
        BY <2>5, <2>7, <3>6, Members
      <4>2. Due(y, M) = 0 /\ Due(y, made)' = 0 /\ Idle(y)'
        BY <4>1 DEF Due, Idle
      <4> QED BY <3>2, <3>4, <3>5, <4>1, <4>2 DEF Balanced
    <3>7. CASE stack[k].pc = "next"
      <4>1. /\ state[y] \in DOMAIN List[y] /\ x = List[y][state[y]] /\ IsGroup(y)
            /\ Pc(y) = {"next"}
        BY <2>2, <2>4, <3>7
      <4>2. Due(y, M) = Owed(x, M)
        BY <4>1 DEF Due
      <4>3. CASE r = -1
        <5>1. ~(ret' >= 0)
          BY <1>3, <4>3
        <5>2. Due(y, made)' = Owed(x, made)' /\ ~Resting(y)'
          BY <2>7, <3>2, <4>1, <5>1 DEF Due, Resting
        <5> QED BY <3>2, <3>3, <3>4, <3>5, <4>2, <4>3, <5>2 DEF Balanced
      <4>4. CASE r # -1
        <5>1. ret' >= 0 /\ ret' = r
          BY <1>3, <4>4
        <5>2. Due(y, made)' = r
          BY <2>7, <4>1, <5>1 DEF Due
        <5>3. Idle(y)'
          BY <3>3, <4>1, <4>4 DEF Idle
        <5> QED BY <3>2, <3>3, <3>4, <3>5, <4>2, <4>4, <5>2, <5>3 DEF Balanced
      <4> QED BY <4>3, <4>4
    <3> QED BY <2>3, <3>6, <3>7
  <2>11. ASSUME NEW a \in Actions \ {x, y}, Live(a)' PROVE Balanced(a, made, count)'
    <3>1. Live(a)
      <4>1. Pc(JumpTable)' # {} => Pc(JumpTable) # {}
        BY <2>2, <2>3, Assumed DEF Back
      <4> QED BY <2>11, <4>1 DEF Live
    <3>2. /\ Balanced(a, M, C) /\ made'[a] = M[a] /\ count'[a] = C[a]
          /\ status'[a] = status[a] /\ state'[a] = state[a]
          /\ curstart'[a] = curstart[a] /\ Pc(a)' = Pc(a)
      BY <2>2, <3>1 DEF AllBalanced, Elsewhere, Back
    <3>3. "returned" \notin Pc(a)
      BY PcShape
    <3>4. \A i \in DOMAIN List[a] : List[a][i] \in Actions \ {x}
      BY <2>6, Members
    <3> QED BY <2>8, <3>2, <3>3, <3>4, StillBalanced
  <2>13. ASSUME NEW a \in Actions, Live(a)' PROVE Balanced(a, made, count)'
    <3>1. CASE a = x
      BY <3>1
    <3>2. CASE a = y
      BY <2>10, <3>2
    <3>3. CASE a # x /\ a # y
      BY <2>11, <2>13, <3>3
    <3> QED BY <3>1, <3>2, <3>3
  <2> QED BY <2>2, <2>13 DEF Accounts, AllBalanced, Back
<1>6. n = 1 \/ n > 1
  BY Here
<1> QED BY <1>4, <1>5, <1>6

(* What a step finds and leaves of the members of the action on top.       *)
LEMMA ReturnKept ==
  ASSUME IInv, Path, stack # <<>>, NEW x, x = This, NEW M, NEW C, Elsewhere(x, M, C),
         NEW r, Return(r)
  PROVE  /\ Pc(x) = {Top.pc} /\ x \in Actions /\ Live(x) /\ Pc(x)' = {}
         /\ \A i \in DOMAIN List[x] :
              /\ Busy(List[x][i])' <=> Busy(List[x][i])
              /\ Owed(List[x][i], made)' = Owed(List[x][i], M)
<1> DEFINE n == Len(stack)
<1>1. n \in 1 .. Len(stack) /\ x = stack[n].action /\ n \in Nat /\ x \in Actions
      /\ Pc(x) = {Top.pc} /\ (n = 1 \/ n > 1)
  BY Here, PcShape DEF This
<1>2. Live(x)
  BY <1>1, AllLive
<1>3. /\ n = 1 => Path' /\ stack' = <<>> /\ \A a : Pc(a)' = {}
      /\ n > 1 => \E y : y = stack[n - 1].action /\ Back(x, y)
  BY ReturnPcs
<1>4. \A i \in DOMAIN List[x] : List[x][i] \in Actions \ {x} /\ List[x][i] \in Below[x]
  BY <1>1, Members
<1>5. Pc(x)' = {}
  BY <1>1, <1>3 DEF Back
<1>6. ASSUME NEW i \in DOMAIN List[x] PROVE Pc(List[x][i])' = Pc(List[x][i])
  <2>1. CASE n = 1
    <3>1. Pc(List[x][i]) = {}
      BY <1>1, <1>4, <2>1 DEF Pc
    <3> QED BY <1>3, <2>1, <3>1
  <2>2. CASE n > 1
    <3>1. PICK y : y = stack[n - 1].action /\ Back(x, y)
      BY <1>3, <2>2
    <3>2. n - 1 \in 1 .. n /\ n - 1 < n
      BY <1>1, <2>2
    <3>3. y \notin Below[x]
      BY <1>1, <3>1, <3>2 DEF Path
    <3> QED BY <1>4, <3>1, <3>3 DEF Back
  <2> QED BY <1>1, <2>1, <2>2
<1>7. ASSUME NEW i \in DOMAIN List[x]
      PROVE  /\ Busy(List[x][i])' <=> Busy(List[x][i])
             /\ Owed(List[x][i], made)' = Owed(List[x][i], M)
  <2>1. PICK b : b = List[x][i]
    OBVIOUS
  <2>2. /\ Pc(b)' = Pc(b) /\ status'[b] = status[b] /\ made'[b] = M[b]
    BY <1>4, <1>6, <2>1 DEF Elsewhere
  <2>3. (Busy(b)' <=> Busy(b)) /\ Owed(b, made)' = Owed(b, M)
    BY <2>2, Unmoved
  <2> QED BY <2>1, <2>3
<1> QED BY <1>1, <1>2, <1>5, <1>7

LEMMA ReturnIdle ==
  ASSUME IInv, Path, stack # <<>>, NEW x, x = This, NEW M, NEW C, Elsewhere(x, M, C),
         NEW r, Return(r), Idle(x)
  PROVE  Idle(x)'
BY ReturnKept DEF Idle

LEMMA TurnIdle ==
  ASSUME IInv, Path, stack # <<>>, NEW x, x = This, NEW M, NEW C, Elsewhere(x, M, C),
         NEW pc, Turn(x, pc), Idle(x)
  PROVE  Idle(x)'
BY TurnKeeps DEF Idle

LEMMA IdleBalanced ==
  ASSUME NEW x, Idle(x)', ~Busy(x)' \/ made'[x] = count'[x],
         "returned" \notin Pc(x)', made'[x] \in Nat, count'[x] \in Nat,
         (Kind[x] = "restart" /\ curstart'[x] = -1) => Through(x)'
  PROVE  Balanced(x, made, count)'
<1>1. Due(x, made)' = 0
  BY DEF Due, Idle, Owed
<1>2. count'[x] + 0 = count'[x]
  OBVIOUS
<1> QED BY <1>1, <1>2 DEF Balanced, Idle

(* What is known of the action on top before a step.                       *)
LEMMA OnTop ==
  ASSUME IInv, Path, Accounts, stack # <<>>, NEW x, x = This
  PROVE  /\ x \in Actions /\ Pc(x) = {Top.pc} /\ Live(x)
         /\ Balanced(x, made, count) /\ AllBalanced(made, count)
         /\ made[x] \in Nat /\ count[x] \in Nat
         /\ Resting(x) /\ Top.pc # "returned" =>
              Idle(x) /\ (Busy(x) => made[x] = count[x])
<1>1. x \in Actions /\ Pc(x) = {Top.pc} /\ Live(x)
  BY Here, PcShape, AllLive DEF This
<1>2. made[x] \in Nat /\ count[x] \in Nat
  BY <1>1 DEF IInv, Types, CountsOK, GhostsOK
<1>3. Balanced(x, made, count) /\ AllBalanced(made, count)
  BY <1>1 DEF Accounts, AllBalanced
<1>4. ASSUME Resting(x), Top.pc # "returned"
      PROVE  Idle(x) /\ (Busy(x) => made[x] = count[x])
  <2>1. Idle(x)
    BY <1>3, <1>4 DEF Balanced
  <2>2. Due(x, made) = 0
    BY <1>1, <1>4, <2>1 DEF Due, Idle, Owed
  <2> QED BY <1>2, <1>3, <2>1, <2>2 DEF Balanced
<1> QED BY <1>1, <1>2, <1>3, <1>4
-----------------------------------------------------------------------------
(* The steps of perform.                                                   *)
AInv == IInv /\ Path /\ Accounts

LEMMA StartBreakBalances == AInv /\ StartBreak => Path' /\ Accounts'
<1> SUFFICES ASSUME AInv, StartBreak PROVE Path' /\ Accounts'
  OBVIOUS
<1>1. PICK x : x = This
  OBVIOUS
<1>2. /\ stack # <<>> /\ Top.pc = "perform" /\ status[x] = "start" /\ Return(-1)
      /\ status' = [status EXCEPT ![x] = "breakstarthit"]
      /\ count' = [count EXCEPT ![x] = 0] /\ made' = [made EXCEPT ![x] = 0]
      /\ state' = state /\ curstart' = curstart
  BY <1>1 DEF StartBreak, Beginning, At
<1>3. x \in Actions /\ Pc(x) = {"perform"}
      /\ (Resting(x) => Idle(x)) /\ AllBalanced(made, count)
  BY <1>1, <1>2, OnTop DEF AInv
<1>4. Elsewhere(x, made, count) /\ made'[x] = 0 /\ count'[x] = 0
      /\ status'[x] = "breakstarthit"
  BY <1>2, <1>3 DEF Elsewhere, AInv, IInv, Types, CountsOK, StatusOK, GhostsOK
<1>5. Idle(x) /\ ~Busy(x)
  BY <1>2, <1>3 DEF Resting, Through, Busy
<1>6. Pc(x)' = {} /\ Idle(x)'
  BY <1>1, <1>2, <1>4, <1>5, ReturnKept, ReturnIdle DEF AInv
<1>7. Balanced(x, made, count)'
  BY <1>4, <1>6, IdleBalanced DEF Through
<1>8. Owed(x, made)' = Owed(x, made)
  BY <1>4, <1>5 DEF Owed
<1> QED BY <1>1, <1>2, <1>3, <1>4, <1>7, <1>8, ReturnBalances DEF AInv

LEMMA StartBalances == AInv /\ (Start \/ Repeat) => Path' /\ Accounts'
<1> SUFFICES ASSUME AInv, Start \/ Repeat PROVE Path' /\ Accounts'
  OBVIOUS
<1>1. PICK x : x = This
  OBVIOUS
<1>2. PICK pc : pc = IF Kind[x] = "restart" /\ curstart[x] = -1 THEN "applied" ELSE "next"
  OBVIOUS
<1>3. /\ stack # <<>> /\ Top.pc = "perform" /\ status[x] # "mid" /\ status' = status
      /\ stack' = Under(Len(stack), pc) /\ curstart' = curstart
      /\ \E p : state' = [state EXCEPT ![x] = p]
      /\ \/ /\ status[x] = "start"
            /\ count' = [count EXCEPT ![x] = 0] /\ made' = [made EXCEPT ![x] = 0]
         \/ status[x] \in {"breakstarthit", "repeat"} /\ count' = count /\ made' = made
  BY <1>1, <1>2 DEF Start, Repeat, Beginning, At, Entering, Going, Goto
<1>4. x \in Actions /\ Pc(x) = {"perform"} /\ AllBalanced(made, count)
      /\ made[x] \in Nat /\ count[x] \in Nat
      /\ (Resting(x) => Idle(x) /\ (Busy(x) => made[x] = count[x]))
  BY <1>1, <1>3, OnTop DEF AInv
<1>5. Idle(x) /\ (status[x] = "start" => ~Busy(x))
      /\ (status[x] # "start" => Busy(x) /\ made[x] = count[x])
  BY <1>3, <1>4 DEF Resting, Through, Busy
<1>6. /\ Elsewhere(x, made, count) /\ made'[x] = count'[x]
      /\ made'[x] \in Nat /\ count'[x] \in Nat
      /\ status[x] = "start" => made'[x] = 0
      /\ status[x] # "start" => made'[x] = made[x]
  <2>1. count \in [Actions -> Nat] /\ made \in [Actions -> Nat]
        /\ state \in [Actions -> Nat \ {0}]
    BY DEF AInv, IInv, Types, CountsOK, GhostsOK
  <2>2. \A a \in Actions \ {x} : state'[a] = state[a]
    BY <1>3, <2>1
  <2>3. CASE status[x] = "start"
    <3>1. count' = [count EXCEPT ![x] = 0] /\ made' = [made EXCEPT ![x] = 0]
      BY <1>3, <2>3
    <3> QED BY <1>3, <1>4, <2>1, <2>2, <2>3, <3>1 DEF Elsewhere
  <2>4. CASE status[x] # "start"
    <3>1. count' = count /\ made' = made
      BY <1>3, <2>4
    <3>2. made[x] = count[x]
      BY <1>5, <2>4
    <3> QED BY <1>3, <1>4, <2>2, <2>4, <3>1, <3>2 DEF Elsewhere
  <2> QED BY <2>3, <2>4
<1>7. pc \in Pcs /\ pc \in {"applied", "next"}
  BY <1>2 DEF Pcs
<1>8. Turn(x, pc)
  BY <1>1, <1>3, <1>6, <1>7, GotoTurns DEF AInv
<1>9. Idle(x)' /\ Pc(x)' = {pc}
  BY <1>1, <1>3, <1>5, <1>6, <1>8, TurnIdle DEF AInv, Turn
<1>10. Balanced(x, made, count)'
  <2>1. (Kind[x] = "restart" /\ curstart'[x] = -1) => Through(x)'
    BY <1>2, <1>3, <1>9 DEF Through
  <2>2. "returned" \notin Pc(x)'
    BY <1>7, <1>9
  <2> QED BY <1>6, <1>9, <2>1, <2>2, IdleBalanced
<1>11. Owed(x, made)' = Owed(x, made)
  <2>1. Busy(x)'
    BY <1>7, <1>9 DEF Busy
  <2> QED BY <1>5, <1>6, <2>1 DEF Owed
<1> QED BY <1>1, <1>3, <1>4, <1>6, <1>8, <1>10, <1>11, TurnBalances DEF AInv

LEMMA ResumeBalances == AInv /\ Resume => Path' /\ Accounts'
<1> SUFFICES ASSUME AInv, Resume PROVE Path' /\ Accounts'
  OBVIOUS
<1>1. PICK x : x = This
  OBVIOUS
<1>2. /\ stack # <<>> /\ Top.pc = "perform" /\ status[x] = "mid" /\ curstart' = curstart
      /\ (Kind[x] = "restart" /\ curstart[x] = -1) \/ stack' = Under(Len(stack), "next")
      /\ UNCHANGED <<status, count, made, state>>
  BY <1>1 DEF Resume, At, Entering, Going, Goto
<1>3. x \in Actions /\ Pc(x) = {"perform"} /\ AllBalanced(made, count)
      /\ Balanced(x, made, count)
  BY <1>1, <1>2, OnTop DEF AInv
<1>4. ~Through(x) /\ Busy(x)
  BY <1>2, <1>3 DEF Through, Busy
<1>5. ~(Kind[x] = "restart" /\ curstart[x] = -1) /\ stack' = Under(Len(stack), "next")
  BY <1>2, <1>3, <1>4 DEF Balanced
<1>6. Elsewhere(x, made, count) /\ "next" \in Pcs
  BY <1>2 DEF Elsewhere, Pcs
<1>7. Turn(x, "next")
  BY <1>1, <1>2, <1>5, <1>6, GotoTurns DEF AInv
<1>8. \A i \in DOMAIN List[x] : /\ Busy(List[x][i])' <=> Busy(List[x][i])
                                /\ Owed(List[x][i], made)' = Owed(List[x][i], made)
  BY <1>1, <1>2, <1>6, <1>7, TurnKeeps DEF AInv
<1>9. Pc(x)' = {"next"} /\ Busy(x)' /\ ~Resting(x)' /\ "returned" \notin Pc(x)'
  BY <1>7 DEF Turn, Busy, Resting, Through
<1>10. Due(x, made)' = Due(x, made)
  BY <1>2, <1>3, <1>8, <1>9 DEF Due
<1>11. Balanced(x, made, count)'
  BY <1>2, <1>3, <1>4, <1>5, <1>8, <1>9, <1>10 DEF Balanced
<1>12. Owed(x, made)' = Owed(x, made)
  BY <1>2, <1>4, <1>9 DEF Owed
<1> QED BY <1>1, <1>2, <1>3, <1>6, <1>7, <1>11, <1>12, TurnBalances DEF AInv

(* Two ways to leave a rest, by returning and otherwise.                   *)
LEMMA IdleReturns ==
  ASSUME IInv, Path, stack # <<>>, NEW x, x = This, NEW M, NEW C, Elsewhere(x, M, C),
         AllBalanced(M, C), NEW r \in Nat \cup {-1}, Return(r), Idle(x),
         made'[x] \in Nat, count'[x] \in Nat,
         status'[x] # "mid" \/ ~(Kind[x] = "restart" /\ curstart'[x] = -1),
         r = -1 => /\ Busy(x) /\ status'[x] \notin {"start", "end"}
                   /\ made'[x] = M[x] /\ made'[x] = count'[x],
         r # -1 => status'[x] \in {"start", "end"} /\ Owed(x, M) = r
  PROVE  Path' /\ Accounts'
<1>1. Pc(x)' = {} /\ Idle(x)'
  BY ReturnKept, ReturnIdle
<1>2. r = -1 => Busy(x)' /\ Owed(x, made)' = Owed(x, M)
  BY <1>1 DEF Busy, Owed
<1>3. r # -1 => ~Busy(x)'
  BY <1>1 DEF Busy
<1>4. Balanced(x, made, count)'
  <2>1. (Kind[x] = "restart" /\ curstart'[x] = -1) => Through(x)'
    BY <1>1 DEF Through
  <2> QED BY <1>1, <1>3, <2>1, IdleBalanced
<1> QED BY <1>2, <1>3, <1>4, ReturnBalances

LEMMA IdleTurns ==
  ASSUME IInv, Path, stack # <<>>, NEW x, x = This, NEW M, NEW C, Elsewhere(x, M, C),
         AllBalanced(M, C), NEW pc, Turn(x, pc), pc # "returned", Idle(x),
         made'[x] \in Nat, count'[x] \in Nat, Busy(x),
         pc # "perform" \/ status'[x] \notin {"start", "end", "mid"},
         made'[x] = M[x], made'[x] = count'[x],
         (Kind[x] = "restart" /\ curstart'[x] = -1) => pc \in {"applied", "perform"}
  PROVE  Path' /\ Accounts'
<1>1. Pc(x)' = {pc} /\ Idle(x)'
  BY TurnIdle DEF Turn
<1>2. Busy(x)' /\ Owed(x, made)' = Owed(x, M)
  BY <1>1 DEF Busy, Owed
<1>3. Balanced(x, made, count)'
  <2>1. (Kind[x] = "restart" /\ curstart'[x] = -1) => Through(x)'
    BY <1>1 DEF Through
  <2> QED BY <1>1, <2>1, IdleBalanced
<1> QED BY <1>2, <1>3, TurnBalances

(* What is known of an action that its apply has left.                     *)
LEMMA Leaving ==
  ASSUME AInv, NEW x, x = This, stack # <<>>,
         Top.pc = "applied" \/ (Top.pc = "perform" /\ status[x] # "mid")
  PROVE  /\ x \in Actions /\ Pc(x) = {Top.pc} /\ AllBalanced(made, count) /\ Idle(x)
         /\ made[x] \in Nat /\ count[x] \in Nat
         /\ Busy(x) => made[x] = count[x]
<1>1. /\ x \in Actions /\ Pc(x) = {Top.pc} /\ AllBalanced(made, count)
      /\ made[x] \in Nat /\ count[x] \in Nat
      /\ Resting(x) => Idle(x) /\ (Busy(x) => made[x] = count[x])
  BY OnTop DEF AInv
<1>2. Resting(x)
  BY <1>1 DEF Resting, Through
<1> QED BY <1>1, <1>2

LEMMA EndedBalances == AInv /\ Ended => Path' /\ Accounts'
<1> SUFFICES ASSUME AInv, Ended PROVE Path' /\ Accounts'
  OBVIOUS
<1>1. PICK x : x = This
  OBVIOUS
<1>2. /\ stack # <<>> /\ Top.pc = "perform" /\ status[x] = "end" /\ Return(0)
      /\ UNCHANGED <<status, count, made, state, curstart>>
  BY <1>1 DEF Ended, At, fields, ghosts
<1>3. /\ x \in Actions /\ Pc(x) = {"perform"} /\ AllBalanced(made, count) /\ Idle(x)
      /\ made[x] \in Nat /\ count[x] \in Nat
  BY <1>1, <1>2, Leaving
<1>4. Elsewhere(x, made, count)
  BY <1>2 DEF Elsewhere
<1>5. Owed(x, made) = 0
  BY <1>2, <1>3 DEF Busy, Owed
<1> QED BY <1>1, <1>2, <1>3, <1>4, <1>5, IdleReturns DEF AInv

LEMMA ActionBreakBalances == AInv /\ ActionBreak => Path' /\ Accounts'
<1> SUFFICES ASSUME AInv, ActionBreak PROVE Path' /\ Accounts'
  OBVIOUS
<1>1. PICK x : x = This
  OBVIOUS
<1>2. /\ stack # <<>> /\ Top.pc = "applied" /\ Return(-1)
      /\ status' = [status EXCEPT ![x] = "actionbreak"]
      /\ UNCHANGED <<count, made, state, curstart>>
  BY <1>1 DEF ActionBreak, At, ghosts
<1>3. /\ x \in Actions /\ Pc(x) = {"applied"} /\ AllBalanced(made, count) /\ Idle(x)
      /\ made[x] \in Nat /\ count[x] \in Nat /\ (Busy(x) => made[x] = count[x])
  BY <1>1, <1>2, Leaving
<1>4. Elsewhere(x, made, count) /\ status'[x] = "actionbreak"
  BY <1>2, <1>3 DEF Elsewhere, AInv, IInv, Types, StatusOK
<1>5. Busy(x)
  BY <1>3 DEF Busy
<1> QED BY <1>1, <1>2, <1>3, <1>4, <1>5, IdleReturns DEF AInv

LEMMA AppliedOnceBusy ==
  ASSUME AInv, AppliedOnce, NEW x, x = This
  PROVE  /\ stack # <<>> /\ x \in Actions /\ AllBalanced(made, count) /\ Idle(x)
         /\ made[x] \in Nat /\ count[x] \in Nat /\ Busy(x) /\ made[x] = count[x]
<1>1. /\ stack # <<>>
      /\ Top.pc = "applied" \/ (Top.pc = "perform" /\ status[x] = "actionbreak")
  BY DEF AppliedOnce, At
<1>2. /\ x \in Actions /\ Pc(x) = {Top.pc} /\ AllBalanced(made, count) /\ Idle(x)
      /\ made[x] \in Nat /\ count[x] \in Nat
      /\ Busy(x) => made[x] = count[x]
  BY <1>1, Leaving
<1>3. Busy(x)
  BY <1>1, <1>2 DEF Busy
<1> QED BY <1>1, <1>2, <1>3

LEMMA LoopBalances == AInv /\ Loop => Path' /\ Accounts'
<1> SUFFICES ASSUME AInv, Loop PROVE Path' /\ Accounts'
  OBVIOUS
<1>1. PICK x : x = This
  OBVIOUS
<1>2. /\ AppliedOnce /\ stack' = Under(Len(stack), "perform")
      /\ status' = [status EXCEPT ![x] = "repeat"]
      /\ UNCHANGED <<count, made, state, curstart>>
  BY <1>1 DEF Loop, Going, Goto, ghosts
<1>3. /\ stack # <<>> /\ x \in Actions /\ AllBalanced(made, count) /\ Idle(x)
      /\ made[x] \in Nat /\ count[x] \in Nat /\ Busy(x) /\ made[x] = count[x]
  BY <1>1, <1>2, AppliedOnceBusy
<1>4. Elsewhere(x, made, count) /\ status'[x] = "repeat"
  BY <1>2, <1>3 DEF Elsewhere, AInv, IInv, Types, StatusOK
<1>5. "perform" \in Pcs
  BY DEF Pcs
<1>6. Turn(x, "perform")
  BY <1>1, <1>2, <1>3, <1>4, <1>5, GotoTurns DEF AInv
<1> QED BY <1>1, <1>2, <1>3, <1>4, <1>6, IdleTurns DEF AInv

(* What perform returns is all that was made since it began.               *)
LEMMA FinishReturns == AInv /\ Finish => ret' = made[This]
<1> SUFFICES ASSUME AInv, Finish PROVE ret' = made[This]
  OBVIOUS
<1>1. AppliedOnce /\ ret' = count[This]
  BY DEF Finish, Return
<1> QED BY <1>1, AppliedOnceBusy

LEMMA FinishBalances == AInv /\ Finish => Path' /\ Accounts'
<1> SUFFICES ASSUME AInv, Finish PROVE Path' /\ Accounts'
  OBVIOUS
<1>1. PICK x : x = This
  OBVIOUS
<1>2. PICK s \in {"start", "end"} :
        /\ AppliedOnce /\ Return(count[x])
        /\ status' = [status EXCEPT ![x] = s]
        /\ UNCHANGED <<count, made, state, curstart>>
  BY <1>1 DEF Finish, ghosts
<1>3. /\ stack # <<>> /\ x \in Actions /\ AllBalanced(made, count) /\ Idle(x)
      /\ made[x] \in Nat /\ count[x] \in Nat /\ Busy(x) /\ made[x] = count[x]
  BY <1>1, <1>2, AppliedOnceBusy
<1>4. Elsewhere(x, made, count) /\ status'[x] \in {"start", "end"}
  BY <1>2, <1>3 DEF Elsewhere, AInv, IInv, Types, StatusOK
<1>5. PICK r \in Nat : r = count[x]
  BY <1>3
<1>6. Return(r) /\ r # -1 /\ Owed(x, made) = r
  BY <1>2, <1>3, <1>5 DEF Owed
<1> QED BY <1>1, <1>2, <1>3, <1>4, <1>6, IdleReturns DEF AInv
-----------------------------------------------------------------------------
(* The steps of a group.  An action is called and nothing else changes.    *)
LEMMA CallBalances ==
  ASSUME AInv, NEW b \in Actions, Pc(b) = {}, Pc(b)' = {"perform"},
         \A a \in Actions \ {b} : Pc(a)' = Pc(a) /\ "returned" \notin Pc(a),
         \A a \in Actions : Live(a)' => Live(a),
         UNCHANGED <<status, count, made, state, curstart>>
  PROVE  Accounts'
<1>1. \A a \in Actions : (Busy(a)' <=> Busy(a)) /\ Owed(a, made)' = Owed(a, made)
  <2> SUFFICES ASSUME NEW a \in Actions
               PROVE  (Busy(a)' <=> Busy(a)) /\ Owed(a, made)' = Owed(a, made)
    OBVIOUS
  <2>1. CASE a = b
    BY <2>1 DEF Busy, Owed
  <2>2. CASE a # b
    BY <2>2, Unmoved
  <2> QED BY <2>1, <2>2
<1>2. ASSUME NEW a \in Actions, Live(a)' PROVE Balanced(a, made, count)'
  <2>1. Balanced(a, made, count)
    BY <1>2 DEF AInv, Accounts, AllBalanced
  <2>2. \A i \in DOMAIN List[a] :
          /\ Busy(List[a][i])' <=> Busy(List[a][i])
          /\ Owed(List[a][i], made)' = Owed(List[a][i], made)
    BY <1>1, Members
  <2>3. CASE a = b
    <3>1. "returned" \notin Pc(a) /\ "returned" \notin Pc(a)'
      BY <2>3
    <3>2. (Through(a)' <=> Through(a)) /\ (Resting(a)' <=> Resting(a))
      BY <2>3, <3>1 DEF Through, Resting
    <3>3. Due(a, made)' = Due(a, made)
      BY <2>2, <3>1 DEF Due
    <3>4. Idle(a) <=> Idle(a)'
      BY <2>2 DEF Idle
    <3> QED BY <1>1, <2>1, <2>2, <3>2, <3>3, <3>4 DEF Balanced
  <2>4. CASE a # b
    BY <2>1, <2>2, <2>4, StillBalanced
  <2> QED BY <2>3, <2>4
<1> QED BY <1>2 DEF Accounts, AllBalanced

LEMMA GroupNextPcs ==
  ASSUME AInv, GroupNext
  PROVE  /\ Path' /\ stack # <<>> /\ stack' # <<>>
         /\ UNCHANGED <<status, count, made, state, curstart, applied>>
         /\ state[This] \in DOMAIN List[This]
         /\ \E b \in Actions :
              /\ b = List[This][state[This]] /\ b = This'
              /\ b # JumpTable /\ Pc(b) = {} /\ Pc(b)' = {"perform"}
              /\ \A a \in Actions \ {b} : Pc(a)' = Pc(a) /\ "returned" \notin Pc(a)
              /\ Pc(JumpTable)' = Pc(JumpTable)
<1>1. PICK x : x = This
  OBVIOUS
<1>2. PICK n : n = Len(stack)
  OBVIOUS
<1>3. PICK b : b = List[x][state[x]]
  OBVIOUS
<1>4. /\ stack # <<>> /\ Top.pc = "next" /\ IsGroup(x) /\ state[x] <= Len(List[x])
      /\ Call(b) /\ UNCHANGED <<status, count, made, state, curstart, applied>>
  BY <1>1, <1>3 DEF GroupNext, At, fields, ghosts
<1>5. /\ n \in Nat /\ n > 0 /\ n \in 1 .. Len(stack) /\ x = stack[n].action
      /\ x \in Actions /\ Pc(x) = {"next"} /\ stack[n].pc = "next"
      /\ \A i \in 1 .. n : i = n \/ i < n
  BY <1>1, <1>2, <1>4, Here, PcShape DEF AInv, This
<1>6. state[x] \in DOMAIN List[x]
  <2>1. state[x] \in Nat \ {0}
    BY <1>5 DEF AInv, IInv, Types, CountsOK
  <2> QED BY <1>4, <1>5, <2>1, Members
<1>7. /\ b \in Actions /\ b \in Below[x] /\ b # x /\ b # JumpTable
      /\ x \notin Below[b] /\ Below[b] \subseteq Below[x] /\ b \in Below[b]
  <2>1. b \in Actions /\ b \in Below[x] /\ b # x /\ b # JumpTable /\ x \notin Below[b]
    BY <1>3, <1>5, <1>6, Members
  <2> QED BY <1>5, <2>1, Members
<1>8. \A i \in 1 .. n : stack[i].action \notin Below[b]
  <2> SUFFICES ASSUME NEW i \in 1 .. n PROVE stack[i].action \notin Below[b]
    OBVIOUS
  <2>1. CASE i < n
    <3>1. stack[i].action \notin Below[x]
      BY <1>2, <1>5, <2>1 DEF AInv, Path
    <3> QED BY <1>7, <3>1
  <2> QED BY <1>5, <1>7, <2>1
<1>9. /\ Len(stack') = n + 1 /\ stack'[n + 1].action = b /\ stack'[n + 1].pc = "perform"
      /\ \A i \in 1 .. n : stack'[i] = stack[i]
  <2>1. stack \in Seq(Frames)
    BY FrameTypes DEF AInv
  <2>2. PICK f : f = Frame(b, "perform", current)
    OBVIOUS
  <2>3. f.action = b /\ f.pc = "perform"
    BY <2>2 DEF Frame
  <2>4. stack' = Append(stack, f)
    BY <1>4, <2>2 DEF Call
  <2> QED BY <1>2, <1>5, <2>1, <2>3, <2>4
<1>11. \/ b \in Below[Universal]
       \/ /\ b \in Below[JumpTable]
          /\ b = JumpTable \/ \E k \in 1 .. n : stack[k].action = JumpTable
  <2>1. \/ x \in Below[Universal]
        \/ /\ x \in Below[JumpTable]
           /\ \E k \in 1 .. n : stack[k].action = JumpTable
    BY <1>2, <1>5 DEF AInv, Path
  <2>3. /\ (x \in Below[Universal] => Below[x] \subseteq Below[Universal])
        /\ (x \in Below[JumpTable] => Below[x] \subseteq Below[JumpTable])
    BY Members, Assumed
  <2> QED BY <1>7, <2>1, <2>3
<1>12. /\ Path'
       /\ \A a : Pc(a)' = IF a = b THEN {"perform"}
                          ELSE IF n > 0 /\ a = stack[n].action THEN {"next"} ELSE Pc(a)
  <2>1. \A i \in 1 .. n : /\ stack'[i].action = stack[i].action
                          /\ stack'[i].pc = IF i = n THEN "next" ELSE stack[i].pc
    BY <1>5, <1>9
  <2>2. PICK p : p = "next"
    OBVIOUS
  <2>3. \A i \in 1 .. n : /\ stack'[i].action = stack[i].action
                          /\ stack'[i].pc = IF i = n THEN p ELSE stack[i].pc
    BY <2>1, <2>2
  <2>4. /\ Path'
        /\ \A a : Pc(a)' = IF a = b THEN {"perform"}
                           ELSE IF n > 0 /\ a = stack[n].action THEN {p} ELSE Pc(a)
    <3>1. /\ n = Len(stack) /\ Len(stack') = n + 1
          /\ stack'[n + 1].action = b /\ stack'[n + 1].pc = "perform"
      BY <1>2, <1>9
    <3>2. IInv /\ Path /\ state' = state /\ b \in Actions
      BY <1>4, <1>7 DEF AInv
    <3>3. n > 0 => IF p = "staging" THEN b = JumpTable
                   ELSE /\ state[stack[n].action] \in DOMAIN List[stack[n].action]
                        /\ b = List[stack[n].action][state[stack[n].action]]
      BY <1>3, <1>5, <1>6, <2>2
    <3>4. Pushing(b, n, p)
      BY <1>8, <1>11, <2>3, <3>1, <3>2, <3>3 DEF Pushing
    <3> QED BY <3>2, <3>4, PushPath DEF Pushed
  <2> QED BY <2>2, <2>4
<1>13. \A a : Pc(a)' = IF a = b THEN {"perform"} ELSE Pc(a)
  BY <1>5, <1>12
<1>14. Pc(b) = {}
  BY <1>2, <1>7, <1>8 DEF Pc
<1>15. \A a \in Actions : "returned" \notin Pc(a)
  BY <1>1, <1>4, <1>5, PcShape DEF AInv
<1>16. stack' # <<>>
  BY <1>5, <1>9, EmptySequence
<1>17. b = This'
  BY <1>9 DEF This, Top
<1> QED BY <1>1, <1>3, <1>4, <1>6, <1>7, <1>12, <1>13, <1>14, <1>15, <1>16, <1>17

LEMMA GroupNextBalances == AInv /\ GroupNext => Path' /\ Accounts'
<1> SUFFICES ASSUME AInv, GroupNext PROVE Path' /\ Accounts'
  OBVIOUS
<1>1. /\ Path' /\ stack # <<>>
      /\ UNCHANGED <<status, count, made, state, curstart>>
  BY GroupNextPcs
<1>2. PICK b \in Actions :
        /\ b # JumpTable /\ Pc(b) = {} /\ Pc(b)' = {"perform"}
        /\ \A a \in Actions \ {b} : Pc(a)' = Pc(a) /\ "returned" \notin Pc(a)
        /\ Pc(JumpTable)' = Pc(JumpTable)
  BY GroupNextPcs
<1>3. \A a \in Actions : Live(a)' => Live(a)
  BY <1>1, <1>2 DEF Live
<1>4. Accounts'
  BY <1>1, <1>2, <1>3, CallBalances
<1> QED BY <1>1, <1>4

(* A group whose member has just returned.                                 *)
LEMMA Returned ==
  ASSUME AInv, NEW x, x = This, stack # <<>>, Top.pc = "returned", IsGroup(x)
  PROVE  /\ x \in Actions /\ Pc(x) = {"returned"} /\ AllBalanced(made, count)
         /\ Balanced(x, made, count) /\ Busy(x) /\ made[x] \in Nat /\ count[x] \in Nat
         /\ ~(Kind[x] = "restart" /\ curstart[x] = -1)
         /\ ret >= 0 => Idle(x) /\ made[x] = count[x] + ret
<1>1. /\ x \in Actions /\ Pc(x) = {"returned"} /\ AllBalanced(made, count)
      /\ Balanced(x, made, count) /\ made[x] \in Nat /\ count[x] \in Nat
  BY OnTop DEF AInv
<1>2. Busy(x) /\ ~Through(x)
  BY <1>1 DEF Busy, Through
<1>3. ret >= 0 => Resting(x) /\ Due(x, made) = ret
  BY <1>1 DEF Resting, Due
<1> QED BY <1>1, <1>2, <1>3 DEF Balanced

LEMMA GroupMemberBalances == AInv /\ GroupMember => Path' /\ Accounts'
<1> SUFFICES ASSUME AInv, GroupMember PROVE Path' /\ Accounts'
  OBVIOUS
<1>1. PICK x : x = This
  OBVIOUS
<1>2. /\ stack # <<>> /\ Top.pc = "returned" /\ IsGroup(x) /\ ret >= 0
      /\ count' = [count EXCEPT ![x] = @ + ret]
      /\ state' = [state EXCEPT ![x] = @ + 1]
      /\ \/ status' = [status EXCEPT ![x] = "mid"] /\ Return(-1)
         \/ status' = status /\ stack' = Under(Len(stack), "next")
      /\ curstart' = curstart /\ made' = made
  BY <1>1 DEF GroupMember, At, Partial, Going, Goto, ghosts
<1>3. /\ x \in Actions /\ AllBalanced(made, count) /\ Busy(x) /\ Idle(x)
      /\ made[x] \in Nat /\ count[x] \in Nat /\ made[x] = count[x] + ret
      /\ ~(Kind[x] = "restart" /\ curstart[x] = -1)
  BY <1>1, <1>2, Returned
<1>4. /\ \A a \in Actions \ {x} : count'[a] = count[a] /\ state'[a] = state[a]
      /\ count'[x] = made[x]
  BY <1>2, <1>3 DEF AInv, IInv, Types, CountsOK
<1>5. CASE status' = [status EXCEPT ![x] = "mid"] /\ Return(-1)
  <2>1. Elsewhere(x, made, count) /\ status'[x] = "mid"
    BY <1>2, <1>3, <1>4, <1>5 DEF Elsewhere, AInv, IInv, Types, StatusOK
  <2> QED BY <1>1, <1>2, <1>3, <1>4, <1>5, <2>1, IdleReturns DEF AInv
<1>6. CASE status' = status /\ stack' = Under(Len(stack), "next")
  <2>1. Elsewhere(x, made, count) /\ "next" \in Pcs
    BY <1>2, <1>4, <1>6 DEF Elsewhere, Pcs
  <2>2. Turn(x, "next")
    BY <1>1, <1>2, <1>6, <2>1, GotoTurns DEF AInv
  <2> QED BY <1>1, <1>2, <1>3, <1>4, <2>1, <2>2, IdleTurns DEF AInv
<1> QED BY <1>2, <1>5, <1>6

LEMMA GroupPartialBalances == AInv /\ GroupPartial => Path' /\ Accounts'
<1> SUFFICES ASSUME AInv, GroupPartial PROVE Path' /\ Accounts'
  OBVIOUS
<1>1. PICK x : x = This
  OBVIOUS
<1>2. /\ stack # <<>> /\ Top.pc = "returned" /\ IsGroup(x) /\ ret < 0
      /\ status' = [status EXCEPT ![x] = "mid"] /\ Return(-1)
      /\ UNCHANGED <<count, made, state, curstart>>
  BY <1>1 DEF GroupPartial, At, Partial, ghosts
<1>3. /\ x \in Actions /\ Pc(x) = {"returned"} /\ AllBalanced(made, count)
      /\ Balanced(x, made, count) /\ Busy(x)
      /\ ~(Kind[x] = "restart" /\ curstart[x] = -1)
  BY <1>1, <1>2, Returned
<1>4. Elsewhere(x, made, count) /\ status'[x] = "mid"
  BY <1>2, <1>3 DEF Elsewhere, AInv, IInv, Types, StatusOK
<1>5. /\ Pc(x)' = {}
      /\ \A i \in DOMAIN List[x] : /\ Busy(List[x][i])' <=> Busy(List[x][i])
                                   /\ Owed(List[x][i], made)' = Owed(List[x][i], made)
  BY <1>1, <1>2, <1>4, ReturnKept DEF AInv
<1>6. Busy(x)' /\ ~Resting(x)'
  BY <1>4, <1>5 DEF Busy, Resting, Through
<1>7. ~(ret >= 0)
  BY <1>2 DEF AInv, IInv, Types, StackOK
<1>8. Due(x, made)' = Due(x, made)
  BY <1>2, <1>5, <1>7 DEF Due
<1>9. Balanced(x, made, count)'
  BY <1>2, <1>3, <1>5, <1>6, <1>8 DEF Balanced
<1>10. Owed(x, made)' = Owed(x, made)
  BY <1>2, <1>3, <1>6 DEF Owed
<1> QED BY <1>1, <1>2, <1>3, <1>4, <1>9, <1>10, ReturnBalances DEF AInv

(* A group that is past its members, and what is none.                     *)
LEMMA PastEnd ==
  ASSUME AInv, NEW x, x = This, stack # <<>>, Top.pc = "next",
         state[x] \notin DOMAIN List[x]
  PROVE  /\ x \in Actions /\ AllBalanced(made, count) /\ Idle(x) /\ Busy(x)
         /\ made[x] \in Nat /\ count[x] \in Nat /\ made[x] = count[x]
<1>1. /\ x \in Actions /\ Pc(x) = {"next"} /\ AllBalanced(made, count)
      /\ Balanced(x, made, count) /\ made[x] \in Nat /\ count[x] \in Nat
  BY OnTop DEF AInv
<1>2. Busy(x) /\ Due(x, made) = 0
  BY <1>1 DEF Busy, Due
<1>3. Idle(x)
  BY <1>1 DEF Balanced, Idle
<1> QED BY <1>1, <1>2, <1>3 DEF Balanced

(* A group that is past its members, and a pool past its ops.              *)
LEMMA EndParts ==
  ASSUME IInv, GroupDone \/ NoRestart \/ NoRestartInRecovery \/ TooManyRestarts \/ PoolDone,
         NEW x, x = This
  PROVE  /\ stack # <<>> /\ Top.pc = "next"
         /\ (IsGroup(x) /\ state[x] > Len(List[x])) \/ Kind[x] = "pool"
         /\ \E v : curstart' = [curstart EXCEPT ![x] = v]
         /\ stack' = Under(Len(stack), "applied")
         /\ UNCHANGED <<status, count, made, state, applied>>
<1>1. StatusOK
  BY DEF IInv, Types
<1>2. curstart = [curstart EXCEPT ![x] = curstart[x]]
  BY <1>1 DEF StatusOK
<1>3. CASE GroupDone \/ NoRestartInRecovery \/ PoolDone
  BY <1>2, <1>3
     DEF GroupDone, NoRestartInRecovery, RestartWanted, PoolDone, AtEnd, At, In,
         Going, Goto, fields, ghosts
<1>4. CASE NoRestart \/ TooManyRestarts
  BY <1>4 DEF NoRestart, TooManyRestarts, RestartWanted, AtEnd, At, Going, Goto, ghosts
<1> QED BY <1>3, <1>4

LEMMA EndBalances ==
  AInv /\ (GroupDone \/ NoRestart \/ NoRestartInRecovery \/ TooManyRestarts \/ PoolDone)
    => Path' /\ Accounts'
<1> SUFFICES ASSUME AInv, GroupDone \/ NoRestart \/ NoRestartInRecovery
                          \/ TooManyRestarts \/ PoolDone
             PROVE  Path' /\ Accounts'
  OBVIOUS
<1>1. PICK x : x = This
  OBVIOUS
<1>2. /\ stack # <<>> /\ Top.pc = "next"
      /\ (IsGroup(x) /\ state[x] > Len(List[x])) \/ Kind[x] = "pool"
      /\ \E v : curstart' = [curstart EXCEPT ![x] = v]
      /\ stack' = Under(Len(stack), "applied")
      /\ UNCHANGED <<status, count, made, state, applied>>
  BY <1>1, EndParts DEF AInv
<1>3. x \in Actions
  BY <1>1, <1>2, Here DEF AInv
<1>4. state[x] \notin DOMAIN List[x]
  <2>1. CASE Kind[x] = "pool"
    BY <1>3, <2>1, Members DEF IsGroup
  <2>2. CASE state[x] > Len(List[x])
    <3>1. state[x] \in Nat \ {0} /\ Len(List[x]) \in Nat
      BY <1>3, Assumed DEF AInv, IInv, Types, CountsOK
    <3>2. ~(state[x] <= Len(List[x]))
      BY <2>2, <3>1
    <3> QED BY <1>3, <3>1, <3>2, Members
  <2> QED BY <1>2, <2>1, <2>2
<1>5. /\ AllBalanced(made, count) /\ Idle(x) /\ Busy(x)
      /\ made[x] \in Nat /\ count[x] \in Nat /\ made[x] = count[x]
  BY <1>1, <1>2, <1>4, PastEnd
<1>6. Elsewhere(x, made, count) /\ "applied" \in Pcs
  BY <1>2, <1>3 DEF Elsewhere, Pcs, AInv, IInv, Types, StatusOK
<1>7. Turn(x, "applied")
  BY <1>1, <1>2, <1>6, GotoTurns DEF AInv
<1> QED BY <1>1, <1>2, <1>5, <1>6, <1>7, IdleTurns DEF AInv
-----------------------------------------------------------------------------
(* The steps that change the function.                                     *)
(* A change counts for every action on the way to it, each owes it to      *)
(* the next, and the one that makes it has counted it.                     *)
LEMMA ChangeBalances ==
  ASSUME AInv, stack # <<>>, NEW x, x = This, Top.pc = "next", DOMAIN List[x] = {},
         Change(x), NEW M, NEW C, M = made', C = count'
  PROVE  /\ AllBalanced(M, C) /\ M[x] = C[x] /\ M[x] \in Nat /\ C[x] \in Nat
         /\ \A a \in Actions \ {x} : C[a] = count[a]
<1>0. PICK k \in 1 .. budget : ChangeBy(x, k)
  BY DEF Change
<1>1. PICK n : n = Len(stack)
  OBVIOUS
<1>2. /\ n \in Nat /\ n > 0 /\ n \in 1 .. n /\ x = stack[n].action
      /\ x \in Actions /\ Pc(x) = {"next"} /\ stack[n].pc = "next"
      /\ \A i \in 1 .. n : i = n \/ i < n
  BY <1>1, Here, PcShape DEF AInv, This
<1>3. made \in [Actions -> Nat] /\ count \in [Actions -> Nat] /\ k \in Nat
  BY DEF AInv, IInv, Types, CountsOK, GhostsOK, FunctionOK
<1>4. DOMAIN stack = 1 .. n
  BY <1>1, FrameTypes DEF AInv
<1>5. \A a \in Actions :
        M[a] = IF (\E i \in 1 .. n : stack[i].action = a) /\ Data(a) = Data(x)
               THEN made[a] + k ELSE made[a]
  BY <1>0, <1>3, <1>4 DEF ChangeBy
<1>6. C[x] = count[x] + k /\ \A a \in Actions \ {x} : C[a] = count[a]
  BY <1>0, <1>2, <1>3 DEF ChangeBy
<1>7. /\ made[x] = count[x] /\ M[x] = made[x] + k
      /\ made[x] \in Nat /\ count[x] \in Nat
  <2>1. made[x] = count[x]
    BY <1>2, <1>3, PastEnd
  <2> QED BY <1>2, <1>3, <1>5, <2>1
<1>8. M[x] = C[x] /\ M[x] \in Nat /\ C[x] \in Nat
  BY <1>6, <1>7
<1>9. ASSUME NEW a \in Actions, Live(a) PROVE Balanced(a, M, C)
  <2>1. Balanced(a, made, count)
    BY <1>9 DEF AInv, Accounts, AllBalanced
  <2>2. SUFFICES ASSUME Busy(a) PROVE M[a] = C[a] + Due(a, M)
    BY <2>1 DEF Balanced
  <2>3. made[a] = count[a] + Due(a, made) /\ made[a] \in Nat /\ count[a] \in Nat
    BY <1>3, <2>1, <2>2 DEF Balanced
  <2>4. "returned" \notin Pc(a)
    <3>1. \A b \in Actions \ {x} : Pc(b) \subseteq {"next", "staging"}
      BY PcShape DEF AInv
    <3> QED BY <1>2, <3>1
  <2>5. CASE a = x
    <3>1. Due(a, M) = 0
      BY <2>4, <2>5 DEF Due
    <3> QED BY <1>8, <2>5, <3>1
  <2>6. CASE a # x /\ state[a] \notin DOMAIN List[a]
             /\ ~ \E i \in 1 .. n : stack[i].action = a
    <3>1. Due(a, M) = 0 /\ Due(a, made) = 0
      BY <2>4, <2>6 DEF Due
    <3> QED BY <1>5, <1>6, <2>3, <2>6, <3>1
  <2>7. CASE a # x /\ state[a] \in DOMAIN List[a]
             /\ ~ \E i \in 1 .. n : stack[i].action = a
    <3>1. PICK b \in Actions : b = List[a][state[a]]
      BY <2>7, Members
    <3>2. \A j \in 1 .. n : stack[j].action # b
      BY <1>1, <2>7, <3>1, Caller DEF AInv
    <3>3. M[b] = made[b]
      BY <1>5, <3>2
    <3>4. Due(a, M) = Due(a, made)
      BY <2>4, <3>1, <3>3 DEF Due, Owed
    <3> QED BY <1>5, <1>6, <2>3, <2>7, <3>4
  <2>8. CASE a # x /\ \E i \in 1 .. n : stack[i].action = a
    <3>1. PICK i \in 1 .. n : stack[i].action = a
      BY <2>8
    <3>2. /\ i < n /\ i + 1 \in 1 .. n
          /\ Leads(i) /\ stack[i].pc \in {"next", "staging"}
      BY <1>1, <1>2, <2>8, <3>1 DEF AInv, Path, IInv, Shape
    <3>3. CASE stack[i].pc = "staging"
      <4>1. /\ a \in FollowsFlow /\ Catch(i)
            /\ \A j \in 1 .. n : j > i => stack[j].action \in Below[JumpTable]
        BY <1>1, <3>1, <3>3 DEF AInv, IInv, Shape, Catch
      <4>2. x \in Below[JumpTable] /\ a \in Below[Universal]
        BY <1>2, <3>2, <4>1, TreesAssumption
      <4>3. Data(a) # Data(x)
        BY <4>2, TreesAssumption DEF Data
      <4>4. DOMAIN List[a] = {}
        BY <4>1, Trees, Members DEF IsGroup
      <4>5. Due(a, M) = 0 /\ Due(a, made) = 0
        BY <2>4, <4>4 DEF Due
      <4> QED BY <1>5, <1>6, <2>3, <2>8, <4>3, <4>5
    <3>4. CASE stack[i].pc = "next"
      <4>1. PICK b \in Actions : b = List[a][state[a]]
        BY <3>1, <3>2, <3>4, Members DEF Leads
      <4>2. state[a] \in DOMAIN List[a] /\ stack[i + 1].action = b /\ b \in Below[a]
        BY <3>1, <3>2, <3>4, <4>1, Members DEF Leads
      <4>3. Data(b) = Data(a)
        <5>1. a \in Below[Universal] => b \in Below[Universal]
          BY <4>2, Members, Assumed
        <5>2. a \notin Below[Universal] => b \in Below[JumpTable]
          <6>1. a \in Below[Universal] \/ a \in Below[JumpTable]
            BY <1>1, <3>1 DEF AInv, Path
          <6> QED BY <4>2, <6>1, Members, Assumed
        <5> QED BY <5>1, <5>2, TreesAssumption DEF Data
      <4>4. Busy(b)
        <5>1. Pc(b) = {stack[i + 1].pc}
          BY <1>1, <3>2, <4>2, OneFrame DEF AInv
        <5>2. stack[i + 1].pc \in {"next", "staging"}
          <6>1. CASE i + 1 = n
            BY <1>2, <6>1
          <6>2. CASE i + 1 < n
            BY <1>1, <3>2, <6>2 DEF AInv, IInv, Shape
          <6> QED BY <1>2, <3>2, <6>1, <6>2
        <5> QED BY <5>1, <5>2 DEF Busy
      <4>5. Due(a, M) = M[b] /\ Due(a, made) = made[b]
        BY <2>4, <4>1, <4>2, <4>4 DEF Due, Owed
      <4>6. made[b] \in Nat
        BY <1>3
      <4>7. CASE Data(a) = Data(x)
        <5>1. M[a] = made[a] + k /\ M[b] = made[b] + k
          BY <1>5, <3>1, <3>2, <4>2, <4>3, <4>7
        <5> QED BY <1>6, <2>3, <2>8, <4>5, <4>6, <5>1
      <4>8. CASE Data(a) # Data(x)
        <5>1. M[a] = made[a] /\ M[b] = made[b]
          BY <1>5, <4>3, <4>8
        <5> QED BY <1>6, <2>3, <2>8, <4>5, <5>1
      <4> QED BY <4>7, <4>8
    <3> QED BY <3>2, <3>3, <3>4
  <2> QED BY <2>5, <2>6, <2>7, <2>8
<1> QED BY <1>6, <1>8, <1>9 DEF AllBalanced

(* What a leaf and a pool are at.                                          *)
LEMMA Ungrouped ==
  ASSUME AInv, NEW x, x = This, stack # <<>>, Top.pc = "next", Kind[x] \in {"leaf", "pool"}
  PROVE  /\ x \in Actions /\ AllBalanced(made, count) /\ Idle(x) /\ Busy(x)
         /\ made[x] \in Nat /\ count[x] \in Nat /\ made[x] = count[x]
         /\ DOMAIN List[x] = {} /\ Kind[x] # "restart"
<1>1. x \in Actions
  BY Here DEF AInv
<1>2. DOMAIN List[x] = {} /\ Kind[x] # "restart"
  BY <1>1, Members DEF IsGroup
<1> QED BY <1>1, <1>2, PastEnd

LEMMA LeafApplyBalances == AInv /\ LeafApply => Path' /\ Accounts'
<1> SUFFICES ASSUME AInv, LeafApply PROVE Path' /\ Accounts'
  OBVIOUS
<1>1. PICK x : x = This
  OBVIOUS
<1>2. /\ stack # <<>> /\ Top.pc = "next" /\ Kind[x] = "leaf"
      /\ Change(x) \/ (count' = count /\ made' = made)
      /\ stack' = Under(Len(stack), "applied")
      /\ UNCHANGED <<status, state, curstart>>
  BY <1>1 DEF LeafApply, In, At, Going, Goto
<1>3. /\ x \in Actions /\ AllBalanced(made, count) /\ Idle(x) /\ Busy(x)
      /\ made[x] \in Nat /\ count[x] \in Nat /\ made[x] = count[x]
      /\ DOMAIN List[x] = {} /\ Kind[x] # "restart"
  BY <1>1, <1>2, Ungrouped
<1>4. PICK M : M = made'
  OBVIOUS
<1>5. PICK C : C = count'
  OBVIOUS
<1>6. /\ AllBalanced(M, C) /\ M[x] = C[x] /\ M[x] \in Nat /\ C[x] \in Nat
  <2>1. CASE Change(x)
    BY <1>1, <1>2, <1>3, <1>4, <1>5, <2>1, ChangeBalances
  <2>2. CASE count' = count /\ made' = made
    BY <1>3, <1>4, <1>5, <2>2
  <2> QED BY <1>2, <2>1, <2>2
<1>7. Elsewhere(x, M, C) /\ "applied" \in Pcs
  BY <1>2, <1>4, <1>5 DEF Elsewhere, Pcs
<1>8. Turn(x, "applied")
  BY <1>1, <1>2, <1>7, GotoTurns DEF AInv
<1> QED BY <1>1, <1>2, <1>3, <1>4, <1>5, <1>6, <1>7, <1>8, IdleTurns DEF AInv

(* A step within a pool that counts nothing.                               *)
LEMMA PoolStays ==
  ASSUME AInv, NEW x, x = This, stack # <<>>, Top.pc = "next", Kind[x] \in {"leaf", "pool"},
         NEW M, NEW C, M = made', C = count', AllBalanced(M, C), M[x] = C[x],
         M[x] \in Nat, C[x] \in Nat,
         stack' = stack, status' = status, curstart' = curstart,
         \A a \in Actions \ {x} : state'[a] = state[a]
  PROVE  Path' /\ Accounts'
<1>1. /\ x \in Actions /\ Idle(x) /\ Busy(x) /\ Kind[x] # "restart"
  BY Ungrouped
<1>2. Elsewhere(x, M, C)
  BY DEF Elsewhere
<1>3. Turn(x, "next")
  BY <1>2, StayTurns DEF AInv
<1> QED BY <1>1, <1>2, <1>3, IdleTurns DEF AInv

LEMMA OpBalances == AInv /\ (OpDead \/ OpDone \/ RuleIdle) => Path' /\ Accounts'
<1> SUFFICES ASSUME AInv, OpDead \/ OpDone \/ RuleIdle PROVE Path' /\ Accounts'
  OBVIOUS
<1>1. PICK x : x = This
  OBVIOUS
<1>2. /\ stack # <<>> /\ Top.pc = "next" /\ Kind[x] = "pool"
      /\ UNCHANGED <<stack, status, count, made, curstart>>
      /\ state' = state \/ \E p : state' = [state EXCEPT ![x] = p]
  <2>1. CASE OpDead \/ OpDone
    BY <1>1, <2>1 DEF OpDead, OpDone, OnOp, In, At, NextOp, ghosts
  <2>2. CASE RuleIdle
    BY <1>1, <2>2 DEF RuleIdle, Trying, OnOp, In, At
  <2> QED BY <2>1, <2>2
<1>3. /\ AllBalanced(made, count)
      /\ made[x] \in Nat /\ count[x] \in Nat /\ made[x] = count[x]
  BY <1>1, <1>2, Ungrouped
<1>4. \A a \in Actions \ {x} : state'[a] = state[a]
  BY <1>2 DEF AInv, IInv, Types, CountsOK
<1>5. PICK M : M = made'
  OBVIOUS
<1>6. PICK C : C = count'
  OBVIOUS
<1>7. AllBalanced(M, C) /\ M[x] = C[x] /\ M[x] \in Nat /\ C[x] \in Nat
  BY <1>2, <1>3, <1>5, <1>6
<1> QED BY <1>1, <1>2, <1>4, <1>5, <1>6, <1>7, PoolStays

LEMMA RuleAppliesParts ==
  ASSUME RuleApplies, NEW x, x = This
  PROVE  /\ stack # <<>> /\ Top.pc = "next" /\ Kind[x] = "pool"
         /\ Change(x) /\ curstart' = curstart /\ applied' = applied
         /\ \/ /\ status' = [status EXCEPT ![x] = "mid"] /\ Return(-1) /\ state' = state
            \/ /\ status' = status /\ stack' = stack
               /\ state' = state \/ \E p : state' = [state EXCEPT ![x] = p]
<1>1. /\ stack # <<>> /\ Top.pc = "next" /\ Kind[x] = "pool"
      /\ Change(x) /\ curstart' = curstart /\ applied' = applied
  BY DEF RuleApplies, Trying, OnOp, In, At
<1>2. PICK ops \in Rewritten(code[Data(This)]) :
        IF Breaking(ThisRule, OnAction)
        THEN Partial(This) /\ UNCHANGED state
        ELSE /\ CASE ops[ThisOp] = "dead" -> NextOp
                  [] ops[ThisOp] = ThisCode -> UNCHANGED state
                  [] OTHER -> UNCHANGED state
             /\ UNCHANGED <<status, breakpoint, client, stack, ret>>
  BY DEF RuleApplies
<1>3. CASE Breaking(ThisRule, OnAction)
  BY <1>1, <1>2, <1>3 DEF Partial
<1>4. CASE ~Breaking(ThisRule, OnAction)
  <2>1. status' = status /\ stack' = stack
    BY <1>2, <1>4
  <2>2. NextOp \/ state' = state
    <3>1. CASE ops[ThisOp] = "dead"
      BY <1>2, <1>4, <3>1
    <3>2. CASE ops[ThisOp] # "dead" /\ ops[ThisOp] = ThisCode
      BY <1>2, <1>4, <3>2
    <3>3. CASE ops[ThisOp] # "dead" /\ ops[ThisOp] # ThisCode
      BY <1>2, <1>4, <3>3
    <3> QED BY <3>1, <3>2, <3>3
  <2>3. state' = state \/ \E p : state' = [state EXCEPT ![x] = p]
    BY <2>2 DEF NextOp
  <2> QED BY <1>1, <2>1, <2>3
<1> QED BY <1>3, <1>4

LEMMA RuleAppliesBalances == AInv /\ RuleApplies => Path' /\ Accounts'
<1> SUFFICES ASSUME AInv, RuleApplies PROVE Path' /\ Accounts'
  OBVIOUS
<1>1. PICK x : x = This
  OBVIOUS
<1>2. /\ stack # <<>> /\ Top.pc = "next" /\ Kind[x] = "pool"
      /\ Change(x) /\ curstart' = curstart /\ applied' = applied
      /\ \/ /\ status' = [status EXCEPT ![x] = "mid"] /\ Return(-1) /\ state' = state
         \/ /\ status' = status /\ stack' = stack
            /\ state' = state \/ \E p : state' = [state EXCEPT ![x] = p]
  BY <1>1, RuleAppliesParts
<1>3. /\ x \in Actions /\ Idle(x) /\ Busy(x) /\ DOMAIN List[x] = {} /\ Kind[x] # "restart"
  BY <1>1, <1>2, Ungrouped
<1>4. PICK M : M = made'
  OBVIOUS
<1>5. PICK C : C = count'
  OBVIOUS
<1>6. /\ AllBalanced(M, C) /\ M[x] = C[x] /\ M[x] \in Nat /\ C[x] \in Nat
  BY <1>1, <1>2, <1>3, <1>4, <1>5, ChangeBalances
<1>7. CASE status' = [status EXCEPT ![x] = "mid"] /\ Return(-1) /\ state' = state
  <2>1. Elsewhere(x, M, C) /\ status'[x] = "mid"
    BY <1>2, <1>3, <1>4, <1>5, <1>7 DEF Elsewhere, AInv, IInv, Types, StatusOK
  <2> QED BY <1>1, <1>2, <1>3, <1>4, <1>5, <1>6, <1>7, <2>1, IdleReturns DEF AInv
<1>8. CASE /\ status' = status /\ stack' = stack
           /\ state' = state \/ \E p : state' = [state EXCEPT ![x] = p]
  <2>1. \A a \in Actions \ {x} : state'[a] = state[a]
    BY <1>8 DEF AInv, IInv, Types, CountsOK
  <2> QED BY <1>1, <1>2, <1>4, <1>5, <1>6, <1>8, <2>1, PoolStays
<1> QED BY <1>2, <1>7, <1>8
-----------------------------------------------------------------------------
(* The client, and a restart: what is below an action that is at its start *)
(* is at its start too.                                                    *)
LEMMA FreshBalanced ==
  ASSUME NEW a \in Actions,
         \A b \in Below[a] : status'[b] = "start" /\ Pc(b)' \subseteq {"perform"}
  PROVE  Balanced(a, made, count)'
<1>1. \A b \in Below[a] : ~Busy(b)'
  BY DEF Busy
<1>2. a \in Below[a] /\ \A i \in DOMAIN List[a] : List[a][i] \in Below[a]
  BY Members
<1>3. Idle(a)' /\ ~Busy(a)'
  BY <1>1, <1>2 DEF Idle
<1>4. Through(a)'
  BY <1>2 DEF Through
<1> QED BY <1>3, <1>4 DEF Balanced, Idle

LEMMA ResetValue ==
  ASSUME IInv, NEW r \in {Universal, JumpTable}, status' = Reset(Below[r], status, "start")
  PROVE  \A a \in Actions : status'[a] = IF a \in Below[r] THEN "start" ELSE status[a]
BY DEF IInv, Types, StatusOK, Reset

LEMMA ResetFields ==
  ASSUME IInv, NEW r \in {Universal, JumpTable}
  PROVE  /\ curstart' = Reset(Below[r], curstart, 0) =>
              \A a \in Actions : curstart'[a] = IF a \in Below[r] THEN 0 ELSE curstart[a]
         /\ \A S : applied' = Reset(S, applied, 0) =>
              \A a \in Actions : applied'[a] = IF a \in S THEN 0 ELSE applied[a]
BY DEF IInv, Types, StatusOK, GhostsOK, Reset

(* The client calls the root.                                              *)
LEMMA RootCalled ==
  ASSUME AInv, stack = <<>>, Call(current), current' = current, state' = state
  PROVE  /\ current = Universal /\ Path' /\ stack' # <<>>
         /\ \A a : Pc(a) = {}
         /\ \A a : Pc(a)' = IF a = Universal THEN {"perform"} ELSE {}
<1>1. current = Universal /\ stack' # <<>> /\ Len(stack) = 0
  BY AtRest, EmptySequence DEF AInv
<1>2. PICK f : f = Frame(Universal, "perform", current)
  OBVIOUS
<1>3. f.action = Universal /\ f.pc = "perform"
  BY <1>2 DEF Frame
<1>4. stack' = <<f>>
  BY <1>1, <1>2 DEF Call
<1>5. Len(stack') = 1 /\ stack'[1] = f
  BY <1>4
<1>6. \A a : Pc(a) = {}
  BY <1>1 DEF Pc
<1>7. Path'
  BY <1>3, <1>5, Trees DEF Path
<1>8. ASSUME NEW a PROVE Pc(a)' = IF a = Universal THEN {"perform"} ELSE {}
  <2>1. \A i \in 1 .. 1 : i = 1
    OBVIOUS
  <2> QED BY <1>3, <1>5, <2>1 DEF Pc
<1> QED BY <1>1, <1>6, <1>7, <1>8

LEMMA DecompileBalances == AInv /\ Decompile => Path' /\ Accounts'
<1> SUFFICES ASSUME AInv, Decompile PROVE Path' /\ Accounts'
  OBVIOUS
<1>1. /\ stack = <<>> /\ Call(current) /\ current' = current /\ state' = state
      /\ status' = Reset(Below[current], status, "start")
  BY DEF Decompile, ResetTree
<1>2. /\ current = Universal /\ Path' /\ stack' # <<>>
      /\ \A a : Pc(a)' = IF a = Universal THEN {"perform"} ELSE {}
  BY <1>1, RootCalled
<1>3. \A a \in Actions : a \in Below[Universal] => status'[a] = "start"
  BY <1>1, <1>2, ResetValue DEF AInv
<1>4. ASSUME NEW a \in Actions, Live(a)' PROVE Balanced(a, made, count)'
  <2>1. a \in Below[Universal]
    BY <1>2, <1>4, Trees DEF Live
  <2>2. \A b \in Below[a] : b \in Actions /\ b \in Below[Universal]
    BY <2>1, Members, Assumed
  <2> QED BY <1>2, <1>3, <2>2, FreshBalanced
<1> QED BY <1>2, <1>4 DEF Accounts, AllBalanced

LEMMA ContinueBalances == AInv /\ Continue => Path' /\ Accounts'
<1> SUFFICES ASSUME AInv, Continue PROVE Path' /\ Accounts'
  OBVIOUS
<1>1. /\ stack = <<>> /\ outcome = "interrupted" /\ Call(current)
      /\ UNCHANGED <<current, status, count, made, state, curstart>>
  BY DEF Continue, fields, ghosts
<1>2. /\ Path' /\ stack' # <<>>
      /\ \A a : Pc(a) = {}
      /\ \A a : Pc(a)' = IF a = Universal THEN {"perform"} ELSE {}
  BY <1>1, RootCalled DEF AInv
<1>3. \A a \in Actions : Live(a)' => Live(a)
  BY <1>1, <1>2, Trees DEF Live
<1>4. Accounts'
  BY <1>1, <1>2, <1>3, Assumed, CallBalances
<1> QED BY <1>2, <1>4

LEMMA RestartParts ==
  ASSUME AInv, Restart, NEW x, x = This
  PROVE  /\ x = Universal /\ x \in Actions /\ stack' # <<>> /\ Path'
         /\ made[x] = count[x] /\ made[x] \in Nat /\ count[x] \in Nat
         /\ \A a \in Actions : a \in Below[Universal] =>
              /\ status'[a] = "start" /\ applied'[a] = 0 /\ curstart'[a] # -1
         /\ state'[x] = 1
         /\ \A a : Pc(a)' = IF a = x THEN {"next"} ELSE {}
         /\ UNCHANGED <<made, count>>
<1>1. x = This
  OBVIOUS
<1>2. /\ stack # <<>> /\ Top.pc = "next" /\ Kind[x] = "restart" /\ Data(x) = "function"
      /\ state[x] > Len(List[x])
      /\ status' = Reset(Below[x], status, "start")
      /\ curstart' = [Reset(Below[x], curstart, 0) EXCEPT ![x] = curstart[x] + 1]
      /\ applied' = Reset(Below[x], applied, 0) /\ state' = [state EXCEPT ![x] = 1]
      /\ UNCHANGED <<count, made, stack>>
  BY <1>1 DEF Restart, RestartWanted, AtEnd, At
<1>3. x = Universal /\ x \in Actions /\ Len(stack) = 1 /\ stack[1].pc = "next"
      /\ stack[1].action = x
  <2>1. x \in Actions
    BY <1>1, <1>2, Here DEF AInv
  <2>2. x \in Below[Universal]
    BY <1>2 DEF Data
  <2>3. x = Universal
    BY <1>2, <2>1, <2>2, Trees
  <2>4. Len(stack) = 1
    BY <1>1, <1>2, <2>3, Here DEF AInv
  <2> QED BY <1>1, <1>2, <2>1, <2>3, <2>4 DEF Top, This
<1>4. /\ made[x] = count[x] /\ made[x] \in Nat /\ count[x] \in Nat
  <2>1. state[x] \notin DOMAIN List[x]
    <3>1. state[x] \in Nat \ {0} /\ Len(List[x]) \in Nat
      BY <1>3, Assumed DEF AInv, IInv, Types, CountsOK
    <3>2. ~(state[x] <= Len(List[x]))
      BY <1>2, <3>1
    <3> QED BY <1>3, <3>1, <3>2, Members
  <2> QED BY <1>1, <1>2, <2>1, PastEnd
<1>5. \A a \in Actions : a \in Below[Universal] => status'[a] = "start"
  BY <1>2, <1>3, ResetValue DEF AInv
<1>6. \A a \in Actions : a \in Below[Universal] =>
        applied'[a] = 0 /\ curstart'[a] # -1
  <2>1. curstart[x] \in Nat \cup {-1} /\ curstart[x] # -1
    BY <1>3 DEF AInv, IInv, Root, Types, StatusOK
  <2>2. PICK f : f = Reset(Below[x], curstart, 0)
    OBVIOUS
  <2>3. DOMAIN f = Actions /\ \A a \in Actions : a \in Below[Universal] => f[a] = 0
    BY <1>3, <2>2 DEF Reset, AInv, IInv, Types, StatusOK
  <2>4. curstart' = [f EXCEPT ![x] = curstart[x] + 1] /\ curstart[x] + 1 # -1
    BY <1>2, <2>1, <2>2
  <2>5. \A a \in Actions : a \in Below[Universal] => curstart'[a] # -1
    BY <1>3, <2>3, <2>4
  <2>6. \A a \in Actions : a \in Below[Universal] => applied'[a] = 0
    BY <1>2, <1>3, ResetFields DEF AInv
  <2> QED BY <2>5, <2>6
<1>7. \A a : Pc(a)' = IF a = x THEN {"next"} ELSE {}
  <2>1. \A i \in 1 .. 1 : i = 1
    OBVIOUS
  <2> QED BY <1>2, <1>3, <2>1 DEF Pc
<1>8. Path'
  BY <1>2, <1>3, Trees DEF Path
<1>9. state'[x] = 1
  BY <1>2, <1>3 DEF AInv, IInv, Types, CountsOK
<1> QED BY <1>2, <1>3, <1>4, <1>5, <1>6, <1>7, <1>8, <1>9

LEMMA RestartBalances == AInv /\ Restart => Path' /\ Accounts'
<1> SUFFICES ASSUME AInv, Restart PROVE Path' /\ Accounts'
  OBVIOUS
<1>1. PICK x : x = This
  OBVIOUS
<1>2. /\ x = Universal /\ x \in Actions /\ stack' # <<>> /\ Path'
      /\ made[x] = count[x] /\ made[x] \in Nat /\ count[x] \in Nat
      /\ \A a \in Actions : a \in Below[Universal] =>
           /\ status'[a] = "start" /\ curstart'[a] # -1
      /\ \A a : Pc(a)' = IF a = x THEN {"next"} ELSE {}
      /\ UNCHANGED <<made, count>>
  BY <1>1, RestartParts
<1>3. ASSUME NEW a \in Actions, Live(a)' PROVE Balanced(a, made, count)'
  <2>1. a \in Below[Universal]
    BY <1>2, <1>3, Trees DEF Live
  <2>2. \A b \in Below[a] : b \in Actions /\ b \in Below[Universal]
    BY <2>1, Members, Assumed
  <2>3. CASE a # x
    <3>1. PICK i \in DOMAIN List[Universal] : a \in Below[List[Universal][i]]
      BY <1>2, <2>1, <2>3, TreesAssumption
    <3>2. x \notin Below[a]
      BY <1>2, <3>1, Members, Assumed
    <3>3. \A b \in Below[a] : status'[b] = "start" /\ Pc(b)' \subseteq {"perform"}
      BY <1>2, <2>2, <3>2
    <3> QED BY <3>3, FreshBalanced
  <2>4. CASE a = x
    <3>1. \A i \in DOMAIN List[x] : List[x][i] \in Below[Universal] /\ List[x][i] # x
                                    /\ List[x][i] \in Actions
      BY <1>2, Members
    <3>2. Idle(x)'
      BY <1>2, <3>1 DEF Idle, Busy
    <3>3. "returned" \notin Pc(x)'
      BY <1>2
    <3>4. curstart'[x] # -1
      BY <1>2, Trees
    <3> QED BY <1>2, <2>4, <3>2, <3>3, <3>4, IdleBalanced
  <2> QED BY <2>3, <2>4
<1> QED BY <1>2, <1>3 DEF Accounts, AllBalanced

(* Nothing of "jumptable" is in progress where a leaf that follows the     *)
(* flow is about to.                                                       *)
LEMMA NoneInRecovery ==
  ASSUME AInv, stack # <<>>, Top.pc = "next", This \in FollowsFlow
  PROVE  \A i \in 1 .. Len(stack) : stack[i].action \notin Below[JumpTable]
<1>1. /\ \A i \in 1 .. Len(stack) : ~Catch(i)
      /\ Len(stack) \in Nat /\ stack[Len(stack)].action = This
  BY FirstRecovery, Here DEF AInv, This
<1>2. \A i \in 1 .. Len(stack) : stack[i].action # JumpTable
  <2> SUFFICES ASSUME NEW i \in 1 .. Len(stack), stack[i].action = JumpTable PROVE FALSE
    OBVIOUS
  <2>1. i # 1
    BY Trees DEF AInv, IInv, Shape
  <2>2. i - 1 \in 1 .. Len(stack) /\ i - 1 < Len(stack) /\ (i - 1) + 1 = i
    BY <1>1, <2>1
  <2>3. stack[i - 1].pc # "staging" /\ Leads(i - 1)
    BY <1>1, <2>2 DEF Catch, AInv, Path
  <2>4. stack[i - 1].action \in Actions
    BY <2>2, FrameTypes DEF AInv
  <2> QED BY <2>2, <2>3, <2>4, Members DEF Leads
<1>3. \A i \in 1 .. Len(stack) : stack[i].action \in Below[Universal]
  <2> SUFFICES ASSUME NEW i \in 1 .. Len(stack)
               PROVE  stack[i].action \in Below[Universal]
    OBVIOUS
  <2>1. \A k \in 1 .. i : k \in 1 .. Len(stack)
    BY <1>1
  <2> QED BY <1>2, <2>1 DEF AInv, Path
<1> QED BY <1>3, TreesAssumption

LEMMA StageParts ==
  ASSUME AInv, StageJumpTable, NEW x, x = This
  PROVE  /\ stack # <<>> /\ stack' # <<>> /\ Top.pc = "next" /\ Path'
         /\ Kind[x] = "leaf" /\ x \in Actions /\ Pc(x) = {"next"}
         /\ x \in Below[Universal] /\ x \notin Below[JumpTable]
         /\ \A a : Pc(a)' = IF a = JumpTable THEN {"perform"}
                            ELSE IF a = x THEN {"staging"} ELSE Pc(a)
         /\ \A a \in Actions : a \in Below[JumpTable] => Pc(a) = {}
         /\ \A a \in Actions :
              status'[a] = IF a \in Below[JumpTable] THEN "start" ELSE status[a]
         /\ \A a \in Actions : a \notin Below[JumpTable] => curstart'[a] = curstart[a]
         /\ UNCHANGED <<count, made, state, applied>>
<1>1. x = This
  OBVIOUS
<1>2. PICK n : n = Len(stack)
  OBVIOUS
<1>3. /\ stack # <<>> /\ Top.pc = "next" /\ Kind[x] = "leaf" /\ x \in FollowsFlow
      /\ status' = Reset(Below[JumpTable], status, "start")
      /\ stack' = [stack EXCEPT ![Len(stack)] = Frame(x, "staging", current)]
                    \o <<Frame(JumpTable, "perform", JumpTable)>>
      /\ curstart' = Reset(Below[JumpTable], curstart, 0)
      /\ UNCHANGED <<count, made, state, applied>>
  BY <1>1 DEF StageJumpTable, In, At, ResetTree
<1>4. /\ n \in Nat /\ n > 0 /\ n \in 1 .. n /\ stack[n].action = x
      /\ x \in Actions /\ Pc(x) = {"next"}
      /\ \A i \in 1 .. n : i = n \/ i < n
  BY <1>1, <1>2, <1>3, Here, PcShape DEF AInv, This
<1>5. \A i \in 1 .. n : stack[i].action \notin Below[JumpTable]
  BY <1>1, <1>2, <1>3, NoneInRecovery
<1>6. /\ Len(stack') = n + 1
      /\ stack'[n + 1].action = JumpTable /\ stack'[n + 1].pc = "perform"
      /\ \A i \in 1 .. n : /\ stack'[i].action = stack[i].action
                           /\ stack'[i].pc = IF i = n THEN "staging" ELSE stack[i].pc
  <2>1. stack \in Seq(Frames)
    BY FrameTypes DEF AInv
  <2>2. PICK f : f = Frame(JumpTable, "perform", JumpTable)
    OBVIOUS
  <2>3. PICK g : g = Frame(x, "staging", current)
    OBVIOUS
  <2>4. f.action = JumpTable /\ f.pc = "perform" /\ g.action = x /\ g.pc = "staging"
    BY <2>2, <2>3 DEF Frame
  <2>5. g \in Frames /\ f \in Frames
    BY <1>4, <2>2, <2>3, Assumed DEF Frame, Frames, Pcs, AInv, IInv, Types, ClientOK
  <2>6. PICK s : s = [stack EXCEPT ![n] = g]
    OBVIOUS
  <2>7. s \in Seq(Frames) /\ Len(s) = n /\ s[n] = g /\ \A i \in 1 .. n : i # n => s[i] = stack[i]
    BY <1>2, <1>4, <2>1, <2>5, <2>6
  <2>8. stack' = s \o <<f>>
    BY <1>2, <1>3, <2>2, <2>3, <2>6
  <2>9. Len(stack') = n + 1 /\ stack'[n + 1] = f /\ \A i \in 1 .. n : stack'[i] = s[i]
    BY <1>4, <2>5, <2>7, <2>8
  <2> QED BY <1>4, <2>4, <2>7, <2>9
<1>7. /\ Path'
      /\ \A a : Pc(a)' = IF a = JumpTable THEN {"perform"}
                         ELSE IF a = x THEN {"staging"} ELSE Pc(a)
  <2>1. JumpTable \in Below[JumpTable] /\ JumpTable \in Actions
    BY Trees, Assumed
  <2>2. PICK p : p = "staging"
    OBVIOUS
  <2>3. PICK b \in Actions : b = JumpTable
    BY <2>1
  <2>4. Pushing(b, n, p)
    BY <1>2, <1>3, <1>5, <1>6, <2>1, <2>2, <2>3 DEF Pushing
  <2>5. Path' /\ Pushed(b, n, p)
    BY <2>4, PushPath DEF AInv
  <2> QED BY <1>4, <2>2, <2>3, <2>5 DEF Pushed
<1>8. \A a \in Actions : status'[a] = IF a \in Below[JumpTable] THEN "start" ELSE status[a]
  BY <1>3, ResetValue DEF AInv
<1>9. x \in Below[Universal] /\ x \notin Below[JumpTable]
  BY <1>3, TreesAssumption
<1>10. \A a \in Actions : a \notin Below[JumpTable] => curstart'[a] = curstart[a]
  BY <1>3 DEF Reset, AInv, IInv, Types, StatusOK
<1>11. \A a \in Actions : a \in Below[JumpTable] => Pc(a) = {}
  BY <1>2, <1>5 DEF Pc
<1>12. stack' # <<>>
  BY <1>4, <1>6, EmptySequence
<1> QED BY <1>3, <1>4, <1>7, <1>8, <1>9, <1>10, <1>11, <1>12

LEMMA StageBalances == AInv /\ StageJumpTable => Path' /\ Accounts'
<1> SUFFICES ASSUME AInv, StageJumpTable PROVE Path' /\ Accounts'
  OBVIOUS
<1>1. PICK x : x = This
  OBVIOUS
<1>2. /\ stack # <<>> /\ Top.pc = "next" /\ Path'
      /\ Kind[x] = "leaf" /\ x \in Actions /\ Pc(x) = {"next"}
      /\ UNCHANGED <<count, made, state>>
  BY <1>1, StageParts
<1>3. \A a : Pc(a)' = IF a = JumpTable THEN {"perform"}
                     ELSE IF a = x THEN {"staging"} ELSE Pc(a)
  BY <1>1, StageParts
<1>4. \A a \in Actions : status'[a] = IF a \in Below[JumpTable] THEN "start" ELSE status[a]
  BY <1>1, StageParts
<1>5. x \in Below[Universal] /\ x \notin Below[JumpTable]
  BY <1>1, StageParts
<1>6. \A a \in Actions : /\ a \in Below[JumpTable] => Pc(a) = {}
                         /\ a \notin Below[JumpTable] => curstart'[a] = curstart[a]
  BY <1>1, StageParts
<1>7. ASSUME NEW a \in Actions, Live(a)', a \in Below[JumpTable]
      PROVE  Balanced(a, made, count)'
  <2>1. \A b \in Below[a] : b \in Actions /\ b \in Below[JumpTable]
    BY <1>7, Members, Assumed
  <2>2. \A b \in Below[a] : Pc(b)' \subseteq {"perform"}
    <3>1. \A b \in Below[a] : Pc(b) = {}
      BY <1>6, <2>1
    <3> QED BY <1>3, <1>5, <2>1, <3>1
  <2> QED BY <1>4, <2>1, <2>2, FreshBalanced
<1>8. ASSUME NEW a \in Actions, a \in Below[Universal]
      PROVE  /\ Busy(a)' <=> Busy(a)
             /\ Owed(a, made)' = Owed(a, made) /\ status'[a] = status[a]
             /\ a # x => Pc(a)' = Pc(a)
  <2>1. a \notin Below[JumpTable] /\ a # JumpTable
    BY <1>8, Trees, TreesAssumption
  <2>2. status'[a] = status[a]
    BY <1>4, <2>1
  <2>3. CASE a = x
    <3>1. Pc(a) = {"next"} /\ Pc(a)' = {"staging"}
      BY <1>2, <1>3, <2>1, <2>3
    <3> QED BY <1>2, <2>2, <2>3, <3>1 DEF Busy, Owed
  <2>4. CASE a # x
    <3>1. Pc(a)' = Pc(a)
      BY <1>3, <2>1, <2>4
    <3> QED BY <1>2, <2>2, <2>4, <3>1 DEF Busy, Owed
  <2> QED BY <2>3, <2>4
<1>9. ASSUME NEW a \in Actions, Live(a)', a \notin Below[JumpTable]
      PROVE  Balanced(a, made, count)'
  <2>1. a \in Below[Universal] /\ Live(a)
    BY <1>2, <1>9 DEF Live
  <2>2. \A i \in DOMAIN List[a] : List[a][i] \in Actions /\ List[a][i] \in Below[Universal]
    BY <2>1, Members, Assumed
  <2>3. curstart'[a] = curstart[a]
    BY <1>6, <1>9
  <2>4. CASE a = x
    <3>1. /\ Kind[x] # "restart" /\ DOMAIN List[x] = {}
          /\ made[x] \in Nat /\ count[x] \in Nat /\ made[x] = count[x]
      BY <1>1, <1>2, Ungrouped
    <3>2. Pc(x)' = {"staging"} /\ Idle(x)'
      BY <1>3, <1>5, <3>1, Trees DEF Idle
    <3> QED BY <1>2, <2>4, <3>1, <3>2, IdleBalanced
  <2>5. CASE a # x
    <3>1. "returned" \notin Pc(a)
      BY <1>1, <1>2, <2>5, PcShape DEF AInv
    <3>2. Balanced(a, made, count)
      BY <2>1 DEF AInv, Accounts, AllBalanced
    <3>3. \A i \in DOMAIN List[a] :
            /\ Busy(List[a][i])' <=> Busy(List[a][i])
            /\ Owed(List[a][i], made)' = Owed(List[a][i], made)
      BY <1>8, <2>2
    <3> QED BY <1>2, <1>8, <2>1, <2>3, <2>5, <3>1, <3>2, <3>3, StillBalanced
  <2> QED BY <2>4, <2>5
<1> QED BY <1>2, <1>7, <1>9 DEF Accounts, AllBalanced

LEMMA StagedBalances == AInv /\ Staged => Path' /\ Accounts'
<1> SUFFICES ASSUME AInv, Staged PROVE Path' /\ Accounts'
  OBVIOUS
<1>1. PICK x : x = This
  OBVIOUS
<1>2. /\ stack # <<>> /\ Top.pc = "returned" /\ Kind[x] = "leaf"
      /\ stack' = Under(Len(stack), "next")
      /\ UNCHANGED <<status, count, made, state, curstart>>
  BY <1>1 DEF Staged, In, At, Goto, fields, ghosts
<1>3. /\ x \in Actions /\ Pc(x) = {"returned"} /\ AllBalanced(made, count)
      /\ Balanced(x, made, count) /\ made[x] \in Nat /\ count[x] \in Nat
  BY <1>1, <1>2, OnTop DEF AInv
<1>4. DOMAIN List[x] = {} /\ ~IsGroup(x)
  BY <1>2, <1>3, Members DEF IsGroup
<1>5. Idle(x) /\ Busy(x) /\ Due(x, made) = 0
  BY <1>3, <1>4 DEF Idle, Busy, Due
<1>6. made[x] = count[x]
  BY <1>3, <1>5 DEF Balanced
<1>7. Elsewhere(x, made, count) /\ "next" \in Pcs
  BY <1>2 DEF Elsewhere, Pcs
<1>8. Turn(x, "next")
  BY <1>1, <1>2, <1>7, GotoTurns DEF AInv
<1> QED BY <1>1, <1>2, <1>3, <1>5, <1>6, <1>7, <1>8, IdleTurns DEF AInv

LEMMA ThrowParts ==
  ASSUME AInv, Throw
  PROVE  /\ stack # <<>> /\ Top.pc = "next"
         /\ UNCHANGED <<status, count, made, state, curstart, applied>>
         /\ Catchers = {} => stack' = <<>> /\ outcome' = "error"
         /\ Catchers # {} =>
              /\ Path' /\ stack' # <<>> /\ outcome' = outcome /\ Pc(JumpTable)' = {}
              /\ \E y \in Actions :
                   /\ y \in Below[Universal] /\ Kind[y] = "leaf"
                   /\ Pc(y) = {"staging"} /\ Pc(y)' = {"next"}
                   /\ \A a \in Actions : a \in Below[Universal] /\ a # y => Pc(a)' = Pc(a)
<1>1. /\ stack # <<>> /\ Top.pc = "next"
      /\ UNCHANGED <<status, count, made, state, curstart, applied>>
  BY DEF Throw, Trying, OnOp, In, At, fields, ghosts
<1>2. CASE Catchers = {}
  BY <1>1, <1>2 DEF Throw
<1>3. CASE Catchers # {}
  <2>1. PICK k \in DOMAIN stack :
          /\ stack[k].pc = "staging" /\ stack' = Under(k, "next") /\ outcome' = outcome
    BY <1>3 DEF Throw, Catchers
  <2>2. PICK y : y = stack[k].action
    OBVIOUS
  <2>3. PICK n : n = Len(stack)
    OBVIOUS
  <2>4. /\ k \in 1 .. n /\ n \in Nat /\ Catch(k) /\ "next" \in Pcs
        /\ \A i \in 1 .. n : i > k => stack[i].action \in Below[JumpTable]
        /\ y \in FollowsFlow /\ stack[n].pc = "next"
    <3>1. k \in 1 .. n /\ n \in Nat /\ stack[n] = Top
      BY <1>1, <2>3, FrameTypes, Here DEF AInv
    <3>2. Catch(k)
      BY <2>1 DEF Catch
    <3> QED BY <1>1, <2>2, <2>3, <3>1, <3>2 DEF AInv, IInv, Shape, Pcs
  <2>5. /\ k < n /\ k + 1 \in 1 .. n /\ k + 1 > k /\ stack[k + 1].action = JumpTable
    <3>1. k # n
      BY <2>1, <2>4
    <3>2. k < n /\ k + 1 \in 1 .. n /\ k + 1 > k
      BY <2>4, <3>1
    <3>3. Leads(k)
      BY <2>3, <2>4, <3>2 DEF AInv, Path
    <3> QED BY <2>1, <3>2, <3>3 DEF Leads
  <2>6. /\ y \in Actions /\ y \in Below[Universal] /\ y \notin Below[JumpTable]
        /\ Kind[y] = "leaf" /\ Pc(y) = {"staging"}
    <3>1. Pc(y) = {"staging"}
      BY <2>1, <2>2, <2>3, <2>4, OneFrame DEF AInv
    <3>2. y \in Actions
      BY <2>2, <2>3, <2>4, FrameTypes DEF AInv
    <3> QED BY <2>4, <3>1, <3>2, TreesAssumption
  <2>7. /\ Path'
        /\ \A a : Pc(a)' = IF a = y THEN {"next"}
                           ELSE IF \E i \in 1 .. n : i > k /\ stack[i].action = a
                                THEN {} ELSE Pc(a)
    <3>1. \A i \in 1 .. Len(stack) : i < k => state'[stack[i].action] = state[stack[i].action]
      BY <1>1
    <3>2. /\ Path'
          /\ \A a : Pc(a)' = IF a = stack[k].action THEN {"next"}
                             ELSE IF \E i \in 1 .. Len(stack) : i > k /\ stack[i].action = a
                                  THEN {} ELSE Pc(a)
      BY <2>1, <2>3, <2>4, <3>1, UnderPath DEF AInv
    <3> QED BY <2>2, <2>3, <3>2
  <2>8. ASSUME NEW a \in Actions, a \in Below[Universal], a # y
        PROVE  Pc(a)' = Pc(a)
    <3>1. a \notin Below[JumpTable]
      BY <2>8, TreesAssumption
    <3>2. ~ \E i \in 1 .. n : i > k /\ stack[i].action = a
      BY <2>4, <3>1
    <3> QED BY <2>7, <2>8, <3>2
  <2>9. Pc(JumpTable)' = {}
    <3>1. JumpTable # y
      BY <2>6, Trees
    <3> QED BY <2>5, <2>7, <3>1
  <2>10. stack' # <<>>
    <3>1. stack' # <<>> \/ \A a : Pc(a)' = {}
      BY EmptyPath
    <3> QED BY <2>7, <3>1
  <2> QED BY <1>1, <1>3, <2>1, <2>6, <2>7, <2>8, <2>9, <2>10
<1> QED BY <1>2, <1>3

LEMMA ThrowBalances == AInv /\ Throw => Path' /\ Accounts'
<1> SUFFICES ASSUME AInv, Throw PROVE Path' /\ Accounts'
  OBVIOUS
<1>1. /\ stack # <<>> /\ Top.pc = "next"
      /\ UNCHANGED <<status, count, made, state, curstart>>
  BY ThrowParts
<1>2. CASE Catchers = {}
  <2>1. stack' = <<>> /\ outcome' = "error"
    BY <1>2, ThrowParts
  <2>2. Path' /\ \A a : Pc(a)' = {}
    BY <2>1, EmptyPath
  <2>3. \A a \in Actions : ~Live(a)'
    BY <2>1, <2>2 DEF Live
  <2> QED BY <2>2, <2>3 DEF Accounts, AllBalanced
<1>3. CASE Catchers # {}
  <2>1. PICK y \in Actions :
          /\ y \in Below[Universal] /\ Kind[y] = "leaf"
          /\ Pc(y) = {"staging"} /\ Pc(y)' = {"next"}
          /\ \A a \in Actions : a \in Below[Universal] /\ a # y => Pc(a)' = Pc(a)
    BY <1>3, ThrowParts
  <2>2. Path' /\ stack' # <<>> /\ outcome' = outcome /\ Pc(JumpTable)' = {}
    BY <1>3, ThrowParts
  <2>3. ASSUME NEW a \in Actions, a \in Below[Universal]
        PROVE  /\ Busy(a)' <=> Busy(a)
               /\ Owed(a, made)' = Owed(a, made)
    <3>1. CASE a = y
      BY <1>1, <2>1, <3>1 DEF Busy, Owed
    <3>2. CASE a # y
      <4>1. Pc(a)' = Pc(a)
        BY <2>1, <2>3, <3>2
      <4> QED BY <1>1, <3>2, <4>1 DEF Busy, Owed
    <3> QED BY <3>1, <3>2
  <2>4. ASSUME NEW a \in Actions, Live(a)' PROVE Balanced(a, made, count)'
    <3>1. a \in Below[Universal] /\ Live(a)
      BY <1>1, <2>2, <2>4 DEF Live
    <3>2. Balanced(a, made, count)
      BY <3>1 DEF AInv, Accounts, AllBalanced
    <3>3. \A i \in DOMAIN List[a] : List[a][i] \in Actions /\ List[a][i] \in Below[Universal]
      BY <3>1, Members, Assumed
    <3>4. CASE a = y
      <4>1. DOMAIN List[y] = {} /\ ~IsGroup(y)
        BY <2>1, Members DEF IsGroup
      <4>2. Busy(y) /\ Due(y, made) = 0
        BY <2>1, <4>1 DEF Busy, Due
      <4>3. made[y] \in Nat /\ count[y] \in Nat
        BY <2>1 DEF AInv, IInv, Types, CountsOK, GhostsOK
      <4>4. made[y] = count[y]
        BY <3>2, <3>4, <4>2, <4>3 DEF Balanced
      <4>5. Pc(y)' = {"next"} /\ Idle(y)' /\ Kind[y] # "restart"
        BY <2>1, <4>1 DEF Idle
      <4> QED BY <1>1, <3>4, <4>3, <4>4, <4>5, IdleBalanced
    <3>5. CASE a # y
      <4>1. "returned" \notin Pc(a)
        <5>1. PICK x : x = This
          OBVIOUS
        <5>2. /\ Pc(x) = {"next"}
              /\ \A b \in Actions \ {x} : Pc(b) \subseteq {"next", "staging"}
          BY <1>1, <5>1, PcShape DEF AInv
        <5>3. CASE a = x
          BY <5>2, <5>3
        <5>4. CASE a # x
          BY <5>2, <5>4
        <5> QED BY <5>3, <5>4
      <4>2. \A i \in DOMAIN List[a] :
              /\ Busy(List[a][i])' <=> Busy(List[a][i])
              /\ Owed(List[a][i], made)' = Owed(List[a][i], made)
        BY <2>3, <3>3
      <4>3. Pc(a)' = Pc(a)
        BY <2>1, <3>1, <3>5
      <4> QED BY <1>1, <3>2, <4>1, <4>2, <4>3, StillBalanced
    <3> QED BY <3>4, <3>5
  <2> QED BY <2>2, <2>4 DEF Accounts, AllBalanced
<1> QED BY <1>2, <1>3
-----------------------------------------------------------------------------
LEMMA InitAInv == Init => AInv
<1> SUFFICES ASSUME Init PROVE AInv
  OBVIOUS
<1>1. stack = <<>> /\ Len(stack) = 0 /\ outcome = "none"
  BY EmptySequence DEF Init
<1>2. Path /\ \A a : Pc(a) = {}
  BY <1>1 DEF Path, Pc
<1>3. Accounts
  BY <1>1, <1>2 DEF Accounts, AllBalanced, Live
<1> QED BY <1>2, <1>3, InitIInv DEF AInv

LEMMA StutterBalances == AInv /\ UNCHANGED vars => Path' /\ Accounts'
<1> SUFFICES ASSUME AInv, UNCHANGED vars PROVE Path' /\ Accounts'
  OBVIOUS
<1>1. UNCHANGED <<status, count, state, curstart, outcome, stack, ret, made>>
  BY DEF vars, fields, client, ghosts
<1>2. Path'
  BY <1>1 DEF AInv, Path, Leads
<1>3. \A a : Pc(a)' = Pc(a)
  BY <1>1 DEF Pc
<1>4. \A a : Owed(a, made)' = Owed(a, made) /\ (Busy(a)' <=> Busy(a))
  BY <1>1, <1>3 DEF Owed, Busy
<1>5. ASSUME NEW a \in Actions, Live(a)' PROVE Balanced(a, made, count)'
  <2>1. Balanced(a, made, count)
    BY <1>1, <1>3, <1>5 DEF Live, AInv, Accounts, AllBalanced
  <2>2. Due(a, made)' = Due(a, made)
    BY <1>1, <1>3, <1>4 DEF Due
  <2>3. (Resting(a)' <=> Resting(a)) /\ (Through(a)' <=> Through(a)) /\ (Idle(a)' <=> Idle(a))
    BY <1>1, <1>3, <1>4 DEF Resting, Through, Idle
  <2> QED BY <1>1, <1>4, <2>1, <2>2, <2>3 DEF Balanced
<1> QED BY <1>2, <1>5 DEF Accounts, AllBalanced

LEMMA NextAInv == AInv /\ [Next]_vars => AInv'
<1> SUFFICES ASSUME AInv, [Next]_vars PROVE AInv'
  OBVIOUS
<1>1. IInv'
  BY NextKeeps DEF AInv
<1>2. CASE Decompile \/ Continue
  BY <1>1, <1>2, DecompileBalances, ContinueBalances DEF AInv
<1>3. CASE Perform
  BY <1>1, <1>3, StartBreakBalances, StartBalances, ResumeBalances, EndedBalances,
     ActionBreakBalances, LoopBalances, FinishBalances DEF Perform, AInv
<1>4. CASE Apply
  BY <1>1, <1>4, GroupNextBalances, GroupMemberBalances, GroupPartialBalances,
     EndBalances, RestartBalances, LeafApplyBalances, StageBalances, StagedBalances,
     ThrowBalances, OpBalances, RuleAppliesBalances DEF Apply, AInv
<1>5. CASE UNCHANGED vars
  BY <1>1, <1>5, StutterBalances DEF AInv
<1> QED BY <1>2, <1>3, <1>4, <1>5 DEF Next, Engine

LEMMA SpecAInv == Spec => []AInv
BY InitAInv, NextAInv, PTL DEF Spec

(* Action::perform returns all the changes that were made in its action    *)
(* since it began, those before a breakpoint and those of a member that    *)
(* was interrupted in the middle included: for any trees, rules and        *)
(* breakpoints, and whatever a leaf throws or recovers on the way.         *)
THEOREM ChangesAccounted == Spec => NoChangeForgotten
<1>1. AInv /\ Finish => ret' = made[This]
  BY FinishReturns
<1>2. AInv /\ [Next]_vars => [Finish => ret' = made[This]]_vars
  BY <1>1
<1> QED BY <1>2, SpecAInv, PTL DEF Spec, NoChangeForgotten
-----------------------------------------------------------------------------
(* How far the actions have come.  All the leaves within an action have    *)
(* been applied since the function was last cleared:                       *)
Covered(a) == \A b \in Below[a] : Kind[b] = "leaf" => applied[b] >= 1

(* An action has been applied since it was last at its start.              *)
Passed(a) == "applied" \in Pc(a) \/ status[a] \in {"end", "actionbreak", "repeat"}

(* A group has covered the members before the one it is at, and that one   *)
(* when it has returned.                                                   *)
Progress(a) ==
  /\ Passed(a) => Covered(a)
  /\ ("next" \in Pc(a) \/ "returned" \in Pc(a) \/ status[a] = "mid") =>
       \A i \in DOMAIN List[a] : i < state[a] => Covered(List[a][i])
  /\ (IsGroup(a) /\ "returned" \in Pc(a) /\ ret >= 0) =>
       state[a] \in DOMAIN List[a] /\ Covered(List[a][state[a]])
  /\ (Kind[a] = "restart" /\ curstart[a] = -1) => Covered(a)
  /\ (\E p \in Pc(a) : p # "perform") => status[a] \notin {"end", "actionbreak"}

(* A leaf is never left in the middle, and one that is to be applied once  *)
(* has been when it is past that.                                          *)
Once(a) ==
  Kind[a] = "leaf" =>
    /\ status[a] # "mid"
    /\ "onceperfunc" \in Flags[a] =>
         /\ status[a] # "repeat"
         /\ applied[a] = IF Passed(a) THEN 1 ELSE 0

Fine(a) == a \in Below[Universal] => Progress(a) /\ Once(a)

Running == stack # <<>> \/ outcome \in {"interrupted", "done"}

Progresses ==
  /\ Running => \A a \in Actions : Fine(a)
  /\ (stack = <<>> /\ outcome = "done") => Covered(Universal)

OInv == AInv /\ Progresses

LEMMA OInvOnce == OInv => OncePerStart
<1> SUFFICES ASSUME OInv, stack = <<>>, outcome = "done",
                    NEW a \in Below[Universal], Kind[a] = "leaf"
             PROVE  /\ applied[a] >= 1
                    /\ "onceperfunc" \in Flags[a] => applied[a] = 1
  BY DEF OncePerStart
<1>1. a \in Actions
  BY Members, Assumed
<1>2. Once(a) /\ Covered(Universal)
  BY <1>1 DEF OInv, Progresses, Running, Fine
<1>3. applied[a] >= 1
  BY <1>2 DEF Covered
<1>4. "onceperfunc" \in Flags[a] => applied[a] = 1
  BY <1>2, <1>3 DEF Once
<1> QED BY <1>3, <1>4

(* What was covered stays so while leaves are applied.                     *)
Growing == \A a \in Actions : applied[a] >= 1 => applied'[a] >= 1

LEMMA CoveredGrows ==
  ASSUME Growing, NEW a \in Actions, Covered(a)
  PROVE  Covered(a)'
<1>1. \A b \in Below[a] : b \in Actions
  BY Members
<1> QED BY <1>1 DEF Growing, Covered

LEMMA CoveredBelow ==
  ASSUME NEW a \in Actions
  PROVE  /\ \A b \in Below[a] : Covered(a) => Covered(b)
         /\ IsGroup(a) /\ (\A i \in DOMAIN List[a] : Covered(List[a][i])) => Covered(a)
         /\ Kind[a] = "pool" => Covered(a)
         /\ Kind[a] = "leaf" => (Covered(a) <=> applied[a] >= 1)
<1>1. \A b \in Below[a] : Below[b] \subseteq Below[a]
  BY Members
<1>2. \A b \in Below[a] : b = a \/ \E i \in DOMAIN List[a] : b \in Below[List[a][i]]
  BY TreesAssumption
<1>3. IsGroup(a) => Kind[a] # "leaf"
  BY DEF IsGroup
<1>4. Kind[a] \in {"leaf", "pool"} => \A b \in Below[a] : b = a
  BY <1>2, Members DEF IsGroup
<1>5. a \in Below[a]
  BY Members
<1> QED BY <1>1, <1>2, <1>3, <1>4, <1>5 DEF Covered

LEMMA StillFine ==
  ASSUME NEW a \in Actions, Fine(a), Growing, applied'[a] = applied[a],
         status'[a] = status[a], state'[a] = state[a], curstart'[a] = curstart[a],
         Pc(a)' = Pc(a), "returned" \notin Pc(a) \/ ret' = ret
  PROVE  Fine(a)'
<1> SUFFICES ASSUME a \in Below[Universal] PROVE Progress(a)' /\ Once(a)'
  BY DEF Fine
<1>1. Progress(a) /\ Once(a)
  BY DEF Fine
<1>2. Passed(a)' <=> Passed(a)
  BY DEF Passed
<1>3. Covered(a) => Covered(a)'
  BY CoveredGrows
<1>4. \A i \in DOMAIN List[a] : Covered(List[a][i]) => Covered(List[a][i])'
  <2> SUFFICES ASSUME NEW i \in DOMAIN List[a] PROVE Covered(List[a][i]) => Covered(List[a][i])'
    OBVIOUS
  <2>1. PICK b \in Actions : b = List[a][i]
    BY Members
  <2>2. Covered(b) => Covered(b)'
    BY CoveredGrows
  <2> QED BY <2>1, <2>2
<1>5. Progress(a)'
  <2>1. /\ Passed(a)' => Covered(a)'
        /\ (Kind[a] = "restart" /\ curstart'[a] = -1) => Covered(a)'
        /\ (\E p \in Pc(a)' : p # "perform") => status'[a] \notin {"end", "actionbreak"}
    BY <1>1, <1>2, <1>3 DEF Progress
  <2>2. ("next" \in Pc(a)' \/ "returned" \in Pc(a)' \/ status'[a] = "mid") =>
          \A i \in DOMAIN List[a] : i < state'[a] => Covered(List[a][i])'
    BY <1>1, <1>4 DEF Progress
  <2>3. (IsGroup(a) /\ "returned" \in Pc(a)' /\ ret' >= 0) =>
          state'[a] \in DOMAIN List[a] /\ Covered(List[a][state[a]])'
    BY <1>1, <1>4 DEF Progress
  <2> QED BY <2>1, <2>2, <2>3 DEF Progress
<1>6. Once(a)'
  BY <1>1, <1>2 DEF Once
<1> QED BY <1>5, <1>6

(* A step of the action on top, which leaves the others as they are.       *)
Alone(x) ==
  \A a \in Actions \ {x} :
    status'[a] = status[a] /\ state'[a] = state[a] /\ curstart'[a] = curstart[a]

LEMMA AloneElsewhere ==
  ASSUME NEW x, Alone(x)
  PROVE  \E M, C : Elsewhere(x, M, C)
<1>1. PICK M : M = made'
  OBVIOUS
<1>2. PICK C : C = count'
  OBVIOUS
<1>3. Elsewhere(x, M, C)
  BY <1>1, <1>2 DEF Alone, Elsewhere
<1> QED BY <1>3

LEMMA Ontop ==
  ASSUME OInv, stack # <<>>, NEW x, x = This
  PROVE  /\ x \in Actions /\ Pc(x) = {Top.pc} /\ Fine(x)
         /\ \A a \in Actions : Fine(a)
         /\ \A a \in Actions \ {x} : "returned" \notin Pc(a)
<1>1. x \in Actions /\ Pc(x) = {Top.pc}
      /\ \A a \in Actions \ {x} : Pc(a) \subseteq {"next", "staging"}
  BY PcShape DEF OInv, AInv
<1>2. \A a \in Actions : Fine(a)
  BY DEF OInv, Progresses, Running
<1> QED BY <1>1, <1>2

LEMMA TurnPcs ==
  ASSUME OInv, stack # <<>>, NEW x, x = This, Alone(x), NEW pc \in Pcs,
         stack' = Under(Len(stack), pc) \/ (stack' = stack /\ pc = Top.pc)
  PROVE  /\ Pc(x)' = {pc} /\ stack' # <<>>
         /\ \A a \in Actions \ {x} : Pc(a)' = Pc(a)
<1>1. PICK M, C : Elsewhere(x, M, C)
  BY AloneElsewhere
<1>2. CASE stack' = Under(Len(stack), pc)
  <2>1. Turn(x, pc)
    BY <1>1, <1>2, GotoTurns DEF OInv, AInv
  <2> QED BY <2>1 DEF Turn
<1>3. CASE stack' = stack /\ pc = Top.pc
  <2>1. Turn(x, Top.pc)
    BY <1>1, <1>3, StayTurns DEF OInv, AInv
  <2> QED BY <1>3, <2>1 DEF Turn
<1> QED BY <1>2, <1>3

LEMMA TurnProgresses ==
  ASSUME OInv, stack # <<>>, NEW x, x = This, Alone(x), NEW pc \in Pcs,
         stack' = Under(Len(stack), pc) \/ (stack' = stack /\ pc = Top.pc),
         Growing, \A a \in Actions \ {x} : applied'[a] = applied[a], Fine(x)'
  PROVE  Progresses'
<1>1. Pc(x)' = {pc} /\ stack' # <<>> /\ \A a \in Actions \ {x} : Pc(a)' = Pc(a)
  BY TurnPcs
<1>2. \A a \in Actions : Fine(a)
  BY Ontop
<1>3. \A a \in Actions \ {x} : "returned" \notin Pc(a)
  BY Ontop
<1>4. ASSUME NEW a \in Actions PROVE Fine(a)'
  <2>1. CASE a = x
    BY <2>1
  <2>2. CASE a # x
    BY <1>1, <1>2, <1>3, <2>2, StillFine DEF Alone
  <2> QED BY <2>1, <2>2
<1> QED BY <1>1, <1>4 DEF Progresses

LEMMA ReturnProgresses ==
  ASSUME OInv, stack # <<>>, NEW x, x = This, Alone(x), NEW r \in Nat \cup {-1}, Return(r),
         applied' = applied, Fine(x)',
         (x \in Below[Universal] /\ r # -1) => Covered(x)
  PROVE  Progresses'
<1>0. PICK n : n = Len(stack)
  OBVIOUS
<1>1. n \in 1 .. Len(stack) /\ x = stack[n].action /\ n \in Nat /\ x \in Actions
      /\ Pc(x) = {Top.pc} /\ (n = 1 => x = Universal) /\ (n = 1 \/ n > 1)
  BY <1>0, Here, PcShape DEF This, OInv, AInv
<1>2. /\ n = 1 => stack' = <<>> /\ \A a : Pc(a)' = {}
      /\ n > 1 => \E y : y = stack[n - 1].action /\ Back(x, y)
  <2>1. PICK M, C : Elsewhere(x, M, C)
    BY AloneElsewhere
  <2> QED BY <1>0, <2>1, ReturnPcs DEF OInv, AInv
<1>3. ret' = r
  BY DEF Return
<1>4. Growing
  BY DEF Growing
<1>5. \A a \in Actions : Fine(a)
  BY Ontop
<1>6. \A a \in Actions \ {x} : "returned" \notin Pc(a)
  BY Ontop
<1>7. CASE n = 1
  <2>1. ASSUME NEW a \in Actions, a # x PROVE Fine(a)'
    <3>1. Pc(a) = {} /\ Pc(a)' = {}
      BY <1>0, <1>1, <1>2, <1>7, <2>1 DEF Pc
    <3> QED BY <1>4, <1>5, <2>1, <3>1, StillFine DEF Alone
  <2>2. outcome' = "done" => Covered(Universal)'
    <3>1. outcome' = "done" => r # -1
      BY <1>0, <1>7 DEF Return
    <3>2. x \in Below[Universal]
      BY <1>1, <1>7, Trees
    <3> QED BY <1>1, <1>4, <1>7, <3>1, <3>2, CoveredGrows
  <2>3. \A a \in Actions : Fine(a)'
    BY <2>1
  <2> QED BY <2>2, <2>3 DEF Progresses
<1>8. CASE n > 1
  <2>1. PICK y : y = stack[n - 1].action /\ Back(x, y)
    BY <1>2, <1>8
  <2>2. PICK k : k = n - 1
    OBVIOUS
  <2>3. k \in 1 .. Len(stack) /\ k < Len(stack) /\ k + 1 = n
    BY <1>0, <1>1, <1>8, <2>2
  <2>4. /\ y \in Actions /\ y # x /\ Pc(y) = {stack[k].pc} /\ Pc(y)' = {"returned"}
        /\ Leads(k) /\ stack[k].pc \in {"next", "staging"}
        /\ stack[k].pc = "staging" => Kind[y] = "leaf"
        /\ stack[k].pc = "next" => IsGroup(y)
    <3>1. stack[k].pc = "staging" => Kind[y] = "leaf"
      <4>1. stack[k].pc = "staging" => Catch(k)
        BY DEF Catch
      <4>2. stack[k].pc = "staging" => y \in FollowsFlow
        BY <2>1, <2>2, <2>3, <4>1 DEF OInv, AInv, IInv, Shape
      <4> QED BY <4>2, Trees
    <3>2. /\ stack[k].pc \in {"next", "staging"}
          /\ stack[k].pc = "next" => IsGroup(y)
      BY <2>1, <2>2, <2>3 DEF OInv, AInv, IInv, Shape
    <3>3. Leads(k) /\ Pc(y) = {stack[k].pc}
      BY <2>1, <2>2, <2>3, OneFrame DEF OInv, AInv, Path
    <3> QED BY <2>1, <3>1, <3>2, <3>3 DEF Back
  <2>5. /\ status'[y] = status[y] /\ state'[y] = state[y] /\ curstart'[y] = curstart[y]
    BY <2>4 DEF Alone
  <2>6. Fine(y)'
    <3> SUFFICES ASSUME y \in Below[Universal] PROVE Progress(y)' /\ Once(y)'
      BY DEF Fine
    <3>1. Progress(y) /\ Once(y)
      BY <1>5, <2>4 DEF Fine
    <3>2. Passed(y)' <=> Passed(y)
      BY <2>4, <2>5 DEF Passed
    <3>3. Once(y)'
      BY <2>5, <3>1, <3>2 DEF Once
    <3>4. \A b : Covered(b)' <=> Covered(b)
      BY DEF Covered
    <3>5. \A i \in DOMAIN List[y] : i < state[y] => Covered(List[y][i])
      <4>1. CASE stack[k].pc = "next"
        BY <2>4, <3>1, <4>1 DEF Progress
      <4>2. CASE stack[k].pc = "staging"
        <5>1. DOMAIN List[y] = {}
          BY <2>4, <4>2, Members DEF IsGroup
        <5> QED BY <5>1
      <4> QED BY <2>4, <4>1, <4>2
    <3>6. (IsGroup(y) /\ ret' >= 0) => state[y] \in DOMAIN List[y] /\ Covered(List[y][state[y]])
      <4> SUFFICES ASSUME IsGroup(y), ret' >= 0
                   PROVE  state[y] \in DOMAIN List[y] /\ Covered(List[y][state[y]])
        OBVIOUS
      <4>1. stack[k].pc = "next" /\ r # -1
        BY <1>3, <2>4 DEF IsGroup
      <4>2. state[y] \in DOMAIN List[y] /\ x = List[y][state[y]]
        BY <1>1, <2>1, <2>2, <2>3, <2>4, <4>1 DEF Leads
      <4>3. x \in Below[Universal]
        <5>1. Below[y] \subseteq Below[Universal]
          BY Members, Assumed
        <5>2. \A i \in DOMAIN List[y] : List[y][i] \in Below[y]
          BY <2>4, Members
        <5> QED BY <4>2, <5>1, <5>2
      <4> QED BY <4>1, <4>2, <4>3
    <3>7. \A i \in DOMAIN List[y] : i < state'[y] => Covered(List[y][i])'
      BY <2>5, <3>4, <3>5
    <3>8. (IsGroup(y) /\ ret' >= 0) => state'[y] \in DOMAIN List[y] /\ Covered(List[y][state[y]])'
      BY <2>5, <3>4, <3>6
    <3>9. /\ Passed(y)' => Covered(y)'
          /\ (Kind[y] = "restart" /\ curstart'[y] = -1) => Covered(y)'
          /\ status'[y] \notin {"end", "actionbreak"}
      BY <2>4, <2>5, <3>1, <3>2, <3>4 DEF Progress
    <3>10. Progress(y)'
      BY <3>7, <3>8, <3>9 DEF Progress
    <3> QED BY <3>3, <3>10
  <2>7. ASSUME NEW a \in Actions PROVE Fine(a)'
    <3>1. CASE a = x
      BY <3>1
    <3>2. CASE a = y
      BY <2>6, <3>2
    <3>3. CASE a # x /\ a # y
      <4>1. Pc(a)' = Pc(a)
        BY <2>1, <3>3 DEF Back
      <4> QED BY <1>4, <1>5, <1>6, <3>3, <4>1, StillFine DEF Alone
    <3> QED BY <3>1, <3>2, <3>3
  <2> QED BY <2>1, <2>7 DEF Progresses, Back
<1> QED BY <1>1, <1>7, <1>8

LEMMA ReturnEmpties ==
  ASSUME OInv, stack # <<>>, NEW x, x = This, Alone(x), NEW r, Return(r)
  PROVE  Pc(x)' = {}
<1>1. PICK M, C : Elsewhere(x, M, C)
  BY AloneElsewhere
<1> QED BY <1>1, ReturnKept DEF OInv, AInv

(* How the action on top is fine after a step.                             *)
LEMMA NowFine ==
  ASSUME NEW x \in Actions, Growing, "returned" \notin Pc(x)',
         x \in Below[Universal] =>
           /\ Passed(x)' => Covered(x)'
           /\ ("next" \in Pc(x)' \/ status'[x] = "mid") =>
                \A i \in DOMAIN List[x] : i < state'[x] => Covered(List[x][i])
           /\ (Kind[x] = "restart" /\ curstart'[x] = -1) => Covered(x)'
           /\ (\E p \in Pc(x)' : p # "perform") => status'[x] \notin {"end", "actionbreak"}
           /\ Once(x)'
  PROVE  Fine(x)'
<1>1. \A i \in DOMAIN List[x] : Covered(List[x][i]) => Covered(List[x][i])'
  <2> SUFFICES ASSUME NEW i \in DOMAIN List[x] PROVE Covered(List[x][i]) => Covered(List[x][i])'
    OBVIOUS
  <2>1. PICK b \in Actions : b = List[x][i]
    BY Members
  <2>2. Covered(b) => Covered(b)'
    BY CoveredGrows
  <2> QED BY <2>1, <2>2
<1> QED BY <1>1 DEF Fine, Progress

LEMMA LeaveProgresses ==
  ASSUME OInv, stack # <<>>, NEW x, x = This, NEW r \in Nat \cup {-1}, Return(r),
         NEW s, status' = [status EXCEPT ![x] = s], curstart' = curstart,
         applied' = applied, \A a \in Actions \ {x} : state'[a] = state[a],
         x \in Below[Universal] =>
           /\ s \in {"end", "actionbreak", "repeat"} => Covered(x)
           /\ s = "mid" => /\ Kind[x] # "leaf"
                           /\ \A i \in DOMAIN List[x] : i < state'[x] => Covered(List[x][i])
           /\ r # -1 => Covered(x)
           /\ (Kind[x] = "leaf" /\ "onceperfunc" \in Flags[x]) =>
                s # "repeat" /\ (Passed(x) <=> s \in {"end", "actionbreak"})
  PROVE  Progresses'
<1>1. x \in Actions /\ Fine(x)
  BY Ontop
<1>2. Alone(x) /\ status'[x] = s
  BY <1>1 DEF Alone, OInv, AInv, IInv, Types, StatusOK
<1>3. Pc(x)' = {}
  BY <1>2, ReturnEmpties
<1>4. Growing /\ (Covered(x)' <=> Covered(x))
  BY DEF Growing, Covered
<1>5. ASSUME x \in Below[Universal]
      PROVE  /\ Passed(x)' => Covered(x)'
             /\ ("next" \in Pc(x)' \/ status'[x] = "mid") =>
                  \A i \in DOMAIN List[x] : i < state'[x] => Covered(List[x][i])
             /\ (Kind[x] = "restart" /\ curstart'[x] = -1) => Covered(x)'
             /\ (\E p \in Pc(x)' : p # "perform") => status'[x] \notin {"end", "actionbreak"}
             /\ Once(x)'
  <2>1. Progress(x) /\ Once(x)
    BY <1>1, <1>5 DEF Fine
  <2>2. Passed(x)' <=> s \in {"end", "actionbreak", "repeat"}
    BY <1>2, <1>3 DEF Passed
  <2>3. Once(x)'
    BY <1>2, <1>5, <2>1, <2>2 DEF Once
  <2>4. (Kind[x] = "restart" /\ curstart'[x] = -1) => Covered(x)'
    BY <1>4, <2>1 DEF Progress
  <2> QED BY <1>2, <1>3, <1>4, <1>5, <2>2, <2>3, <2>4
<1>6. Fine(x)'
  BY <1>1, <1>3, <1>4, <1>5, NowFine
<1> QED BY <1>2, <1>6, ReturnProgresses

LEMMA StartBreakProgresses == OInv /\ StartBreak => Progresses'
<1> SUFFICES ASSUME OInv, StartBreak PROVE Progresses'
  OBVIOUS
<1>1. PICK x : x = This
  OBVIOUS
<1>2. /\ stack # <<>> /\ Top.pc = "perform" /\ status[x] = "start" /\ Return(-1)
      /\ status' = [status EXCEPT ![x] = "breakstarthit"]
      /\ UNCHANGED <<state, curstart, applied>>
  BY <1>1 DEF StartBreak, Beginning, At
<1>3. Pc(x) = {"perform"}
  BY <1>1, <1>2, Ontop
<1>4. ~Passed(x)
  BY <1>2, <1>3 DEF Passed
<1> QED BY <1>1, <1>2, <1>4, LeaveProgresses

LEMMA EndedProgresses == OInv /\ Ended => Progresses'
<1> SUFFICES ASSUME OInv, Ended PROVE Progresses'
  OBVIOUS
<1>1. PICK x : x = This
  OBVIOUS
<1>2. /\ stack # <<>> /\ Top.pc = "perform" /\ status[x] = "end" /\ Return(0)
      /\ UNCHANGED <<status, state, curstart, applied>>
  BY <1>1 DEF Ended, At, fields, ghosts
<1>3. x \in Actions /\ Fine(x) /\ Passed(x)
  BY <1>1, <1>2, Ontop DEF Passed
<1>4. status' = [status EXCEPT ![x] = "end"]
  BY <1>2, <1>3 DEF OInv, AInv, IInv, Types, StatusOK
<1>5. x \in Below[Universal] => Covered(x)
  BY <1>3 DEF Fine, Progress
<1> QED BY <1>1, <1>2, <1>3, <1>4, <1>5, LeaveProgresses

LEMMA PassedCovered ==
  ASSUME OInv, NEW x, x = This, stack # <<>>,
         Top.pc = "applied" \/ (Top.pc = "perform" /\ status[x] = "actionbreak")
  PROVE  x \in Actions /\ Passed(x) /\ (x \in Below[Universal] => Covered(x) /\ Once(x))
<1>1. x \in Actions /\ Fine(x) /\ Passed(x)
  BY Ontop DEF Passed
<1> QED BY <1>1 DEF Fine, Progress

LEMMA ActionBreakProgresses == OInv /\ ActionBreak => Progresses'
<1> SUFFICES ASSUME OInv, ActionBreak PROVE Progresses'
  OBVIOUS
<1>1. PICK x : x = This
  OBVIOUS
<1>2. /\ stack # <<>> /\ Top.pc = "applied" /\ Return(-1)
      /\ status' = [status EXCEPT ![x] = "actionbreak"]
      /\ UNCHANGED <<state, curstart, applied>>
  BY <1>1 DEF ActionBreak, At, ghosts
<1>3. Passed(x) /\ (x \in Below[Universal] => Covered(x))
  BY <1>1, <1>2, PassedCovered
<1> QED BY <1>1, <1>2, <1>3, LeaveProgresses

LEMMA FinishProgresses == OInv /\ Finish => Progresses'
<1> SUFFICES ASSUME OInv, Finish PROVE Progresses'
  OBVIOUS
<1>1. PICK x : x = This
  OBVIOUS
<1>2. PICK s : s = IF "onceperfunc" \in Flags[x] THEN "end" ELSE "start"
  OBVIOUS
<1>3. /\ stack # <<>>
      /\ Top.pc = "applied" \/ (Top.pc = "perform" /\ status[x] = "actionbreak")
      /\ Return(count[x])
      /\ status' = [status EXCEPT ![x] = s]
      /\ UNCHANGED <<state, curstart, applied>>
  BY <1>1, <1>2 DEF Finish, AppliedOnce, At, ghosts
<1>4. x \in Actions /\ Passed(x) /\ (x \in Below[Universal] => Covered(x))
  BY <1>1, <1>3, PassedCovered
<1>5. PICK r \in Nat : r = count[x]
  BY <1>4 DEF OInv, AInv, IInv, Types, CountsOK
<1> QED BY <1>1, <1>2, <1>3, <1>4, <1>5, LeaveProgresses

LEMMA LoopProgresses == OInv /\ Loop => Progresses'
<1> SUFFICES ASSUME OInv, Loop PROVE Progresses'
  OBVIOUS
<1>1. PICK x : x = This
  OBVIOUS
<1>2. /\ stack # <<>>
      /\ Top.pc = "applied" \/ (Top.pc = "perform" /\ status[x] = "actionbreak")
      /\ "repeatapply" \in Flags[x]
      /\ stack' = Under(Len(stack), "perform")
      /\ status' = [status EXCEPT ![x] = "repeat"]
      /\ UNCHANGED <<state, curstart, applied>>
  BY <1>1 DEF Loop, AppliedOnce, Again, At, Going, Goto, ghosts
<1>3. x \in Actions /\ (x \in Below[Universal] => Covered(x) /\ Once(x))
  BY <1>1, <1>2, PassedCovered
<1>4. Alone(x) /\ status'[x] = "repeat" /\ "perform" \in Pcs
  BY <1>2, <1>3 DEF Alone, Pcs, OInv, AInv, IInv, Types, StatusOK
<1>5. Pc(x)' = {"perform"}
  BY <1>1, <1>2, <1>4, TurnPcs
<1>6. Growing /\ (Covered(x)' <=> Covered(x))
  BY <1>2 DEF Growing, Covered
<1>7. Kind[x] = "leaf" => "onceperfunc" \notin Flags[x]
  <2>1. Flags[x] \subseteq {"repeatapply", "onceperfunc"}
    BY <1>3, ActionsAssumption
  <2>2. Kind[x] = "leaf" => Flags[x] # {"repeatapply", "onceperfunc"}
    BY <1>3, TreesAssumption
  <2> QED BY <1>2, <2>1, <2>2
<1>8. Once(x)'
  BY <1>4, <1>7 DEF Once
<1>9. Fine(x)'
  BY <1>3, <1>4, <1>5, <1>6, <1>8, NowFine
<1> QED BY <1>1, <1>2, <1>4, <1>6, <1>9, TurnProgresses

LEMMA EnterProgresses == OInv /\ (Start \/ Repeat \/ Resume) => Progresses'
<1> SUFFICES ASSUME OInv, Start \/ Repeat \/ Resume PROVE Progresses'
  OBVIOUS
<1>1. PICK x : x = This
  OBVIOUS
<1>2. PICK pc : pc = IF Kind[x] = "restart" /\ curstart[x] = -1 THEN "applied" ELSE "next"
  OBVIOUS
<1>3. /\ stack # <<>> /\ Top.pc = "perform"
      /\ status[x] \in {"start", "breakstarthit", "repeat", "mid"}
      /\ stack' = Under(Len(stack), pc)
      /\ IF status[x] = "mid" THEN state' = state
         ELSE \E p \in First(x) : state' = [state EXCEPT ![x] = p]
      /\ UNCHANGED <<status, curstart, applied>>
  BY <1>1, <1>2 DEF Start, Repeat, Resume, Beginning, At, Entering, Going, Goto
<1>4. x \in Actions /\ Fine(x) /\ Pc(x) = {"perform"}
  BY <1>1, <1>3, Ontop
<1>5. Alone(x) /\ pc \in Pcs /\ pc \in {"applied", "next"}
  <2>1. state \in [Actions -> Nat \ {0}]
    BY DEF OInv, AInv, IInv, Types, CountsOK
  <2>2. \A a \in Actions \ {x} : state'[a] = state[a]
    BY <1>3, <2>1
  <2> QED BY <1>2, <1>3, <2>2 DEF Alone, Pcs
<1>6. Pc(x)' = {pc}
  BY <1>1, <1>3, <1>5, TurnPcs
<1>7. Growing /\ (Covered(x)' <=> Covered(x))
  BY <1>3 DEF Growing, Covered
<1>8. ASSUME x \in Below[Universal]
      PROVE  /\ Passed(x)' => Covered(x)'
             /\ \A i \in DOMAIN List[x] : i < state'[x] => Covered(List[x][i])
             /\ (Kind[x] = "restart" /\ curstart'[x] = -1) => Covered(x)'
             /\ Once(x)'
  <2>1. Progress(x) /\ Once(x)
    BY <1>4, <1>8 DEF Fine
  <2>2. (Kind[x] = "restart" /\ curstart[x] = -1) => Covered(x)
    BY <2>1 DEF Progress
  <2>3. pc = "applied" \/ status[x] = "repeat" => Covered(x)
    BY <1>2, <2>1, <2>2 DEF Progress, Passed
  <2>4. Passed(x)' => Covered(x)'
    BY <1>3, <1>6, <1>7, <2>3 DEF Passed
  <2>5. \A i \in DOMAIN List[x] : i < state'[x] => Covered(List[x][i])
    <3>1. CASE status[x] = "mid"
      BY <1>3, <2>1, <3>1 DEF Progress
    <3>2. CASE status[x] # "mid" /\ IsGroup(x)
      <4>1. First(x) = {1}
        BY <3>2 DEF First, IsGroup
      <4>2. state'[x] = 1
        BY <1>3, <1>4, <3>2, <4>1 DEF OInv, AInv, IInv, Types, CountsOK
      <4>3. \A i \in DOMAIN List[x] : i \in Nat \ {0}
        BY <1>4, Members
      <4>4. \A i \in DOMAIN List[x] : ~(i < 1)
        BY <4>3
      <4> QED BY <4>2, <4>4
    <3>3. CASE ~IsGroup(x)
      BY <1>4, <3>3, Members
    <3> QED BY <3>1, <3>2, <3>3
  <2>6. Once(x)'
    <3> SUFFICES ASSUME Kind[x] = "leaf" PROVE Once(x)'
      BY DEF Once
    <3>1. pc = "next"
      BY <1>2
    <3>2. Passed(x)' <=> Passed(x)
      BY <1>3, <1>4, <1>6, <3>1 DEF Passed
    <3> QED BY <1>3, <2>1, <3>2 DEF Once
  <2> QED BY <1>3, <1>7, <2>2, <2>4, <2>5, <2>6
<1>9. Fine(x)'
  BY <1>3, <1>4, <1>5, <1>6, <1>7, <1>8, NowFine
<1> QED BY <1>1, <1>3, <1>4, <1>5, <1>7, <1>9, TurnProgresses

LEMMA GroupMemberProgresses == OInv /\ GroupMember => Progresses'
<1> SUFFICES ASSUME OInv, GroupMember PROVE Progresses'
  OBVIOUS
<1>1. PICK x : x = This
  OBVIOUS
<1>2. /\ stack # <<>> /\ Top.pc = "returned" /\ IsGroup(x) /\ ret >= 0
      /\ state' = [state EXCEPT ![x] = @ + 1]
      /\ \/ status' = [status EXCEPT ![x] = "mid"] /\ Return(-1)
         \/ status' = status /\ stack' = Under(Len(stack), "next")
      /\ curstart' = curstart /\ applied' = applied
  BY <1>1 DEF GroupMember, At, Partial, Going, Goto, ghosts
<1>3. x \in Actions /\ Fine(x) /\ Pc(x) = {"returned"}
  BY <1>1, <1>2, Ontop
<1>4. /\ \A a \in Actions \ {x} : state'[a] = state[a]
      /\ state'[x] = state[x] + 1 /\ state[x] \in Nat \ {0}
  BY <1>2, <1>3 DEF OInv, AInv, IInv, Types, CountsOK
<1>5. ASSUME x \in Below[Universal]
      PROVE  \A i \in DOMAIN List[x] : i < state'[x] => Covered(List[x][i])
  <2>1. /\ \A i \in DOMAIN List[x] : i < state[x] => Covered(List[x][i])
        /\ Covered(List[x][state[x]])
    BY <1>2, <1>3, <1>5 DEF Fine, Progress
  <2>2. \A i \in DOMAIN List[x] : i \in Nat
    BY <1>3, Members
  <2>3. \A i \in DOMAIN List[x] : i < state'[x] => i < state[x] \/ i = state[x]
    BY <1>4, <2>2
  <2> QED BY <2>1, <2>3
<1>6. Kind[x] # "leaf"
  BY <1>2 DEF IsGroup
<1>7. CASE status' = [status EXCEPT ![x] = "mid"] /\ Return(-1)
  BY <1>1, <1>2, <1>4, <1>5, <1>6, <1>7, LeaveProgresses
<1>8. CASE status' = status /\ stack' = Under(Len(stack), "next")
  <2>1. Alone(x) /\ "next" \in Pcs
    BY <1>2, <1>4, <1>8 DEF Alone, Pcs
  <2>2. Pc(x)' = {"next"}
    BY <1>1, <1>2, <1>8, <2>1, TurnPcs
  <2>3. Growing /\ (Covered(x)' <=> Covered(x))
    BY <1>2 DEF Growing, Covered
  <2>4. Once(x)'
    BY <1>6 DEF Once
  <2>5. x \in Below[Universal] =>
          /\ Passed(x)' => Covered(x)'
          /\ (Kind[x] = "restart" /\ curstart'[x] = -1) => Covered(x)'
          /\ status'[x] \notin {"end", "actionbreak"}
    BY <1>2, <1>3, <1>8, <2>2, <2>3 DEF Fine, Progress, Passed
  <2>6. Fine(x)'
    BY <1>3, <1>5, <2>2, <2>3, <2>4, <2>5, NowFine
  <2> QED BY <1>1, <1>2, <1>8, <2>1, <2>3, <2>6, TurnProgresses
<1> QED BY <1>2, <1>7, <1>8

LEMMA GroupPartialProgresses == OInv /\ GroupPartial => Progresses'
<1> SUFFICES ASSUME OInv, GroupPartial PROVE Progresses'
  OBVIOUS
<1>1. PICK x : x = This
  OBVIOUS
<1>2. /\ stack # <<>> /\ Top.pc = "returned" /\ Kind[x] # "leaf"
      /\ status' = [status EXCEPT ![x] = "mid"] /\ Return(-1)
      /\ UNCHANGED <<state, curstart, applied>>
  BY <1>1 DEF GroupPartial, At, Partial, ghosts, IsGroup
<1>3. x \in Actions /\ Fine(x) /\ Pc(x) = {"returned"}
  BY <1>1, <1>2, Ontop
<1>4. x \in Below[Universal] =>
        \A i \in DOMAIN List[x] : i < state'[x] => Covered(List[x][i])
  BY <1>2, <1>3 DEF Fine, Progress
<1> QED BY <1>1, <1>2, <1>4, LeaveProgresses

LEMMA EndProgresses ==
  OInv /\ (GroupDone \/ NoRestart \/ NoRestartInRecovery \/ TooManyRestarts \/ PoolDone)
    => Progresses'
<1> SUFFICES ASSUME OInv, GroupDone \/ NoRestart \/ NoRestartInRecovery
                          \/ TooManyRestarts \/ PoolDone
             PROVE  Progresses'
  OBVIOUS
<1>1. PICK x : x = This
  OBVIOUS
<1>2. /\ stack # <<>> /\ Top.pc = "next"
      /\ (IsGroup(x) /\ state[x] > Len(List[x])) \/ Kind[x] = "pool"
      /\ \E v : curstart' = [curstart EXCEPT ![x] = v]
      /\ stack' = Under(Len(stack), "applied")
      /\ UNCHANGED <<status, count, made, state, applied>>
  BY <1>1, EndParts DEF OInv, AInv
<1>3. x \in Actions /\ Fine(x) /\ Pc(x) = {"next"}
  BY <1>1, <1>2, Ontop
<1>4. Alone(x) /\ "applied" \in Pcs
  BY <1>2, <1>3 DEF Alone, Pcs, OInv, AInv, IInv, Types, StatusOK
<1>5. Pc(x)' = {"applied"}
  BY <1>1, <1>2, <1>4, TurnPcs
<1>6. Growing /\ (Covered(x)' <=> Covered(x))
  BY <1>2 DEF Growing, Covered
<1>7. ASSUME x \in Below[Universal]
      PROVE  /\ Covered(x) /\ \A i \in DOMAIN List[x] : i < state[x] => Covered(List[x][i])
             /\ status[x] \notin {"end", "actionbreak"}
  <2>1. /\ \A i \in DOMAIN List[x] : i < state[x] => Covered(List[x][i])
        /\ status[x] \notin {"end", "actionbreak"}
    BY <1>3, <1>7 DEF Fine, Progress
  <2>2. CASE Kind[x] = "pool"
    BY <1>3, <2>1, <2>2, CoveredBelow
  <2>3. CASE IsGroup(x) /\ state[x] > Len(List[x])
    <3>1. state[x] \in Nat /\ Len(List[x]) \in Nat
      BY <1>3, Assumed DEF OInv, AInv, IInv, Types, CountsOK
    <3>2. \A i \in DOMAIN List[x] : i \in Nat /\ i <= Len(List[x])
      BY <1>3, Members
    <3>3. \A i \in DOMAIN List[x] : i < state[x]
      BY <2>3, <3>1, <3>2
    <3> QED BY <1>3, <2>1, <2>3, <3>3, CoveredBelow
  <2> QED BY <1>2, <2>2, <2>3
<1>8. Once(x)'
  BY <1>2 DEF Once, IsGroup
<1>9. Fine(x)'
  BY <1>2, <1>3, <1>5, <1>6, <1>7, <1>8, NowFine
<1> QED BY <1>1, <1>2, <1>4, <1>6, <1>9, TurnProgresses

LEMMA LeafApplyProgresses == OInv /\ LeafApply => Progresses'
<1> SUFFICES ASSUME OInv, LeafApply PROVE Progresses'
  OBVIOUS
<1>1. PICK x : x = This
  OBVIOUS
<1>2. /\ stack # <<>> /\ Top.pc = "next" /\ Kind[x] = "leaf"
      /\ applied' = [applied EXCEPT ![x] = IF @ < 2 THEN @ + 1 ELSE @]
      /\ stack' = Under(Len(stack), "applied")
      /\ UNCHANGED <<status, state, curstart>>
  BY <1>1 DEF LeafApply, In, At, Going, Goto
<1>3. x \in Actions /\ Fine(x) /\ Pc(x) = {"next"}
  BY <1>1, <1>2, Ontop
<1>4. /\ \A a \in Actions \ {x} : applied'[a] = applied[a]
      /\ applied'[x] = IF applied[x] < 2 THEN applied[x] + 1 ELSE applied[x]
      /\ applied \in [Actions -> Nat]
  BY <1>2, <1>3 DEF OInv, AInv, IInv, Types, GhostsOK
<1>5. applied'[x] >= 1 /\ Growing /\ (applied[x] = 0 => applied'[x] = 1)
  <2>1. applied'[x] >= 1 /\ (applied[x] = 0 => applied'[x] = 1)
    BY <1>3, <1>4
  <2> QED BY <1>4, <2>1 DEF Growing
<1>6. Alone(x) /\ "applied" \in Pcs
  BY <1>2 DEF Alone, Pcs
<1>7. Pc(x)' = {"applied"}
  BY <1>1, <1>2, <1>6, TurnPcs
<1>8. Covered(x)' /\ DOMAIN List[x] = {}
  <2>1. DOMAIN List[x] = {} /\ \A b \in Below[x] : b = x \/ \E i \in DOMAIN List[x] : TRUE
    BY <1>2, <1>3, Members, TreesAssumption DEF IsGroup
  <2> QED BY <1>5, <2>1 DEF Covered
<1>9. ASSUME x \in Below[Universal]
      PROVE  Once(x)' /\ status'[x] \notin {"end", "actionbreak"}
  <2>1. Progress(x) /\ Once(x)
    BY <1>3, <1>9 DEF Fine
  <2>2. status[x] \notin {"end", "actionbreak"}
    BY <1>3, <2>1 DEF Progress
  <2>3. Passed(x)' /\ ("onceperfunc" \in Flags[x] => ~Passed(x))
    BY <1>2, <1>3, <1>7, <2>1, <2>2 DEF Passed, Once
  <2>4. "onceperfunc" \in Flags[x] => applied[x] = 0
    BY <1>2, <2>1, <2>3 DEF Once
  <2> QED BY <1>2, <1>5, <2>1, <2>2, <2>3, <2>4 DEF Once
<1>10. Fine(x)'
  BY <1>2, <1>3, <1>5, <1>7, <1>8, <1>9, NowFine
<1> QED BY <1>1, <1>2, <1>4, <1>5, <1>6, <1>10, TurnProgresses

(* A step within a pool, or of a leaf before it is applied.                *)
LEMMA StayProgresses ==
  ASSUME OInv, NEW x, x = This, stack # <<>>, Kind[x] \in {"leaf", "pool"},
         Top.pc \in {"next", "returned"},
         \/ stack' = stack /\ Top.pc = "next"
         \/ stack' = Under(Len(stack), "next"),
         UNCHANGED <<status, curstart, applied>>,
         \A a \in Actions \ {x} : state'[a] = state[a]
  PROVE  Progresses'
<1>1. x \in Actions /\ Fine(x) /\ Pc(x) = {Top.pc}
  BY Ontop
<1>2. Alone(x) /\ "next" \in Pcs /\ Growing /\ (Covered(x)' <=> Covered(x))
  BY DEF Alone, Pcs, Growing, Covered
<1>3. Pc(x)' = {"next"}
  BY <1>2, TurnPcs
<1>4. DOMAIN List[x] = {} /\ Kind[x] # "restart"
  BY <1>1, Members DEF IsGroup
<1>5. Passed(x)' <=> Passed(x)
  BY <1>1, <1>3 DEF Passed
<1>6. ASSUME x \in Below[Universal]
      PROVE  /\ Passed(x)' => Covered(x)'
             /\ status'[x] \notin {"end", "actionbreak"} /\ Once(x)'
  <2>1. Progress(x) /\ Once(x)
    BY <1>1, <1>6 DEF Fine
  <2>2. Once(x)'
    BY <1>5, <2>1 DEF Once
  <2> QED BY <1>1, <1>2, <1>5, <2>1, <2>2 DEF Progress
<1>7. Fine(x)'
  BY <1>1, <1>2, <1>3, <1>4, <1>6, NowFine
<1>8. stack' = Under(Len(stack), "next") \/ (stack' = stack /\ "next" = Top.pc)
  OBVIOUS
<1> QED BY <1>2, <1>7, <1>8, TurnProgresses

LEMMA OpProgresses == OInv /\ (OpDead \/ OpDone \/ RuleIdle \/ Staged) => Progresses'
<1> SUFFICES ASSUME OInv, OpDead \/ OpDone \/ RuleIdle \/ Staged PROVE Progresses'
  OBVIOUS
<1>1. PICK x : x = This
  OBVIOUS
<1>2. /\ stack # <<>> /\ Top.pc \in {"next", "returned"} /\ Kind[x] \in {"leaf", "pool"}
      /\ \/ stack' = stack /\ Top.pc = "next"
         \/ stack' = Under(Len(stack), "next")
      /\ UNCHANGED <<status, curstart, applied>>
      /\ state' = state \/ \E p : state' = [state EXCEPT ![x] = p]
  <2>1. CASE OpDead \/ OpDone
    BY <1>1, <2>1 DEF OpDead, OpDone, OnOp, In, At, NextOp, ghosts
  <2>2. CASE RuleIdle
    BY <1>1, <2>2 DEF RuleIdle, Trying, OnOp, In, At
  <2>3. CASE Staged
    BY <1>1, <2>3 DEF Staged, In, At, Goto, fields, ghosts
  <2> QED BY <2>1, <2>2, <2>3
<1>3. \A a \in Actions \ {x} : state'[a] = state[a]
  BY <1>2 DEF OInv, AInv, IInv, Types, CountsOK
<1> QED BY <1>1, <1>2, <1>3, StayProgresses

LEMMA RuleAppliesProgresses == OInv /\ RuleApplies => Progresses'
<1> SUFFICES ASSUME OInv, RuleApplies PROVE Progresses'
  OBVIOUS
<1>1. PICK x : x = This
  OBVIOUS
<1>2. /\ stack # <<>> /\ Top.pc = "next" /\ Kind[x] = "pool"
      /\ curstart' = curstart /\ applied' = applied
      /\ \/ /\ status' = [status EXCEPT ![x] = "mid"] /\ Return(-1) /\ state' = state
         \/ /\ status' = status /\ stack' = stack
            /\ state' = state \/ \E p : state' = [state EXCEPT ![x] = p]
  BY <1>1, RuleAppliesParts
<1>3. x \in Actions
  BY <1>1, <1>2, Ontop
<1>4. \A a \in Actions \ {x} : state'[a] = state[a]
  BY <1>2 DEF OInv, AInv, IInv, Types, CountsOK
<1>5. DOMAIN List[x] = {}
  BY <1>2, <1>3, Members DEF IsGroup
<1>6. CASE status' = [status EXCEPT ![x] = "mid"] /\ Return(-1) /\ state' = state
  BY <1>1, <1>2, <1>4, <1>5, <1>6, LeaveProgresses
<1>7. CASE status' = status /\ stack' = stack
  BY <1>1, <1>2, <1>4, <1>7, StayProgresses
<1> QED BY <1>2, <1>6, <1>7

(* An action is called and nothing else changes.                           *)
LEMMA CallProgresses ==
  ASSUME OInv, Running, NEW b \in Actions, Pc(b) = {}, Pc(b)' = {"perform"},
         \A a \in Actions \ {b} : Pc(a)' = Pc(a) /\ "returned" \notin Pc(a),
         stack' # <<>>, UNCHANGED <<status, state, curstart, applied>>
  PROVE  Progresses'
<1>1. \A a \in Actions : Fine(a)
  BY DEF OInv, Progresses
<1>2. Growing /\ \A a : Covered(a)' <=> Covered(a)
  BY DEF Growing, Covered
<1>3. Fine(b)'
  <2> SUFFICES ASSUME b \in Below[Universal]
               PROVE  /\ Passed(b)' => Covered(b)'
                      /\ status'[b] = "mid" =>
                           \A i \in DOMAIN List[b] : i < state'[b] => Covered(List[b][i])
                      /\ (Kind[b] = "restart" /\ curstart'[b] = -1) => Covered(b)'
                      /\ Once(b)'
    BY <1>2, NowFine
  <2>1. Progress(b) /\ Once(b)
    BY <1>1 DEF Fine
  <2>2. Passed(b)' <=> Passed(b)
    BY DEF Passed
  <2> QED BY <1>2, <2>1, <2>2 DEF Progress, Once
<1>4. ASSUME NEW a \in Actions PROVE Fine(a)'
  <2>1. CASE a = b
    BY <1>3, <2>1
  <2>2. CASE a # b
    BY <1>1, <1>2, <2>2, StillFine
  <2> QED BY <2>1, <2>2
<1> QED BY <1>4 DEF Progresses

LEMMA ContinueProgresses == OInv /\ Continue => Progresses'
<1> SUFFICES ASSUME OInv, Continue PROVE Progresses'
  OBVIOUS
<1>1. /\ stack = <<>> /\ outcome = "interrupted" /\ Call(current)
      /\ UNCHANGED <<current, status, state, curstart, applied>>
  BY DEF Continue, fields, ghosts
<1>2. /\ stack' # <<>>
      /\ \A a : Pc(a) = {}
      /\ \A a : Pc(a)' = IF a = Universal THEN {"perform"} ELSE {}
  BY <1>1, RootCalled DEF OInv
<1> QED BY <1>1, <1>2, Assumed, CallProgresses DEF Running

(* At the start of a decompilation, and of each restart of it.             *)
LEMMA FreshFine ==
  ASSUME NEW a \in Actions, status'[a] = "start", applied'[a] = 0, curstart'[a] # -1,
         Pc(a)' \subseteq {"perform"} \/ (Pc(a)' = {"next"} /\ state'[a] = 1)
  PROVE  Fine(a)'
<1>1. ~Passed(a)' /\ "returned" \notin Pc(a)'
  BY DEF Passed
<1>2. Once(a)'
  BY <1>1 DEF Once
<1>3. ("next" \in Pc(a)' \/ status'[a] = "mid") =>
        \A i \in DOMAIN List[a] : ~(i < state'[a])
  <2>1. \A i \in DOMAIN List[a] : i \in Nat \ {0}
    BY Members
  <2>2. \A i \in DOMAIN List[a] : ~(i < 1)
    BY <2>1
  <2>3. "next" \in Pc(a)' => state'[a] = 1
    OBVIOUS
  <2> QED BY <2>2, <2>3
<1> QED BY <1>1, <1>2, <1>3 DEF Fine, Progress

LEMMA DecompileProgresses == OInv /\ Decompile => Progresses'
<1> SUFFICES ASSUME OInv, Decompile PROVE Progresses'
  OBVIOUS
<1>1. /\ stack = <<>> /\ Call(current) /\ current' = current /\ state' = state
      /\ status' = Reset(Below[current], status, "start")
      /\ curstart' = Reset(Below[current], curstart, 0)
      /\ applied' = Reset(Actions, applied, 0)
  BY DEF Decompile, ResetTree
<1>2. /\ current = Universal /\ stack' # <<>>
      /\ \A a : Pc(a)' = IF a = Universal THEN {"perform"} ELSE {}
  BY <1>1, RootCalled DEF OInv
<1>3. \A a \in Actions : a \in Below[Universal] =>
        status'[a] = "start" /\ curstart'[a] = 0 /\ applied'[a] = 0
  BY <1>1, <1>2, ResetValue, ResetFields DEF OInv, AInv
<1>4. ASSUME NEW a \in Actions PROVE Fine(a)'
  <2>1. CASE a \in Below[Universal]
    BY <1>2, <1>3, <2>1, FreshFine
  <2>2. CASE a \notin Below[Universal]
    BY <2>2 DEF Fine
  <2> QED BY <2>1, <2>2
<1> QED BY <1>2, <1>4 DEF Progresses

LEMMA GroupNextProgresses == OInv /\ GroupNext => Progresses'
<1> SUFFICES ASSUME OInv, GroupNext PROVE Progresses'
  OBVIOUS
<1>1. stack # <<>> /\ stack' # <<>> /\ UNCHANGED <<status, state, curstart, applied>>
  BY GroupNextPcs DEF OInv
<1>2. PICK b \in Actions :
        /\ Pc(b) = {} /\ Pc(b)' = {"perform"}
        /\ \A a \in Actions \ {b} : Pc(a)' = Pc(a) /\ "returned" \notin Pc(a)
  BY GroupNextPcs DEF OInv
<1>3. Running
  BY <1>1 DEF Running
<1> QED BY <1>1, <1>2, <1>3, CallProgresses

LEMMA RestartProgresses == OInv /\ Restart => Progresses'
<1> SUFFICES ASSUME OInv, Restart PROVE Progresses'
  OBVIOUS
<1>1. PICK x : x = This
  OBVIOUS
<1>2. /\ stack' # <<>> /\ state'[x] = 1
      /\ \A a \in Actions : a \in Below[Universal] =>
           status'[a] = "start" /\ applied'[a] = 0 /\ curstart'[a] # -1
      /\ \A a : Pc(a)' = IF a = x THEN {"next"} ELSE {}
  BY <1>1, RestartParts DEF OInv
<1>3. ASSUME NEW a \in Actions PROVE Fine(a)'
  <2>1. CASE a \in Below[Universal]
    <3>1. Pc(a)' \subseteq {"perform"} \/ (Pc(a)' = {"next"} /\ state'[a] = 1)
      BY <1>2
    <3> QED BY <1>2, <2>1, <3>1, FreshFine
  <2>2. CASE a \notin Below[Universal]
    BY <2>2 DEF Fine
  <2> QED BY <2>1, <2>2
<1> QED BY <1>2, <1>3 DEF Progresses

(* A leaf waits for the recovery of a jump table, or no longer does.       *)
LEMMA RecoveryProgresses ==
  ASSUME OInv, stack # <<>>, stack' # <<>>, NEW x \in Actions, Kind[x] = "leaf",
         NEW p \in {"next", "staging"}, NEW q \in {"next", "staging"},
         Pc(x) = {p}, Pc(x)' = {q}, state' = state, applied' = applied,
         \A a \in Actions : a \in Below[Universal] =>
           /\ status'[a] = status[a] /\ curstart'[a] = curstart[a]
           /\ a # x => Pc(a)' = Pc(a)
           /\ "returned" \notin Pc(a)
  PROVE  Progresses'
<1>1. \A a \in Actions : Fine(a)
  BY DEF OInv, Progresses, Running
<1>2. Growing
  BY DEF Growing
<1>3. ASSUME x \in Below[Universal] PROVE Fine(x)'
  <2>1. Progress(x) /\ Once(x) /\ DOMAIN List[x] = {}
    BY <1>1, <1>3, Members DEF Fine, IsGroup
  <2>2. status'[x] = status[x] /\ (Passed(x)' <=> Passed(x)) /\ (Covered(x)' <=> Covered(x))
    BY <1>3 DEF Passed, Covered
  <2>3. Once(x)'
    BY <2>1, <2>2 DEF Once
  <2>4. /\ Passed(x)' => Covered(x)'
        /\ status'[x] \notin {"end", "actionbreak"}
    BY <2>1, <2>2 DEF Progress
  <2> QED BY <1>2, <2>1, <2>3, <2>4, NowFine
<1>4. ASSUME NEW a \in Actions PROVE Fine(a)'
  <2>1. CASE a \notin Below[Universal]
    BY <2>1 DEF Fine
  <2>2. CASE a = x /\ a \in Below[Universal]
    BY <1>3, <2>2
  <2>3. CASE a # x /\ a \in Below[Universal]
    BY <1>1, <1>2, <2>3, StillFine
  <2> QED BY <2>1, <2>2, <2>3
<1> QED BY <1>4 DEF Progresses

LEMMA StageProgresses == OInv /\ StageJumpTable => Progresses'
<1> SUFFICES ASSUME OInv, StageJumpTable PROVE Progresses'
  OBVIOUS
<1>1. PICK x : x = This
  OBVIOUS
<1>2. /\ stack # <<>> /\ stack' # <<>> /\ Top.pc = "next" /\ Kind[x] = "leaf"
      /\ x \in Actions /\ Pc(x) = {"next"} /\ x \notin Below[JumpTable]
      /\ UNCHANGED <<state, applied>>
  BY <1>1, StageParts DEF OInv
<1>3. \A a : Pc(a)' = IF a = JumpTable THEN {"perform"}
                     ELSE IF a = x THEN {"staging"} ELSE Pc(a)
  BY <1>1, StageParts DEF OInv
<1>4. \A a \in Actions : a \notin Below[JumpTable] =>
        status'[a] = status[a] /\ curstart'[a] = curstart[a]
  BY <1>1, StageParts DEF OInv
<1>5. \A a \in Actions : "returned" \notin Pc(a)
  BY <1>1, <1>2, Ontop
<1>6. JumpTable \in Below[JumpTable] /\ Below[Universal] \cap Below[JumpTable] = {}
  BY Trees, TreesAssumption
<1>7. \A a \in Actions : a \in Below[Universal] =>
        /\ status'[a] = status[a] /\ curstart'[a] = curstart[a]
        /\ a # x => Pc(a)' = Pc(a)
        /\ "returned" \notin Pc(a)
  BY <1>3, <1>4, <1>5, <1>6
<1>8. Pc(x)' = {"staging"}
  BY <1>2, <1>3, <1>6
<1> QED BY <1>2, <1>7, <1>8, RecoveryProgresses

LEMMA ThrowProgresses == OInv /\ Throw => Progresses'
<1> SUFFICES ASSUME OInv, Throw PROVE Progresses'
  OBVIOUS
<1>1. /\ stack # <<>> /\ Top.pc = "next" /\ UNCHANGED <<status, state, curstart, applied>>
  BY ThrowParts DEF OInv
<1>2. CASE Catchers = {}
  <2>1. stack' = <<>> /\ outcome' = "error"
    BY <1>2, ThrowParts DEF OInv
  <2> QED BY <2>1 DEF Progresses, Running
<1>3. CASE Catchers # {}
  <2>1. PICK y \in Actions :
          /\ Kind[y] = "leaf" /\ Pc(y) = {"staging"} /\ Pc(y)' = {"next"}
          /\ \A a \in Actions : a \in Below[Universal] /\ a # y => Pc(a)' = Pc(a)
    BY <1>3, ThrowParts DEF OInv
  <2>2. stack' # <<>>
    BY <1>3, ThrowParts DEF OInv
  <2>3. \A a \in Actions : "returned" \notin Pc(a)
    <3>1. PICK x : x = This
      OBVIOUS
    <3> QED BY <1>1, <3>1, Ontop
  <2> QED BY <1>1, <2>1, <2>2, <2>3, RecoveryProgresses
<1> QED BY <1>2, <1>3
-----------------------------------------------------------------------------
LEMMA InitOInv == Init => OInv
<1> SUFFICES ASSUME Init PROVE OInv
  OBVIOUS
<1>1. stack = <<>> /\ outcome = "none"
  BY DEF Init
<1> QED BY <1>1, InitAInv DEF OInv, Progresses, Running

LEMMA StutterProgresses == OInv /\ UNCHANGED vars => Progresses'
<1> SUFFICES ASSUME OInv, UNCHANGED vars PROVE Progresses'
  OBVIOUS
<1>1. UNCHANGED <<status, state, curstart, outcome, stack, ret, applied>>
  BY DEF vars, fields, client, ghosts
<1>2. Growing /\ (\A a : Pc(a)' = Pc(a)) /\ (Running' <=> Running)
      /\ (Covered(Universal)' <=> Covered(Universal))
  BY <1>1 DEF Growing, Pc, Running, Covered
<1>3. ASSUME Running, NEW a \in Actions PROVE Fine(a)'
  <2>1. Fine(a)
    BY <1>3 DEF OInv, Progresses
  <2> QED BY <1>1, <1>2, <2>1, StillFine
<1> QED BY <1>1, <1>2, <1>3 DEF OInv, Progresses

LEMMA NextOInv == OInv /\ [Next]_vars => OInv'
<1> SUFFICES ASSUME OInv, [Next]_vars PROVE OInv'
  OBVIOUS
<1>1. AInv'
  BY NextAInv DEF OInv
<1>2. CASE Decompile \/ Continue
  BY <1>1, <1>2, DecompileProgresses, ContinueProgresses DEF OInv
<1>3. CASE Perform
  BY <1>1, <1>3, StartBreakProgresses, EnterProgresses, EndedProgresses,
     ActionBreakProgresses, LoopProgresses, FinishProgresses DEF Perform, OInv
<1>4. CASE Apply
  BY <1>1, <1>4, GroupNextProgresses, GroupMemberProgresses, GroupPartialProgresses,
     EndProgresses, RestartProgresses, LeafApplyProgresses, StageProgresses,
     ThrowProgresses, OpProgresses, RuleAppliesProgresses DEF Apply, OInv
<1>5. CASE UNCHANGED vars
  BY <1>1, <1>5, StutterProgresses DEF OInv
<1> QED BY <1>2, <1>3, <1>4, <1>5 DEF Next, Engine

LEMMA SpecOInv == Spec => []OInv
BY InitOInv, NextOInv, PTL DEF Spec

(* A decompilation that returns has applied every leaf of the tree since   *)
(* the function was last cleared, and exactly once each leaf that perform  *)
(* is to apply once: for any trees, rules and breakpoints, however often   *)
(* the perform was interrupted and continued, restarted, or recovered      *)
(* after a leaf threw, and whatever state an earlier decompilation left.   *)
THEOREM AppliedOncePerStart == Spec => []OncePerStart
BY SpecOInv, OInvOnce, PTL
-----------------------------------------------------------------------------
(* What is busy.  Whatever is within an action at rest, or in a member the *)
(* action is not at, is not.                                               *)
Calm(a) == \A b \in Below[a] : ~Busy(b)

Still(a) == \A i \in DOMAIN List[a] : (i # state[a] \/ Resting(a)) => Calm(List[a][i])

(* All the groups that an action in progress is within have called the     *)
(* member it is in.                                                        *)
Calls(a, b) ==
  \A i \in DOMAIN List[a] : b \in Below[List[a][i]] => i = state[a] /\ "next" \in Pc(a)

(* And what is busy without being in progress, as an interruption leaves   *)
(* it, is within the action on top.                                        *)
Nested ==
  /\ \A a, b \in Actions : Live(a) /\ Pc(b) # {} => Calls(a, b)
  /\ \A a \in Actions : Live(a) => Still(a)
  /\ \A a \in Actions : Live(a) /\ Busy(a) /\ Pc(a) = {} /\ stack # <<>> => a \in Below[This]

NInv == AInv /\ Nested

LEMMA Ancestors ==
  ASSUME NEW a \in Actions, NEW b \in Actions, NEW i \in DOMAIN List[a]
  PROVE  /\ List[a][i] \in Below[b] => List[a][i] = b \/ a \in Below[b]
         /\ a \in Below[Universal] \cup Below[JumpTable] =>
              Universal \notin Below[List[a][i]] /\ JumpTable \notin Below[List[a][i]]
<1>1. List[a][i] \in Below[b] => List[a][i] = b \/ a \in Below[b]
  BY TreesAssumption
<1>2. ASSUME NEW r \in {Universal, JumpTable}, a \in Below[r]
      PROVE  Universal \notin Below[List[a][i]] /\ JumpTable \notin Below[List[a][i]]
  <2>1. PICK c \in Actions : c = List[a][i]
    BY Members
  <2>2. c \in Below[r] /\ c # r /\ r \in Actions
    BY <1>2, <2>1, Members, Assumed
  <2>3. PICK j \in DOMAIN List[r] : c \in Below[List[r][j]]
    BY <2>2, TreesAssumption
  <2>4. Below[c] \subseteq Below[List[r][j]] /\ r \notin Below[List[r][j]]
        /\ Below[List[r][j]] \subseteq Below[r]
    BY <2>2, <2>3, Members
  <2>5. Below[Universal] \cap Below[JumpTable] = {}
    BY TreesAssumption
  <2> QED BY <1>2, <2>1, <2>4, <2>5, Trees
<1> QED BY <1>1, <1>2

LEMMA WithinTop ==
  ASSUME AInv, stack # <<>>, NEW x, x = This, NEW b \in Actions, b \in Below[x]
  PROVE  b = x \/ Pc(b) = {}
<1>1. Len(stack) \in 1 .. Len(stack) /\ x = stack[Len(stack)].action /\ Len(stack) \in Nat
  BY Here DEF This, AInv
<1>2. SUFFICES ASSUME NEW j \in 1 .. Len(stack), stack[j].action = b PROVE b = x
  BY DEF Pc
<1>3. ~(j < Len(stack))
  BY <1>1, <1>2 DEF AInv, Path
<1>4. j = Len(stack)
  BY <1>1, <1>3
<1> QED BY <1>1, <1>2, <1>4

(* The action on top calls no one yet.                                     *)
LEMMA TopCalls ==
  ASSUME AInv, stack # <<>>, NEW x, x = This, NEW b \in Actions, Pc(b) # {}
  PROVE  Calls(x, b)
<1>1. x \in Actions
  BY PcShape DEF AInv
<1>2. \A i \in DOMAIN List[x] : /\ List[x][i] \in Actions
                                /\ Below[List[x][i]] \subseteq Below[x]
                                /\ x \notin Below[List[x][i]]
  BY <1>1, Members
<1>3. \A i \in DOMAIN List[x] : b \notin Below[List[x][i]]
  BY <1>2, WithinTop
<1> QED BY <1>3 DEF Calls

LEMMA StillStill ==
  ASSUME NInv, NEW x, NEW a \in Actions \ {x}, Live(a), state'[a] = state[a],
         \A b \in Actions \ {x} : Busy(b)' => Busy(b),
         Pc(x) # {} \/ ~Busy(x)' \/ Busy(x),
         Resting(a)' => Resting(a), x \in Actions
  PROVE  Still(a)'
<1> SUFFICES ASSUME NEW i \in DOMAIN List[a], i # state[a] \/ Resting(a)
             PROVE  Calm(List[a][i])'
  BY DEF Still
<1>1. PICK c \in Actions : c = List[a][i]
  BY Members
<1>2. \A b \in Below[c] : b \in Actions /\ ~Busy(b)
  BY <1>1, Members DEF NInv, Nested, Still, Calm
<1>3. ASSUME x \in Below[c] PROVE ~Busy(x)'
  <2>1. CASE Pc(x) # {}
    <3>1. i = state[a] /\ "next" \in Pc(a)
      BY <1>1, <1>3, <2>1 DEF NInv, Nested, Calls
    <3>2. Pc(a) = {"next"}
      <4>1. Pc(a) # {}
        BY <3>1
      <4>2. stack # <<>>
        BY <4>1, EmptySequence DEF Pc
      <4>3. \E k \in 1 .. Len(stack) : stack[k].action = a /\ Pc(a) = {stack[k].pc}
        BY <4>1, <4>2, PcShape DEF NInv, AInv
      <4> QED BY <3>1, <4>3
    <3>3. ~Resting(a)
      BY <3>2 DEF Resting, Through
    <3> QED BY <3>1, <3>3
  <2>2. CASE ~Busy(x)' \/ Busy(x)
    BY <1>2, <1>3, <2>2
  <2> QED BY <2>1, <2>2
<1>4. \A b \in Below[c] : ~Busy(b)'
  BY <1>2, <1>3
<1> QED BY <1>1, <1>4 DEF Calm

LEMMA TurnParts ==
  ASSUME AInv, stack # <<>>, NEW x, x = This, Alone(x), NEW pc \in Pcs,
         stack' = Under(Len(stack), pc) \/ (stack' = stack /\ pc = Top.pc)
  PROVE  /\ x \in Actions /\ Live(x) /\ Pc(x) = {Top.pc} /\ Pc(x)' = {pc}
         /\ stack' # <<>> /\ This' = x
         /\ \A a \in Actions \ {x} : /\ Pc(a)' = Pc(a) /\ "returned" \notin Pc(a)
                                     /\ Busy(a)' <=> Busy(a)
         /\ \A a \in Actions : Live(a)' <=> Live(a)
<1>1. PICK M, C : Elsewhere(x, M, C)
  BY AloneElsewhere
<1>2. Turn(x, pc)
  <2>1. CASE stack' = Under(Len(stack), pc)
    BY <1>1, <2>1, GotoTurns DEF AInv
  <2>2. CASE stack' = stack /\ pc = Top.pc
    BY <1>1, <2>2, StayTurns DEF AInv
  <2> QED BY <2>1, <2>2
<1>3. This' = x
  <2>1. Len(stack) \in 1 .. Len(stack) /\ x = stack[Len(stack)].action
    BY Here DEF This, AInv
  <2>2. CASE stack' = Under(Len(stack), pc)
    <3>1. Len(stack') = Len(stack) /\ stack'[Len(stack)].action = x
      BY <2>1, <2>2, UnderParts DEF AInv, IInv, Types
    <3> QED BY <3>1 DEF This, Top
  <2>3. CASE stack' = stack
    BY <2>3 DEF This, Top
  <2> QED BY <2>2, <2>3
<1> QED BY <1>1, <1>2, <1>3, TurnKeeps DEF Turn, AInv

LEMMA TurnNested ==
  ASSUME NInv, stack # <<>>, NEW x, x = This, Alone(x), NEW pc \in Pcs,
         stack' = Under(Len(stack), pc) \/ (stack' = stack /\ pc = Top.pc),
         Still(x)'
  PROVE  Nested'
<1>1. /\ x \in Actions /\ Live(x) /\ Pc(x) = {Top.pc} /\ Pc(x)' = {pc}
      /\ stack' # <<>> /\ This' = x
      /\ \A a \in Actions \ {x} : /\ Pc(a)' = Pc(a) /\ "returned" \notin Pc(a)
                                  /\ Busy(a)' <=> Busy(a)
      /\ \A a \in Actions : Live(a)' <=> Live(a)
  BY TurnParts DEF NInv
<1>2. \A a \in Actions \ {x} : status'[a] = status[a] /\ state'[a] = state[a]
  BY DEF Alone
<1>3. ASSUME NEW a \in Actions, NEW b \in Actions, Live(a)', Pc(b)' # {} PROVE Calls(a, b)'
  <2>1. Pc(b) # {} /\ Live(a)
    BY <1>1, <1>3
  <2>2. CASE a = x
    <3>1. \A i \in DOMAIN List[x] : b \notin Below[List[x][i]]
      <4>1. \A i \in DOMAIN List[x] : /\ List[x][i] \in Actions
                                      /\ Below[List[x][i]] \subseteq Below[x]
                                      /\ x \notin Below[List[x][i]]
        BY <1>1, Members
      <4> QED BY <2>1, <4>1, WithinTop DEF NInv
    <3> QED BY <2>2, <3>1 DEF Calls
  <2>3. CASE a # x
    BY <1>1, <1>2, <2>1, <2>3 DEF NInv, Nested, Calls
  <2> QED BY <2>2, <2>3
<1>4. ASSUME NEW a \in Actions, Live(a)' PROVE Still(a)'
  <2>1. CASE a = x
    BY <2>1
  <2>2. CASE a # x
    <3>1. Resting(a)' => Resting(a)
      BY <1>1, <1>2, <2>2 DEF Resting, Through
    <3> QED BY <1>1, <1>2, <1>4, <2>2, <3>1, StillStill
  <2> QED BY <2>1, <2>2
<1>5. ASSUME NEW a \in Actions, Live(a)', Busy(a)', Pc(a)' = {} PROVE a \in Below[x]
  BY <1>1, <1>5 DEF NInv, Nested
<1> QED BY <1>1, <1>3, <1>4, <1>5 DEF Nested

LEMMA ReturnParts ==
  ASSUME AInv, stack # <<>>, NEW x, x = This, Alone(x), NEW r, Return(r)
  PROVE  /\ x \in Actions /\ Live(x) /\ Pc(x) = {Top.pc} /\ Pc(x)' = {} /\ ret' = r
         /\ \A a \in Actions : Live(a)' => Live(a)
         /\ \A a \in Actions \ {x} : "returned" \notin Pc(a)
         /\ \/ /\ stack' = <<>> /\ x = Universal
               /\ \A a \in Actions \ {x} : Pc(a)' = Pc(a)
            \/ /\ stack' # <<>>
               /\ \E y \in Actions \ {x} :
                    /\ y = This' /\ Pc(y)' = {"returned"} /\ y \notin Below[x]
                    /\ \A a \in Actions \ {x, y} : Pc(a)' = Pc(a)
                    /\ \/ /\ Pc(y) = {"next"} /\ IsGroup(y)
                          /\ state[y] \in DOMAIN List[y] /\ x = List[y][state[y]]
                       \/ /\ Pc(y) = {"staging"} /\ Kind[y] = "leaf"
                          /\ x = JumpTable
<1>0. PICK n : n = Len(stack)
  OBVIOUS
<1>1. n \in 1 .. Len(stack) /\ x = stack[n].action /\ n \in Nat /\ x \in Actions
      /\ Pc(x) = {Top.pc} /\ (n = 1 => x = Universal) /\ (n = 1 \/ n > 1)
      /\ \A a \in Actions \ {x} : "returned" \notin Pc(a)
  BY <1>0, Here, PcShape DEF This, AInv
<1>2. /\ n = 1 => stack' = <<>> /\ \A a : Pc(a)' = {}
      /\ n > 1 => \E y : y = stack[n - 1].action /\ Back(x, y)
      /\ Live(x) /\ Pc(x)' = {}
  <2>1. PICK M, C : Elsewhere(x, M, C)
    BY AloneElsewhere
  <2> QED BY <1>0, <2>1, ReturnPcs, ReturnKept DEF AInv
<1>3. ret' = r
  BY DEF Return
<1>4. CASE n = 1
  <2>1. stack' = <<>> /\ \A a : Pc(a)' = {}
    BY <1>2, <1>4
  <2>2. \A a \in Actions \ {x} : Pc(a) = {}
    <3>1. \A i \in 1 .. Len(stack) : stack[i].action = x
      BY <1>0, <1>1, <1>4
    <3> QED BY <3>1 DEF Pc
  <2>3. \A a \in Actions : Live(a)' => Live(a)
    BY <2>1 DEF Live
  <2> QED BY <1>1, <1>2, <1>3, <1>4, <2>1, <2>2, <2>3
<1>5. CASE n > 1
  <2>1. PICK y : y = stack[n - 1].action /\ Back(x, y)
    BY <1>2, <1>5
  <2>2. PICK k : k = n - 1
    OBVIOUS
  <2>3. k \in 1 .. Len(stack) /\ k < Len(stack) /\ k + 1 = n /\ k < n
    BY <1>0, <1>1, <1>5, <2>2
  <2>4. /\ Pc(y) = {stack[k].pc} /\ Leads(k) /\ y \notin Below[x]
        /\ stack[k].pc \in {"next", "staging"}
        /\ stack[k].pc = "next" => IsGroup(y)
    BY <1>1, <2>1, <2>2, <2>3, OneFrame DEF AInv, Path, IInv, Shape
  <2>5. stack[k].pc = "staging" => Kind[y] = "leaf"
    <3>1. stack[k].pc = "staging" => Catch(k)
      BY DEF Catch
    <3>2. stack[k].pc = "staging" => y \in FollowsFlow
      BY <2>1, <2>2, <2>3, <3>1 DEF AInv, IInv, Shape
    <3> QED BY <3>2, Trees
  <2>6. \/ /\ Pc(y) = {"next"} /\ IsGroup(y)
           /\ state[y] \in DOMAIN List[y] /\ x = List[y][state[y]]
        \/ /\ Pc(y) = {"staging"} /\ Kind[y] = "leaf"
           /\ x = JumpTable
    BY <1>1, <2>1, <2>2, <2>3, <2>4, <2>5 DEF Leads
  <2>7. y = This'
    <3>1. stack' = Under(k, "returned") /\ "returned" \in Pcs
      BY <1>0, <1>5, <2>2, Here, Zenon DEF Return, Pcs, AInv
    <3>2. Len(stack') = k /\ stack'[k].action = y
      BY <2>1, <2>2, <2>3, <3>1, UnderParts DEF AInv, IInv, Types
    <3> QED BY <3>2 DEF This, Top
  <2>8. \A a \in Actions : Live(a)' => Live(a)
    <3>1. stack # <<>>
      OBVIOUS
    <3>2. Pc(JumpTable)' # {} => Pc(JumpTable) # {}
      BY <2>1, <2>4, Assumed DEF Back
    <3> QED BY <3>2 DEF Live
  <2> QED BY <1>1, <1>2, <1>3, <2>1, <2>4, <2>6, <2>7, <2>8 DEF Back
<1> QED BY <1>1, <1>4, <1>5

(* Nothing in the members of an action at rest is busy; nor is it after a  *)
(* step that makes no other action busy.                                   *)
LEMMA RestStill ==
  ASSUME NInv, NEW x \in Actions, Live(x),
         Resting(x) \/ state[x] \notin DOMAIN List[x],
         \A b \in Actions \ {x} : Busy(b)' => Busy(b)
  PROVE  /\ Still(x)'
         /\ \A i \in DOMAIN List[x] : Calm(List[x][i]) /\ Calm(List[x][i])'
<1>1. ASSUME NEW i \in DOMAIN List[x]
      PROVE  Calm(List[x][i]) /\ Calm(List[x][i])'
  <2>1. PICK c \in Actions : c = List[x][i] /\ x \notin Below[c] /\ Below[c] \subseteq Actions
    BY Members
  <2>2. Calm(c)
    BY <1>1, <2>1 DEF NInv, Nested, Still
  <2>3. \A b \in Below[c] : ~Busy(b)'
    BY <2>1, <2>2 DEF Calm
  <2> QED BY <2>1, <2>2, <2>3 DEF Calm
<1>2. \A i \in DOMAIN List[x] : Calm(List[x][i])'
  BY <1>1
<1> QED BY <1>1, <1>2 DEF Still

(* So it is after one that leaves it at the same member.                   *)
LEMMA SameStill ==
  ASSUME NInv, NEW x \in Actions, Live(x), state'[x] = state[x], ~Resting(x)',
         \A b \in Actions \ {x} : Busy(b)' => Busy(b)
  PROVE  Still(x)'
<1> SUFFICES ASSUME NEW i \in DOMAIN List[x], i # state[x] PROVE Calm(List[x][i])'
  BY DEF Still
<1>1. PICK c \in Actions : c = List[x][i] /\ x \notin Below[c] /\ Below[c] \subseteq Actions
  BY Members
<1>2. Calm(c)
  BY <1>1 DEF NInv, Nested, Still
<1>3. \A b \in Below[c] : ~Busy(b)'
  BY <1>1, <1>2 DEF Calm
<1> QED BY <1>1, <1>3 DEF Calm

LEMMA ReturnNested ==
  ASSUME NInv, stack # <<>>, NEW x, x = This, Alone(x), NEW r \in Nat \cup {-1}, Return(r),
         r # -1 => ~Busy(x)' /\ Resting(x), Still(x)'
  PROVE  Nested'
<1>1. /\ x \in Actions /\ Live(x) /\ Pc(x) = {Top.pc} /\ Pc(x)' = {} /\ ret' = r
      /\ \A a \in Actions : Live(a)' => Live(a)
      /\ \A a \in Actions \ {x} : "returned" \notin Pc(a)
      /\ \/ /\ stack' = <<>> /\ x = Universal
            /\ \A a \in Actions \ {x} : Pc(a)' = Pc(a)
         \/ /\ stack' # <<>>
            /\ \E y \in Actions \ {x} :
                 /\ y = This' /\ Pc(y)' = {"returned"} /\ y \notin Below[x]
                 /\ \A a \in Actions \ {x, y} : Pc(a)' = Pc(a)
                 /\ \/ /\ Pc(y) = {"next"} /\ IsGroup(y)
                       /\ state[y] \in DOMAIN List[y] /\ x = List[y][state[y]]
                    \/ /\ Pc(y) = {"staging"} /\ Kind[y] = "leaf"
                       /\ x = JumpTable
  BY ReturnParts DEF NInv
<1>2. /\ \A a \in Actions \ {x} : status'[a] = status[a] /\ state'[a] = state[a]
      /\ \A i \in DOMAIN List[x] : /\ List[x][i] \in Actions
                                   /\ Below[List[x][i]] \subseteq Below[x]
                                   /\ x \notin Below[List[x][i]]
  BY <1>1, Members DEF Alone
<1>3. \A b \in Actions, i \in DOMAIN List[x] : b \in Below[List[x][i]] => Pc(b) = {}
  BY <1>2, WithinTop DEF NInv
<1>4. CASE /\ stack' = <<>>
           /\ \A a \in Actions \ {x} : Pc(a)' = Pc(a)
  <2>1. \A a : Pc(a)' = {}
    BY <1>4, EmptyPath
  <2>2. \A a \in Actions \ {x} : Busy(a)' => Busy(a)
    BY <1>2, <1>4 DEF Busy
  <2>3. ASSUME NEW a \in Actions, Live(a)' PROVE Still(a)'
    <3>1. CASE a # x
      <4>1. Resting(a)' => Resting(a)
        BY <1>2, <1>4, <2>1, <3>1 DEF Resting, Through
      <4> QED BY <1>1, <1>2, <2>2, <2>3, <3>1, <4>1, StillStill
    <3> QED BY <3>1
  <2> QED BY <1>4, <2>1, <2>3 DEF Nested
<1>5. ASSUME NEW y \in Actions \ {x},
             stack' # <<>>, y = This', Pc(y)' = {"returned"}, y \notin Below[x],
             \A a \in Actions \ {x, y} : Pc(a)' = Pc(a),
             \/ /\ Pc(y) = {"next"} /\ IsGroup(y)
                /\ state[y] \in DOMAIN List[y] /\ x = List[y][state[y]]
             \/ /\ Pc(y) = {"staging"} /\ Kind[y] = "leaf"
                /\ x = JumpTable
      PROVE  Nested'
  <2>1. Busy(y) /\ \A a \in Actions \ {x} : Busy(a)' => Busy(a)
    BY <1>2, <1>5 DEF Busy
  <2>2. \A i \in DOMAIN List[y] : /\ List[y][i] \in Actions
                                  /\ Below[List[y][i]] \subseteq Below[y]
                                  /\ y \notin Below[List[y][i]]
                                  /\ Below[List[y][i]] \subseteq Actions
    BY Members
  <2>3. Kind[y] = "leaf" => DOMAIN List[y] = {}
    BY Members DEF IsGroup
  <2>4. ASSUME NEW a \in Actions, NEW b \in Actions, Live(a)', Pc(b)' # {}
        PROVE  Calls(a, b)'
    <3> SUFFICES ASSUME NEW i \in DOMAIN List[a], b \in Below[List[a][i]]
                 PROVE  i = state'[a] /\ "next" \in Pc(a)'
      BY DEF Calls
    <3>1. b # x /\ Pc(b) # {}
      BY <1>1, <1>5, <2>4
    <3>2. a # x
      BY <1>3, <3>1
    <3>3. i = state[a] /\ "next" \in Pc(a)
      BY <1>1, <2>4, <3>1 DEF NInv, Nested, Calls
    <3>4. a # y
      <4> SUFFICES ASSUME a = y PROVE FALSE
        OBVIOUS
      <4>1. b \in Below[x]
        BY <1>5, <2>3, <3>3
      <4> QED BY <3>1, <4>1, WithinTop DEF NInv
    <3> QED BY <1>2, <1>5, <3>2, <3>3, <3>4
  <2>5. Still(y)'
    <3> SUFFICES ASSUME NEW i \in DOMAIN List[y], i # state[y] \/ Resting(y)'
                 PROVE  Calm(List[y][i])'
      BY <1>2 DEF Still
    <3>1. Live(y)
      <4>1. stack # <<>>
        OBVIOUS
      <4>2. PICK k \in 1 .. Len(stack) : stack[k].action = y
        BY <1>5 DEF Pc
      <4> QED BY <4>2, AllLive DEF NInv, AInv
    <3>2. CASE i # state[y]
      <4>1. Calm(List[y][i])
        BY <3>1, <3>2 DEF NInv, Nested, Still
      <4>2. x \notin Below[List[y][i]]
        BY <1>1, <3>1, <3>2 DEF NInv, Nested, Calls
      <4>3. \A b \in Below[List[y][i]] : ~Busy(b)'
        BY <2>1, <2>2, <4>1, <4>2 DEF Calm
      <4> QED BY <4>3 DEF Calm
    <3>3. CASE i = state[y] /\ Resting(y)'
      <4>1. x = List[y][i]
        BY <1>5, <2>3, <3>3
      <4>2. r # -1
        BY <1>1, <1>5, <3>3 DEF Resting, Through
      <4>3. ~Busy(x)' /\ Resting(x)
        BY <4>2
      <4>4. \A j \in DOMAIN List[x] : Calm(List[x][j])'
        BY <1>1, <2>1, <4>3, RestStill
      <4>5. \A b \in Below[x] : b = x \/ \E j \in DOMAIN List[x] : b \in Below[List[x][j]]
        BY <1>1, TreesAssumption
      <4>6. \A b \in Below[x] : ~Busy(b)'
        BY <4>3, <4>4, <4>5 DEF Calm
      <4> QED BY <4>1, <4>6 DEF Calm
    <3> QED BY <3>2, <3>3
  <2>6. ASSUME NEW a \in Actions, Live(a)' PROVE Still(a)'
    <3>1. CASE a \notin {x, y}
      <4>1. Resting(a)' => Resting(a)
        BY <1>1, <1>2, <1>5, <3>1 DEF Resting, Through
      <4> QED BY <1>1, <1>2, <2>1, <2>6, <3>1, <4>1, StillStill
    <3> QED BY <2>5, <3>1
  <2>7. ASSUME NEW a \in Actions, Live(a)', Busy(a)', Pc(a)' = {} PROVE a \in Below[y]
    <3>1. a \in Below[x]
      <4>1. CASE a = x
        BY <1>1, <4>1, Members
      <4>2. CASE a # x
        <5>1. Pc(a) = {} /\ Busy(a) /\ Live(a)
          BY <1>1, <1>5, <2>1, <2>7, <4>2
        <5> QED BY <5>1 DEF NInv, Nested
      <4> QED BY <4>1, <4>2
    <3>2. CASE /\ Pc(y) = {"staging"} /\ Kind[y] = "leaf"
               /\ x = JumpTable
      <4>1. Pc(JumpTable)' = {} /\ a \in Below[JumpTable]
        BY <1>1, <3>1, <3>2
      <4>2. a \notin Below[Universal]
        BY <4>1, TreesAssumption
      <4> QED BY <2>7, <4>1, <4>2 DEF Live
    <3>3. CASE state[y] \in DOMAIN List[y] /\ x = List[y][state[y]]
      BY <2>2, <3>1, <3>3
    <3> QED BY <1>5, <3>2, <3>3
  <2> QED BY <1>5, <2>4, <2>6, <2>7 DEF Nested
<1> QED BY <1>1, <1>4, <1>5

(* What changes nothing but what is called.                                *)
LEMMA SameResting ==
  ASSUME NEW a, status'[a] = status[a], Pc(a)' = Pc(a), "returned" \notin Pc(a)
  PROVE  (Resting(a)' <=> Resting(a)) /\ (Busy(a)' <=> Busy(a))
BY DEF Resting, Through, Busy

LEMMA CalledKept ==
  ASSUME NEW b, Pc(b) = {}, Pc(b)' = {"perform"}, status'[b] = status[b]
  PROVE  (Resting(b)' <=> Resting(b)) /\ (Busy(b)' <=> Busy(b))
BY DEF Resting, Through, Busy

LEMMA StillKept ==
  ASSUME NEW a \in Actions, Still(a), state'[a] = state[a], Resting(a)' => Resting(a),
         \A b \in Below[a] : Busy(b)' => Busy(b)
  PROVE  Still(a)'
<1> SUFFICES ASSUME NEW i \in DOMAIN List[a], i # state[a] \/ Resting(a)
             PROVE  Calm(List[a][i])'
  BY DEF Still
<1>1. PICK c \in Actions : c = List[a][i] /\ Below[c] \subseteq Below[a]
  BY Members
<1>2. Calm(c)
  BY <1>1 DEF Still
<1> QED BY <1>1, <1>2 DEF Calm

LEMMA GroupNextNested == NInv /\ GroupNext => Nested'
<1> SUFFICES ASSUME NInv, GroupNext PROVE Nested'
  OBVIOUS
<1>1. PICK x : x = This
  OBVIOUS
<1>2. /\ stack # <<>> /\ stack' # <<>> /\ UNCHANGED <<status, state>>
      /\ state[x] \in DOMAIN List[x] /\ x \in Actions
  BY <1>1, GroupNextPcs, PcShape DEF NInv, AInv
<1>3. PICK b \in Actions :
        /\ b = List[x][state[x]] /\ b = This'
        /\ b # JumpTable /\ Pc(b) = {} /\ Pc(b)' = {"perform"}
        /\ \A a \in Actions \ {b} : Pc(a)' = Pc(a) /\ "returned" \notin Pc(a)
        /\ Pc(JumpTable)' = Pc(JumpTable)
  BY <1>1, GroupNextPcs DEF NInv
<1>4. /\ \A a \in Actions : Live(a)' => Live(a)
      /\ Live(x) /\ "next" \in Pc(x)
  <2>1. Live(x) /\ Pc(x) = {Top.pc}
    BY <1>1, <1>2, OnTop DEF NInv, AInv
  <2>2. Top.pc = "next"
    BY DEF GroupNext, At
  <2> QED BY <1>2, <1>3, <2>1, <2>2 DEF Live
<1>5. \A a \in Actions : (Resting(a)' <=> Resting(a)) /\ (Busy(a)' <=> Busy(a))
  BY <1>2, <1>3, SameResting, CalledKept
<1>6. ASSUME NEW a \in Actions, NEW c \in Actions, Live(a)', Pc(c)' # {}
      PROVE  Calls(a, c)'
  <2> SUFFICES ASSUME NEW i \in DOMAIN List[a], c \in Below[List[a][i]]
               PROVE  i = state[a] /\ "next" \in Pc(a)'
    BY <1>2 DEF Calls
  <2>1. Live(a)
    BY <1>4, <1>6
  <2>2. PICK d \in Actions : d = List[a][i] /\ d \in Below[d]
    BY Members
  <2>3. i = state[a] /\ "next" \in Pc(a)
    <3>1. CASE c # b
      <4>1. Pc(c) # {}
        BY <1>3, <1>6, <3>1
      <4> QED BY <2>1, <4>1 DEF NInv, Nested, Calls
    <3>2. CASE c = b /\ d = b
      <4>1. PICK j \in DOMAIN List[x] : j = state[x]
        BY <1>2
      <4>2. List[a][i] = List[x][j]
        BY <1>3, <2>2, <3>2, <4>1
      <4>3. a = x /\ i = j
        BY <1>2, <4>2, Members
      <4> QED BY <1>4, <4>1, <4>3
    <3>3. CASE c = b /\ d # b
      <4>1. PICK j \in DOMAIN List[x] : j = state[x]
        BY <1>2
      <4>2. x \in Below[d]
        <5>1. List[x][j] \in Below[d] => List[x][j] = d \/ x \in Below[d]
          BY <1>2, <4>1, Ancestors
        <5> QED BY <1>3, <2>2, <3>3, <4>1, <5>1
      <4>3. Pc(x) # {}
        BY <1>4
      <4> QED BY <1>2, <2>1, <2>2, <4>2, <4>3 DEF NInv, Nested, Calls
    <3> QED BY <3>1, <3>2, <3>3
  <2>4. a # b
    BY <1>3, <2>3
  <2> QED BY <1>3, <2>3, <2>4
<1>7. ASSUME NEW a \in Actions, Live(a)' PROVE Still(a)'
  <2>1. Still(a) /\ \A c \in Below[a] : c \in Actions
    BY <1>4, <1>7, Members DEF NInv, Nested
  <2> QED BY <1>2, <1>5, <2>1, StillKept
<1>8. ASSUME NEW a \in Actions, Live(a)', Busy(a)', Pc(a)' = {} PROVE a \in Below[b]
  <2>1. Live(a) /\ Busy(a) /\ Pc(a) = {} /\ a # x
    BY <1>3, <1>4, <1>5, <1>8
  <2>2. a \in Below[x]
    BY <1>1, <1>2, <2>1 DEF NInv, Nested
  <2>3. PICK i \in DOMAIN List[x] : a \in Below[List[x][i]]
    BY <1>2, <2>1, <2>2, TreesAssumption
  <2>4. i = state[x]
    <3>1. i # state[x] => Calm(List[x][i])
      BY <1>2, <1>4 DEF NInv, Nested, Still
    <3> QED BY <2>1, <2>3, <3>1 DEF Calm
  <2> QED BY <1>3, <2>3, <2>4
<1> QED BY <1>3, <1>6, <1>7, <1>8 DEF Nested

(* The members of the tree of r are not busy, and nothing of it is called  *)
(* but r itself.                                                           *)
LEMMA FreshNested ==
  ASSUME NInv, NEW r \in {Universal, JumpTable}, NEW a \in Actions, a \in Below[r],
         \A b \in Below[r] : b = r \/ ~Busy(b)'
  PROVE  Still(a)'
<1> SUFFICES ASSUME NEW i \in DOMAIN List[a] PROVE Calm(List[a][i])'
  BY DEF Still
<1>1. r \notin Below[List[a][i]]
  BY Ancestors
<1>2. Below[List[a][i]] \subseteq Below[r]
  <2>1. r \in Actions
    BY Assumed
  <2>2. Below[a] \subseteq Below[r]
    BY <2>1, Members
  <2>3. Below[List[a][i]] \subseteq Below[a]
    BY Members
  <2> QED BY <2>2, <2>3
<1> QED BY <1>1, <1>2 DEF Calm

LEMMA RootCalls ==
  ASSUME NEW a \in Actions, a \in Below[Universal]
  PROVE  Calls(a, Universal)' /\ Calls(a, JumpTable)'
BY Ancestors DEF Calls

LEMMA DecompileNested == NInv /\ Decompile => Nested'
<1> SUFFICES ASSUME NInv, Decompile PROVE Nested'
  OBVIOUS
<1>1. /\ stack = <<>> /\ Call(current) /\ current' = current /\ state' = state
      /\ status' = Reset(Below[current], status, "start")
  BY DEF Decompile, ResetTree
<1>2. /\ current = Universal /\ stack' # <<>>
      /\ \A a : Pc(a)' = IF a = Universal THEN {"perform"} ELSE {}
  BY <1>1, RootCalled DEF NInv
<1>3. \A a \in Below[Universal] : a \in Actions /\ ~Busy(a)'
  <2>1. \A a \in Actions : a \in Below[Universal] => status'[a] = "start"
    BY <1>1, <1>2, ResetValue DEF NInv, AInv
  <2>2. \A a \in Below[Universal] : a \in Actions
    BY Members, Assumed
  <2> QED BY <1>2, <2>1, <2>2 DEF Busy
<1>4. \A a \in Actions : Live(a)' => a \in Below[Universal]
  BY <1>2, Trees DEF Live
<1>5. ASSUME NEW a \in Actions, NEW b \in Actions, Live(a)', Pc(b)' # {}
      PROVE  Calls(a, b)'
  BY <1>2, <1>4, <1>5, RootCalls
<1>6. ASSUME NEW a \in Actions, Live(a)' PROVE Still(a)'
  BY <1>3, <1>4, <1>6, FreshNested
<1> QED BY <1>3, <1>4, <1>5, <1>6 DEF Nested

LEMMA ContinueNested == NInv /\ Continue => Nested'
<1> SUFFICES ASSUME NInv, Continue PROVE Nested'
  OBVIOUS
<1>1. /\ stack = <<>> /\ outcome = "interrupted" /\ Call(current)
      /\ UNCHANGED <<current, status, state>>
  BY DEF Continue, fields
<1>2. /\ stack' # <<>> /\ current = Universal
      /\ \A a : Pc(a) = {}
      /\ \A a : Pc(a)' = IF a = Universal THEN {"perform"} ELSE {}
  BY <1>1, RootCalled DEF NInv
<1>3. \A a \in Actions : Live(a)' => Live(a) /\ a \in Below[Universal]
  BY <1>1, <1>2, Trees DEF Live
<1>4. \A a \in Actions : (Resting(a)' <=> Resting(a)) /\ (Busy(a)' <=> Busy(a))
  BY <1>1, <1>2, SameResting, CalledKept
<1>5. ASSUME NEW a \in Actions, NEW b \in Actions, Live(a)', Pc(b)' # {}
      PROVE  Calls(a, b)'
  BY <1>2, <1>3, <1>5, RootCalls
<1>6. ASSUME NEW a \in Actions, Live(a)' PROVE Still(a)'
  <2>1. Still(a) /\ \A c \in Below[a] : c \in Actions
    BY <1>3, <1>6, Members DEF NInv, Nested
  <2> QED BY <1>1, <1>4, <2>1, StillKept
<1>7. This' = Universal
  <2>1. PICK f : f = Frame(Universal, "perform", current)
    OBVIOUS
  <2>2. Len(stack) = 0 /\ stack' = <<f>> /\ f.action = Universal
    BY <1>1, <1>2, <2>1, EmptySequence DEF Call, Frame
  <2>3. Len(stack') = 1 /\ stack'[1] = f
    BY <2>2
  <2> QED BY <2>2, <2>3 DEF This, Top
<1> QED BY <1>3, <1>5, <1>6, <1>7 DEF Nested

LEMMA RestartNested == NInv /\ Restart => Nested'
<1> SUFFICES ASSUME NInv, Restart PROVE Nested'
  OBVIOUS
<1>1. PICK x : x = This
  OBVIOUS
<1>2. /\ x = Universal /\ stack' # <<>>
      /\ \A a \in Actions : a \in Below[Universal] => status'[a] = "start"
      /\ \A a : Pc(a)' = IF a = x THEN {"next"} ELSE {}
  BY <1>1, RestartParts DEF NInv
<1>3. \A a \in Below[Universal] : a \in Actions /\ (a = Universal \/ ~Busy(a)')
  <2>1. \A a \in Below[Universal] : a \in Actions
    BY Members, Assumed
  <2> QED BY <1>2, <2>1 DEF Busy
<1>4. \A a \in Actions : Live(a)' => a \in Below[Universal]
  BY <1>2, Trees DEF Live
<1>5. ASSUME NEW a \in Actions, NEW b \in Actions, Live(a)', Pc(b)' # {}
      PROVE  Calls(a, b)'
  BY <1>2, <1>4, <1>5, RootCalls
<1>6. ASSUME NEW a \in Actions, Live(a)' PROVE Still(a)'
  BY <1>3, <1>4, <1>6, FreshNested
<1>7. \A a \in Actions : Live(a)' /\ Busy(a)' => Pc(a)' # {}
  BY <1>2, <1>3, <1>4
<1> QED BY <1>5, <1>6, <1>7 DEF Nested

LEMMA StageNested == NInv /\ StageJumpTable => Nested'
<1> SUFFICES ASSUME NInv, StageJumpTable PROVE Nested'
  OBVIOUS
<1>1. PICK x : x = This
  OBVIOUS
<1>2. /\ stack # <<>> /\ stack' # <<>>
      /\ Kind[x] = "leaf" /\ x \in Actions /\ Pc(x) = {"next"}
      /\ x \in Below[Universal] /\ x \notin Below[JumpTable]
      /\ \A a : Pc(a)' = IF a = JumpTable THEN {"perform"}
                         ELSE IF a = x THEN {"staging"} ELSE Pc(a)
      /\ \A a \in Actions : a \in Below[JumpTable] => Pc(a) = {}
      /\ \A a \in Actions :
           status'[a] = IF a \in Below[JumpTable] THEN "start" ELSE status[a]
      /\ state' = state
  BY <1>1, StageParts DEF NInv
<1>3. /\ DOMAIN List[x] = {} /\ Below[x] \subseteq {x}
      /\ \A a \in Actions : /\ "returned" \notin Pc(a)
                            /\ a \in Below[Universal] => Live(a) /\ a \notin Below[JumpTable]
                            /\ \A b \in Below[a] : b \in Actions
      /\ \A r \in {Universal, JumpTable} : \A a \in Below[r] : Below[a] \subseteq Below[r]
      /\ JumpTable \in Actions /\ JumpTable \notin Below[Universal]
  <2>1. DOMAIN List[x] = {}
    BY <1>2, Members DEF IsGroup
  <2>2. Below[x] \subseteq {x}
    BY <1>2, <2>1, TreesAssumption
  <2>3. \A a \in Actions : "returned" \notin Pc(a)
    BY <1>1, <1>2, PcShape DEF NInv, AInv
  <2>4. \A a \in Actions : a \in Below[Universal] => Live(a) /\ a \notin Below[JumpTable]
    BY <1>2, TreesAssumption DEF Live
  <2>5. \A r \in {Universal, JumpTable} : \A a \in Below[r] : Below[a] \subseteq Below[r]
    BY Members, Assumed
  <2> QED BY <2>1, <2>2, <2>3, <2>4, <2>5, Members, Trees, Assumed
<1>4. /\ \A a \in Actions : Live(a)' => a \in Below[Universal] \cup Below[JumpTable]
      /\ \A a \in Actions : a \in Below[Universal] =>
           (Busy(a)' <=> Busy(a)) /\ (a # x => (Resting(a)' <=> Resting(a)))
      /\ \A a \in Below[JumpTable] : ~Busy(a)'
  <2>1. ASSUME NEW a \in Actions, a \in Below[Universal]
        PROVE  (Busy(a)' <=> Busy(a)) /\ (a # x => (Resting(a)' <=> Resting(a)))
    <3>1. status'[a] = status[a]
      BY <1>2, <1>3, <2>1
    <3>2. CASE a = x
      BY <1>2, <1>3, <3>1, <3>2 DEF Busy
    <3>3. CASE a # x
      <4>1. Pc(a)' = Pc(a)
        BY <1>2, <1>3, <2>1, <3>3
      <4> QED BY <1>3, <3>1, <3>3, <4>1, SameResting
    <3> QED BY <3>2, <3>3
  <2>2. \A a \in Below[JumpTable] : ~Busy(a)'
    BY <1>2, <1>3 DEF Busy
  <2> QED BY <2>1, <2>2 DEF Live
<1>5. ASSUME NEW a \in Actions, NEW b \in Actions, Live(a)', Pc(b)' # {}
      PROVE  Calls(a, b)'
  <2> SUFFICES ASSUME NEW i \in DOMAIN List[a], b \in Below[List[a][i]]
               PROVE  i = state[a] /\ "next" \in Pc(a)'
    BY <1>2 DEF Calls
  <2>1. a # x /\ b # JumpTable
    BY <1>3, <1>4, <1>5, Ancestors
  <2>2. Pc(b) # {} /\ b \notin Below[JumpTable]
    BY <1>2, <1>5, <2>1
  <2>3. b \in Below[a]
    BY Members
  <2>4. a \in Below[Universal]
    BY <1>3, <1>4, <1>5, <2>2, <2>3
  <2>5. i = state[a] /\ "next" \in Pc(a)
    BY <1>3, <2>2, <2>4 DEF NInv, Nested, Calls
  <2> QED BY <1>2, <1>3, <2>1, <2>4, <2>5
<1>6. ASSUME NEW a \in Actions, Live(a)' PROVE Still(a)'
  <2>1. CASE a \in Below[JumpTable]
    BY <1>4, <2>1, FreshNested
  <2>2. CASE a = x
    BY <1>3, <2>2 DEF Still
  <2>3. CASE a \in Below[Universal] /\ a # x
    <3>1. Still(a) /\ \A c \in Below[a] : Busy(c)' => Busy(c)
      BY <1>3, <1>4, <2>3 DEF NInv, Nested
    <3> QED BY <1>2, <1>4, <2>3, <3>1, StillKept
  <2> QED BY <1>4, <1>6, <2>1, <2>2, <2>3
<1>7. ASSUME NEW a \in Actions, Live(a)', Busy(a)', Pc(a)' = {} PROVE FALSE
  <2>1. a \in Below[Universal] /\ a # x /\ Busy(a)
    BY <1>2, <1>4, <1>7
  <2>2. Pc(a) = {} /\ Live(a)
    BY <1>2, <1>3, <1>7, <2>1
  <2>3. a \in Below[x]
    BY <1>1, <1>2, <2>1, <2>2 DEF NInv, Nested
  <2> QED BY <1>3, <2>1, <2>3
<1> QED BY <1>5, <1>6, <1>7 DEF Nested

LEMMA ThrowNested == NInv /\ Throw => Nested'
<1> SUFFICES ASSUME NInv, Throw PROVE Nested'
  OBVIOUS
<1>1. PICK x : x = This
  OBVIOUS
<1>2. /\ stack # <<>> /\ Top.pc = "next"
      /\ UNCHANGED <<status, state, ret>>
  BY ThrowParts DEF Throw, NInv
<1>3. CASE Catchers = {}
  <2>1. stack' = <<>> /\ outcome' = "error"
    BY <1>3, ThrowParts DEF NInv
  <2>2. \A a : Pc(a)' = {}
    BY <2>1, EmptyPath
  <2>3. \A a \in Actions : ~Live(a)'
    BY <2>1, <2>2 DEF Live
  <2> QED BY <2>3 DEF Nested
<1>4. CASE Catchers # {}
  <2>1. stack' # <<>> /\ Pc(JumpTable)' = {}
    BY <1>4, ThrowParts DEF NInv
  <2>2. PICK y \in Actions :
          /\ y \in Below[Universal] /\ Kind[y] = "leaf"
          /\ Pc(y) = {"staging"} /\ Pc(y)' = {"next"}
          /\ \A a \in Actions : a \in Below[Universal] /\ a # y => Pc(a)' = Pc(a)
    BY <1>4, ThrowParts DEF NInv
  <2>3. x \in Below[JumpTable]
    <3>1. PICK k \in 1 .. Len(stack) : stack[k].pc = "staging"
      BY <2>2 DEF Pc
    <3>2. Len(stack) \in 1 .. Len(stack) /\ Len(stack) \in Nat
          /\ x = stack[Len(stack)].action /\ stack[Len(stack)].pc = "next"
      BY <1>1, <1>2, Here DEF NInv, AInv, This
    <3>3. k # Len(stack)
      BY <3>1, <3>2
    <3>4. Len(stack) > k
      BY <3>2, <3>3
    <3> QED BY <3>1, <3>2, <3>4 DEF NInv, AInv, IInv, Shape, Catch
  <2>4. /\ DOMAIN List[y] = {}
        /\ \A a \in Actions : /\ Live(a)' => a \in Below[Universal]
                              /\ a \in Below[Universal] =>
                                   /\ Live(a) /\ a \notin Below[x] /\ Below[a] \subseteq Below[Universal]
                              /\ Below[a] \subseteq Actions
    <3>1. Below[x] \subseteq Below[JumpTable]
      BY <2>3, Members, Assumed
    <3>2. Below[Universal] \cap Below[JumpTable] = {}
      BY TreesAssumption
    <3>3. DOMAIN List[y] = {}
      BY <2>2, Members DEF IsGroup
    <3> QED BY <1>2, <2>1, <3>1, <3>2, <3>3, Members, Assumed DEF Live
  <2>5. ASSUME NEW a \in Actions, a \in Below[Universal]
        PROVE  /\ Busy(a)' <=> Busy(a)
               /\ a # y => (Resting(a)' => Resting(a))
               /\ Pc(a)' = {} <=> Pc(a) = {}
    <3>1. CASE a = y
      BY <1>2, <2>2, <3>1 DEF Busy
    <3>2. CASE a # y
      <4>1. Pc(a)' = Pc(a)
        BY <2>2, <2>5, <3>2
      <4> QED BY <1>2, <4>1 DEF Busy, Resting, Through
    <3> QED BY <3>1, <3>2
  <2>6. ASSUME NEW a \in Actions, NEW b \in Actions, Live(a)', Pc(b)' # {}
        PROVE  Calls(a, b)'
    <3> SUFFICES ASSUME NEW i \in DOMAIN List[a], b \in Below[List[a][i]]
                 PROVE  i = state[a] /\ "next" \in Pc(a)'
      BY <1>2 DEF Calls
    <3>1. a \in Below[Universal] /\ Live(a) /\ a # y
      BY <2>4, <2>6
    <3>2. b \in Below[a]
      BY Members
    <3>3. Pc(b) # {}
      BY <2>4, <2>5, <2>6, <3>1, <3>2
    <3> QED BY <2>2, <3>1, <3>3 DEF NInv, Nested, Calls
  <2>7. ASSUME NEW a \in Actions, Live(a)' PROVE Still(a)'
    <3>1. CASE a = y
      BY <2>4, <3>1 DEF Still
    <3>2. CASE a # y
      <4>1. a \in Below[Universal] /\ Still(a)
        BY <2>4, <2>7 DEF NInv, Nested
      <4>2. \A c \in Below[a] : Busy(c)' => Busy(c)
        BY <2>4, <2>5, <4>1
      <4> QED BY <1>2, <2>5, <3>2, <4>1, <4>2, StillKept
    <3> QED BY <3>1, <3>2
  <2>8. ASSUME NEW a \in Actions, Live(a)', Busy(a)', Pc(a)' = {} PROVE FALSE
    <3>1. a \in Below[Universal] /\ Live(a) /\ Busy(a) /\ Pc(a) = {} /\ a \notin Below[x]
      BY <2>4, <2>5, <2>8
    <3> QED BY <1>1, <1>2, <3>1 DEF NInv, Nested
  <2> QED BY <2>6, <2>7, <2>8 DEF Nested
<1> QED BY <1>3, <1>4

LEMMA InitNested == Init => Nested
<1> SUFFICES ASSUME Init PROVE Nested
  OBVIOUS
<1>1. stack = <<>> /\ outcome = "none" /\ Len(stack) = 0
  BY EmptySequence DEF Init
<1>2. \A a : Pc(a) = {}
  BY <1>1 DEF Pc
<1>3. \A a \in Actions : ~Live(a)
  BY <1>1, <1>2 DEF Live
<1> QED BY <1>3 DEF Nested

LEMMA StutterNested == NInv /\ UNCHANGED vars => Nested'
<1> SUFFICES ASSUME NInv, UNCHANGED vars PROVE Nested'
  OBVIOUS
<1>1. UNCHANGED <<stack, status, state, outcome, ret>>
  BY DEF vars, fields, client
<1>2. \A a : Pc(a)' = Pc(a)
  BY <1>1 DEF Pc
<1>3. This' = This
  BY <1>1 DEF This, Top
<1>4. \A a : /\ Busy(a)' <=> Busy(a)
             /\ Resting(a)' <=> Resting(a)
             /\ Live(a)' <=> Live(a)
  BY <1>1, <1>2 DEF Busy, Resting, Through, Live
<1>5. \A a : Calm(a)' <=> Calm(a)
  BY <1>4 DEF Calm
<1>6. \A a : Still(a)' <=> Still(a)
  BY <1>1, <1>4, <1>5 DEF Still
<1>7. \A a, b : Calls(a, b)' <=> Calls(a, b)
  BY <1>1, <1>2 DEF Calls
<1> QED BY <1>1, <1>2, <1>3, <1>4, <1>6, <1>7 DEF NInv, Nested

(* A step of the action on top that returns, or goes on.                   *)
LEMMA LeaveNested ==
  ASSUME NInv, stack # <<>>, NEW x, x = This, Alone(x), NEW r \in Nat \cup {-1}, Return(r),
         r # -1 => status'[x] \in {"start", "end"} /\ Resting(x),
         \/ Resting(x) \/ state[x] \notin DOMAIN List[x]
         \/ status'[x] = "mid" /\ state'[x] = state[x]
  PROVE  Nested'
<1>1. /\ x \in Actions /\ Live(x) /\ Pc(x)' = {}
      /\ \/ /\ stack' = <<>>
            /\ \A a \in Actions \ {x} : Pc(a)' = Pc(a)
         \/ \E y \in Actions \ {x} :
              /\ Pc(y)' = {"returned"}
              /\ \A a \in Actions \ {x, y} : Pc(a)' = Pc(a)
              /\ Pc(y) = {"next"} \/ Pc(y) = {"staging"}
  BY ReturnParts DEF NInv
<1>2. \A b \in Actions \ {x} : status'[b] = status[b]
  BY DEF Alone
<1>3. \A b \in Actions \ {x} : Busy(b)' => Busy(b)
  <2>1. CASE \A a \in Actions \ {x} : Pc(a)' = Pc(a)
    BY <1>2, <2>1 DEF Busy
  <2>2. ASSUME NEW y \in Actions \ {x},
               \A a \in Actions \ {x, y} : Pc(a)' = Pc(a),
               Pc(y) = {"next"} \/ Pc(y) = {"staging"}
        PROVE  \A b \in Actions \ {x} : Busy(b)' => Busy(b)
    BY <1>2, <2>2 DEF Busy
  <2> QED BY <1>1, <2>1, <2>2
<1>4. Still(x)'
  <2>1. CASE Resting(x) \/ state[x] \notin DOMAIN List[x]
    BY <1>1, <1>3, <2>1, RestStill
  <2>2. CASE status'[x] = "mid" /\ state'[x] = state[x]
    <3>1. ~Resting(x)'
      BY <1>1, <2>2 DEF Resting, Through
    <3> QED BY <1>1, <1>3, <2>2, <3>1, SameStill
  <2> QED BY <2>1, <2>2
<1>5. r # -1 => ~Busy(x)'
  BY <1>1 DEF Busy
<1> QED BY <1>4, <1>5, ReturnNested

LEMMA GoNested ==
  ASSUME NInv, stack # <<>>, NEW x, x = This, Alone(x), NEW pc \in Pcs,
         stack' = Under(Len(stack), pc) \/ (stack' = stack /\ pc = Top.pc),
         \/ Resting(x) \/ state[x] \notin DOMAIN List[x]
         \/ pc = "next" /\ state'[x] = state[x]
  PROVE  Nested'
<1>1. /\ x \in Actions /\ Live(x) /\ Pc(x)' = {pc}
      /\ \A a \in Actions \ {x} : Busy(a)' => Busy(a)
  BY TurnParts DEF NInv
<1>2. Still(x)'
  <2>1. CASE Resting(x) \/ state[x] \notin DOMAIN List[x]
    BY <1>1, <2>1, RestStill
  <2>2. CASE pc = "next" /\ state'[x] = state[x]
    <3>1. ~Resting(x)'
      BY <1>1, <2>2 DEF Resting, Through
    <3> QED BY <1>1, <2>2, <3>1, SameStill
  <2> QED BY <2>1, <2>2
<1> QED BY <1>2, TurnNested

LEMMA TopAt ==
  ASSUME NInv, stack # <<>>, NEW x, x = This
  PROVE  /\ x \in Actions /\ Pc(x) = {Top.pc} /\ Live(x)
         /\ Top.pc = "applied" => Resting(x)
         /\ Top.pc = "perform" /\ status[x] # "mid" => Resting(x)
         /\ Top.pc = "returned" /\ ret >= 0 => Resting(x)
         /\ ~IsGroup(x) => state[x] \notin DOMAIN List[x]
         /\ \A v : status' = [status EXCEPT ![x] = v] => status'[x] = v
<1>1. x \in Actions /\ Pc(x) = {Top.pc} /\ Live(x)
  BY OnTop DEF NInv, AInv
<1>2. status \in [Actions -> Statuses]
  BY DEF NInv, AInv, IInv, Types, StatusOK
<1> QED BY <1>1, <1>2, Members DEF Resting, Through

LEMMA PerformNested == NInv /\ Perform => Nested'
<1> SUFFICES ASSUME NInv, Perform PROVE Nested'
  OBVIOUS
<1>1. PICK x : x = This
  OBVIOUS
<1>2. CASE StartBreak
  <2>1. /\ stack # <<>> /\ Top.pc = "perform" /\ status[x] = "start" /\ Return(-1)
        /\ status' = [status EXCEPT ![x] = "breakstarthit"]
        /\ state' = state /\ curstart' = curstart
    BY <1>1, <1>2 DEF StartBreak, Beginning, At
  <2>2. Resting(x) /\ Alone(x)
    BY <1>1, <2>1, TopAt DEF Alone
  <2> QED BY <1>1, <2>1, <2>2, LeaveNested
<1>3. CASE Start \/ Repeat \/ Resume
  <2>1. PICK pc : pc = IF Kind[x] = "restart" /\ curstart[x] = -1 THEN "applied" ELSE "next"
    OBVIOUS
  <2>2. /\ stack # <<>> /\ Top.pc = "perform" /\ status' = status
        /\ stack' = Under(Len(stack), pc) /\ curstart' = curstart
        /\ \E p : state' = [state EXCEPT ![x] = p] \/ state' = state
        /\ status[x] = "mid" => state' = state
    BY <1>1, <1>3, <2>1 DEF Start, Repeat, Resume, Beginning, At, Entering, Going, Goto
  <2>3. /\ x \in Actions /\ pc \in Pcs /\ Pc(x) = {"perform"}
        /\ status[x] # "mid" => Resting(x)
    BY <1>1, <2>1, <2>2, TopAt DEF Pcs
  <2>4. Alone(x)
    <3>1. state \in [Actions -> Nat \ {0}]
      BY DEF NInv, AInv, IInv, Types, CountsOK
    <3> QED BY <2>2, <3>1 DEF Alone
  <2>5. CASE status[x] = "mid"
    <3>1. pc = "next"
      <4>1. Balanced(x, made, count) /\ ~Through(x)
        BY <1>1, <2>2, <2>3, <2>5, OnTop DEF NInv, AInv, Through
      <4> QED BY <2>1, <4>1 DEF Balanced
    <3> QED BY <1>1, <2>2, <2>3, <2>4, <2>5, <3>1, GoNested
  <2>6. CASE status[x] # "mid"
    BY <1>1, <2>2, <2>3, <2>4, <2>6, GoNested
  <2> QED BY <2>5, <2>6
<1>4. CASE Ended
  <2>1. /\ stack # <<>> /\ Top.pc = "perform" /\ status[x] = "end" /\ Return(0)
        /\ UNCHANGED <<status, state, curstart>>
    BY <1>1, <1>4 DEF Ended, At, fields
  <2>2. Resting(x) /\ Alone(x)
    BY <1>1, <2>1, TopAt DEF Alone
  <2> QED BY <1>1, <2>1, <2>2, LeaveNested
<1>5. CASE ActionBreak
  <2>1. /\ stack # <<>> /\ Top.pc = "applied" /\ Return(-1)
        /\ status' = [status EXCEPT ![x] = "actionbreak"]
        /\ UNCHANGED <<state, curstart>>
    BY <1>1, <1>5 DEF ActionBreak, At
  <2>2. Resting(x) /\ Alone(x)
    BY <1>1, <2>1, TopAt DEF Alone
  <2> QED BY <1>1, <2>1, <2>2, LeaveNested
<1>6. CASE Loop
  <2>1. /\ stack # <<>>
        /\ Top.pc = "applied" \/ (Top.pc = "perform" /\ status[x] = "actionbreak")
        /\ status' = [status EXCEPT ![x] = "repeat"]
        /\ stack' = Under(Len(stack), "perform") /\ UNCHANGED <<state, curstart>>
    BY <1>1, <1>6 DEF Loop, AppliedOnce, At, Going, Goto
  <2>2. Resting(x) /\ Alone(x) /\ "perform" \in Pcs
    BY <1>1, <2>1, TopAt DEF Alone, Pcs
  <2> QED BY <1>1, <2>1, <2>2, GoNested
<1>7. CASE Finish
  <2>1. PICK v : v = IF "onceperfunc" \in Flags[x] THEN "end" ELSE "start"
    OBVIOUS
  <2>2. /\ stack # <<>>
        /\ Top.pc = "applied" \/ (Top.pc = "perform" /\ status[x] = "actionbreak")
        /\ status' = [status EXCEPT ![x] = v]
        /\ Return(count[x]) /\ UNCHANGED <<state, curstart>>
    BY <1>1, <1>7, <2>1 DEF Finish, AppliedOnce, At
  <2>3. Resting(x) /\ Alone(x) /\ status'[x] \in {"start", "end"}
    <3>1. Resting(x) /\ status'[x] = v
      BY <1>1, <2>2, TopAt
    <3>2. status \in [Actions -> Statuses]
      BY DEF NInv, AInv, IInv, Types, StatusOK
    <3> QED BY <2>1, <2>2, <3>1, <3>2 DEF Alone
  <2>4. PICK r \in Nat : r = count[x]
    BY <1>1, <2>2, OnTop DEF NInv, AInv
  <2> QED BY <1>1, <2>2, <2>3, <2>4, LeaveNested
<1> QED BY <1>2, <1>3, <1>4, <1>5, <1>6, <1>7 DEF Perform

LEMMA GroupMemberNested == NInv /\ (GroupMember \/ GroupPartial) => Nested'
<1> SUFFICES ASSUME NInv, GroupMember \/ GroupPartial PROVE Nested'
  OBVIOUS
<1>1. PICK x : x = This
  OBVIOUS
<1>2. CASE GroupMember
  <2>1. /\ stack # <<>> /\ Top.pc = "returned" /\ ret >= 0
        /\ state' = [state EXCEPT ![x] = @ + 1]
        /\ \/ status' = [status EXCEPT ![x] = "mid"] /\ Return(-1)
           \/ status' = status /\ stack' = Under(Len(stack), "next")
        /\ curstart' = curstart
    BY <1>1, <1>2 DEF GroupMember, At, Partial, Going, Goto
  <2>2. Alone(x)
    BY <2>1 DEF Alone, NInv, AInv, IInv, Types, CountsOK, StatusOK
  <2>3. Resting(x) /\ "next" \in Pcs
    BY <1>1, <2>1, TopAt DEF Pcs
  <2>4. CASE Return(-1)
    BY <1>1, <2>1, <2>2, <2>3, <2>4, LeaveNested
  <2>5. CASE stack' = Under(Len(stack), "next")
    BY <1>1, <2>1, <2>2, <2>3, <2>5, GoNested
  <2> QED BY <2>1, <2>4, <2>5
<1>3. CASE GroupPartial
  <2>1. /\ stack # <<>> /\ Return(-1)
        /\ status' = [status EXCEPT ![x] = "mid"]
        /\ UNCHANGED <<state, curstart>>
    BY <1>1, <1>3 DEF GroupPartial, At, Partial
  <2>2. Alone(x)
    BY <2>1 DEF Alone
  <2>3. status'[x] = "mid" /\ state'[x] = state[x]
    BY <1>1, <2>1, TopAt
  <2> QED BY <1>1, <2>1, <2>2, <2>3, LeaveNested
<1> QED BY <1>2, <1>3

LEMMA EndNested ==
  NInv /\ (GroupDone \/ NoRestart \/ NoRestartInRecovery \/ TooManyRestarts \/ PoolDone)
    => Nested'
<1> SUFFICES ASSUME NInv, GroupDone \/ NoRestart \/ NoRestartInRecovery
                          \/ TooManyRestarts \/ PoolDone
             PROVE  Nested'
  OBVIOUS
<1>1. PICK x : x = This
  OBVIOUS
<1>2. /\ stack # <<>> /\ Top.pc = "next"
      /\ (IsGroup(x) /\ state[x] > Len(List[x])) \/ Kind[x] = "pool"
      /\ \E v : curstart' = [curstart EXCEPT ![x] = v]
      /\ stack' = Under(Len(stack), "applied")
      /\ UNCHANGED <<status, state>>
  BY <1>1, EndParts DEF NInv, AInv
<1>3. Alone(x) /\ "applied" \in Pcs
  BY <1>2 DEF Alone, Pcs, NInv, AInv, IInv, Types, StatusOK
<1>4. state[x] \notin DOMAIN List[x]
  <2>1. x \in Actions /\ (~IsGroup(x) => state[x] \notin DOMAIN List[x])
    BY <1>1, <1>2, TopAt
  <2>2. state[x] \in Nat \ {0} /\ Len(List[x]) \in Nat
    BY <2>1, Assumed DEF NInv, AInv, IInv, Types, CountsOK
  <2>3. state[x] > Len(List[x]) => state[x] \notin DOMAIN List[x]
    BY <2>1, <2>2, Members
  <2> QED BY <1>2, <2>1, <2>3 DEF IsGroup
<1> QED BY <1>1, <1>2, <1>3, <1>4, GoNested

LEMMA BareNested ==
  NInv /\ (LeafApply \/ Staged \/ OpDead \/ OpDone \/ RuleIdle \/ RuleApplies) => Nested'
<1> SUFFICES ASSUME NInv, LeafApply \/ Staged \/ OpDead \/ OpDone \/ RuleIdle \/ RuleApplies
             PROVE  Nested'
  OBVIOUS
<1>1. PICK x : x = This
  OBVIOUS
<1>2. /\ stack # <<>> /\ Kind[x] \in {"leaf", "pool"} /\ curstart' = curstart
      /\ state' = state \/ \E p : state' = [state EXCEPT ![x] = p]
      /\ \/ status' = [status EXCEPT ![x] = "mid"] /\ Return(-1)
         \/ /\ status' = status
            /\ \/ stack' = stack
               \/ stack' = Under(Len(stack), "applied")
               \/ stack' = Under(Len(stack), "next")
  <2>1. CASE LeafApply
    BY <1>1, <2>1 DEF LeafApply, In, At, Going, Goto
  <2>2. CASE Staged
    BY <1>1, <2>2 DEF Staged, In, At, Goto, fields
  <2>3. CASE OpDead \/ OpDone
    BY <1>1, <2>3 DEF OpDead, OpDone, OnOp, In, At, NextOp
  <2>4. CASE RuleIdle
    BY <1>1, <2>4 DEF RuleIdle, Trying, OnOp, In, At
  <2>5. CASE RuleApplies
    BY <1>1, <2>5, RuleAppliesParts
  <2> QED BY <2>1, <2>2, <2>3, <2>4, <2>5
<1>3. Alone(x)
  <2>1. \A a \in Actions \ {x} : state'[a] = state[a]
    BY <1>2 DEF NInv, AInv, IInv, Types, CountsOK
  <2>2. \A a \in Actions \ {x} : status'[a] = status[a]
    BY <1>2 DEF NInv, AInv, IInv, Types, StatusOK
  <2> QED BY <1>2, <2>1, <2>2 DEF Alone
<1>4. state[x] \notin DOMAIN List[x] /\ Top.pc \in Pcs /\ "applied" \in Pcs /\ "next" \in Pcs
  <2>1. state[x] \notin DOMAIN List[x]
    BY <1>1, <1>2, TopAt DEF IsGroup
  <2>2. Top.pc \in Pcs
    BY <1>2, FrameTypes, Here DEF NInv, AInv, Frames
  <2> QED BY <2>1, <2>2 DEF Pcs
<1>5. CASE Return(-1)
  BY <1>1, <1>2, <1>3, <1>4, <1>5, LeaveNested
<1>6. CASE stack' = stack
  <2>1. PICK pc \in Pcs : pc = Top.pc
    BY <1>4
  <2> QED BY <1>1, <1>2, <1>3, <1>4, <1>6, <2>1, GoNested
<1>7. CASE stack' = Under(Len(stack), "applied")
  BY <1>1, <1>2, <1>3, <1>4, <1>7, GoNested
<1>8. CASE stack' = Under(Len(stack), "next")
  BY <1>1, <1>2, <1>3, <1>4, <1>8, GoNested
<1> QED BY <1>2, <1>5, <1>6, <1>7, <1>8

LEMMA NextNInv == NInv /\ [Next]_vars => NInv'
<1> SUFFICES ASSUME NInv, [Next]_vars PROVE NInv'
  OBVIOUS
<1>1. AInv'
  BY NextAInv DEF NInv
<1>2. Nested'
  BY PerformNested, GroupNextNested, GroupMemberNested, EndNested, BareNested,
     RestartNested, StageNested, ThrowNested, DecompileNested, ContinueNested,
     StutterNested
     DEF Next, Engine, Apply
<1> QED BY <1>1, <1>2 DEF NInv
-----------------------------------------------------------------------------
(* What has been tried.  An action in the middle of its pass:              *)
InPass(a) == status[a] = "mid" \/ \E p \in Pc(a) : p # "perform"

Clean(a) == Tests(a) \subseteq settled

(* The members of a group, and the rules of a pool, that it has gone past. *)
Behind(a, i) ==
  \/ i < state[a] \/ "applied" \in Pc(a)
  \/ i = state[a] /\ "returned" \in Pc(a) /\ ret >= 0

Past(a, o, i) ==
  o < state[a] \/ (o = state[a] /\ i < ruleIndex[a]) \/ "applied" \in Pc(a)

RulesOn(a, o) ==
  IF code[Data(a)][o] \in Absent THEN {} ELSE 1 .. Len(PerOp[code[Data(a)][o]])

Tried(a) ==
  /\ \A i \in DOMAIN List[a] : Behind(a, i) => Clean(List[a][i])
  /\ Kind[a] = "pool" =>
       \A o \in 1 .. NumOps : \A i \in RulesOn(a, o) :
         Past(a, o, i) => <<a, o, i>> \in settled
  /\ Kind[a] = "leaf" /\ "applied" \in Pc(a) => <<a, 0, 0>> \in settled

(* lcount is the changes before this pass: as long as no more were made,   *)
(* what is behind has nothing left to change.                              *)
Fixed(a) ==
  /\ InPass(a) => lcount[a] <= count[a] /\ (made[a] = lcount[a] => Tried(a))
  /\ status[a] = "actionbreak" => lcount[a] < count[a]
  /\ status[a] = "end" => "onceperfunc" \in Flags[a] /\ Pc(a) \subseteq {"perform"}

Fixes == \A a \in Actions : Live(a) /\ Kind[a] # "restart" => Fixed(a)

FInv == NInv /\ Fixes

(* What a step leaves of the tests within an action, and of its changes.   *)
Keeps(a) ==
  /\ \A b \in Below[a] : Kind[b] = "leaf" /\ status[b] = "end" => status'[b] = "end"
  /\ \A o \in 1 .. NumOps :
       code'[Data(a)][o] \notin Absent => code'[Data(a)][o] = code[Data(a)][o]
  /\ \A t \in settled : t[1] \in Below[a] => t \in settled'

Bears(a) == InPass(a) => made'[a] # lcount[a] \/ (Keeps(a) /\ made'[a] = made[a])

Rooted(a) == a \in Below[Universal] \cup Below[JumpTable]

LEMMA LiveRooted == \A a : Live(a) => Rooted(a)
BY DEF Live, Rooted

LEMMA DataBelow ==
  ASSUME NEW a \in Actions, Rooted(a), NEW b \in Below[a]
  PROVE  Data(b) = Data(a) /\ Rooted(b)
<1>1. a \in Below[Universal] => b \in Below[Universal]
  BY Members, Assumed
<1>2. a \in Below[JumpTable] => b \in Below[JumpTable]
  BY Members, Assumed
<1> QED BY <1>1, <1>2, TreesAssumption DEF Data, Rooted

TestsOf(B, st, C) ==
  {<<x, 0, 0>> : x \in {x \in B : Kind[x] = "leaf" /\ st[x] # "end"}}
  \cup UNION {{<<x, o, i>> : i \in 1 .. Len(PerOp[C[o]])} :
                x \in {x \in B : Kind[x] = "pool"},
                o \in {o \in 1 .. NumOps : C[o] \notin Absent}}

TestsIn(B, st, C, S) ==
  \A x \in B :
    /\ Kind[x] = "leaf" /\ st[x] # "end" => <<x, 0, 0>> \in S
    /\ Kind[x] = "pool" =>
         \A o \in 1 .. NumOps :
           C[o] \notin Absent => \A i \in 1 .. Len(PerOp[C[o]]) : <<x, o, i>> \in S

LEMMA TestsParts ==
  ASSUME NEW B, NEW st, NEW C, NEW S
  PROVE  TestsOf(B, st, C) \subseteq S
         <=> TestsIn(B, st, C, S)
<1> DEFINE L == {x \in B : Kind[x] = "leaf" /\ st[x] # "end"}
           Q == {x \in B : Kind[x] = "pool"}
           O == {o \in 1 .. NumOps : C[o] \notin Absent}
           I(o) == 1 .. Len(PerOp[C[o]])
           T(x, o) == {<<x, o, i>> : i \in I(o)}
           F == {T(x, o) : x \in Q, o \in O}
           E == {<<x, 0, 0>> : x \in L}
<1>1. /\ \A x : x \in L <=> x \in B /\ Kind[x] = "leaf" /\ st[x] # "end"
      /\ \A x : x \in Q <=> x \in B /\ Kind[x] = "pool"
      /\ \A o : o \in O <=> o \in 1 .. NumOps /\ C[o] \notin Absent
  OBVIOUS
<1> HIDE DEF L, Q, O, I
<1>2. E \subseteq S <=> \A x \in L : <<x, 0, 0>> \in S
  OBVIOUS
<1>3. /\ \A x, o, i : i \in I(o) => <<x, o, i>> \in T(x, o)
      /\ \A x, o : \A t \in T(x, o) : \E i \in I(o) : t = <<x, o, i>>
  OBVIOUS
<1> HIDE DEF T, E
<1>4. (\A x \in Q, o \in O : T(x, o) \in F)
      /\ \A f \in F : \E x \in Q, o \in O : f = T(x, o)
  OBVIOUS
<1> HIDE DEF F
<1>5. UNION F \subseteq S <=> \A x \in Q : \A o \in O : \A i \in I(o) : <<x, o, i>> \in S
  <2>1. ASSUME UNION F \subseteq S, NEW x \in Q, NEW o \in O, NEW i \in I(o)
        PROVE  <<x, o, i>> \in S
    BY <1>3, <1>4, <2>1
  <2>2. ASSUME \A x \in Q : \A o \in O : \A i \in I(o) : <<x, o, i>> \in S,
               NEW f \in F, NEW t \in f
        PROVE  t \in S
    <3>1. PICK x \in Q, o \in O : f = T(x, o)
      BY <1>4
    <3>2. PICK i \in I(o) : t = <<x, o, i>>
      BY <1>3, <2>2, <3>1
    <3> QED BY <2>2, <3>2
  <2> QED BY <2>1, <2>2
<1>6. E \cup UNION F \subseteq S <=> E \subseteq S /\ UNION F \subseteq S
  OBVIOUS
<1>7. E \cup UNION F \subseteq S
      <=> \A x \in B :
            /\ Kind[x] = "leaf" /\ st[x] # "end" => <<x, 0, 0>> \in S
            /\ Kind[x] = "pool" =>
                 \A o \in 1 .. NumOps :
                   C[o] \notin Absent => \A i \in I(o) : <<x, o, i>> \in S
  BY <1>1, <1>2, <1>5, <1>6, Zenon
<1>8. TestsOf(B, st, C) = E \cup UNION F
  BY DEF TestsOf, E, F, T, I, L, Q, O
<1>9. TestsIn(B, st, C, S)
      <=> \A x \in B :
            /\ Kind[x] = "leaf" /\ st[x] # "end" => <<x, 0, 0>> \in S
            /\ Kind[x] = "pool" =>
                 \A o \in 1 .. NumOps :
                   C[o] \notin Absent => \A i \in I(o) : <<x, o, i>> \in S
  BY Zenon DEF TestsIn, I
<1> QED BY <1>7, <1>8, <1>9, Zenon

LEMMA CleanParts ==
  ASSUME NEW a
  PROVE  /\ Clean(a) <=>
              \A x \in Below[a] :
                /\ Kind[x] = "leaf" /\ status[x] # "end" => <<x, 0, 0>> \in settled
                /\ Kind[x] = "pool" =>
                     \A o \in 1 .. NumOps : \A i \in RulesOn(a, o) : <<x, o, i>> \in settled
         /\ Clean(a)' <=>
              \A x \in Below[a] :
                /\ Kind[x] = "leaf" /\ status'[x] # "end" => <<x, 0, 0>> \in settled'
                /\ Kind[x] = "pool" =>
                     \A o \in 1 .. NumOps : \A i \in RulesOn(a, o)' : <<x, o, i>> \in settled'
<1>1. Clean(a) <=> TestsOf(Below[a], status, code[Data(a)]) \subseteq settled
  BY DEF Clean, Tests, TestsOf
<1>2. Clean(a)' <=> TestsOf(Below[a], status', code'[Data(a)]) \subseteq settled'
  BY DEF Clean, Tests, TestsOf
<1>3. Clean(a) <=> TestsIn(Below[a], status, code[Data(a)], settled)
  BY <1>1, TestsParts, Zenon
<1>4. Clean(a)' <=> TestsIn(Below[a], status', code'[Data(a)], settled')
  BY <1>2, TestsParts, Zenon
<1> QED BY <1>3, <1>4 DEF TestsIn, RulesOn

LEMMA KeepsClean ==
  ASSUME NEW a \in Actions, Rooted(a), Keeps(a), NEW b \in Below[a], Clean(b)
  PROVE  Clean(b)'
<1>1. b \in Actions /\ Below[b] \subseteq Below[a] /\ Data(b) = Data(a)
  BY Members, DataBelow
<1>2. SUFFICES ASSUME NEW x \in Below[b]
               PROVE  /\ Kind[x] = "leaf" /\ status'[x] # "end" => <<x, 0, 0>> \in settled'
                      /\ Kind[x] = "pool" =>
                           \A o \in 1 .. NumOps : \A i \in RulesOn(b, o)' :
                             <<x, o, i>> \in settled'
  BY CleanParts
<1>3. /\ Kind[x] = "leaf" /\ status[x] # "end" => <<x, 0, 0>> \in settled
      /\ Kind[x] = "pool" =>
           \A o \in 1 .. NumOps : \A i \in RulesOn(b, o) : <<x, o, i>> \in settled
  BY CleanParts
<1>4. x \in Below[a] /\ \A o, i : <<x, o, i>>[1] = x
  BY <1>1
<1>5. ASSUME Kind[x] = "leaf", status'[x] # "end" PROVE <<x, 0, 0>> \in settled'
  BY <1>3, <1>4, <1>5 DEF Keeps
<1>6. ASSUME Kind[x] = "pool", NEW o \in 1 .. NumOps, NEW i \in RulesOn(b, o)'
      PROVE  <<x, o, i>> \in settled'
  <2>1. i \in RulesOn(b, o)
    BY <1>1, <1>6 DEF RulesOn, Keeps
  <2> QED BY <1>3, <1>4, <1>6, <2>1 DEF Keeps
<1> QED BY <1>5, <1>6

(* An action that a step does not touch but for what it calls.             *)
LEMMA OtherFixed ==
  ASSUME NEW a \in Actions, Rooted(a), Fixed(a), Bears(a),
         status'[a] = status[a], state'[a] = state[a], ruleIndex'[a] = ruleIndex[a],
         count'[a] = count[a], lcount'[a] = lcount[a],
         InPass(a)' => InPass(a), "applied" \in Pc(a)' => "applied" \in Pc(a),
         Pc(a) \subseteq {"perform"} => Pc(a)' \subseteq {"perform"},
         \A i \in DOMAIN List[a] :
           (i = state[a] /\ "returned" \in Pc(a)' /\ ret' >= 0 /\ made'[a] = lcount[a]) =>
             Clean(List[a][i])'
  PROVE  Fixed(a)'
<1>1. ASSUME InPass(a)', made'[a] = lcount[a] PROVE Tried(a)'
  <2>1. Keeps(a) /\ Tried(a)
    BY <1>1 DEF Bears, Fixed
  <2>2. ASSUME NEW i \in DOMAIN List[a], Behind(a, i)' PROVE Clean(List[a][i])'
    <3>1. CASE i < state[a] \/ "applied" \in Pc(a)'
      <4>1. Clean(List[a][i]) /\ List[a][i] \in Below[a]
        BY <2>1, <3>1, Members DEF Tried, Behind
      <4> QED BY <2>1, <4>1, KeepsClean
    <3>2. CASE i = state[a] /\ "returned" \in Pc(a)' /\ ret' >= 0
      BY <1>1, <3>2
    <3> QED BY <2>2, <3>1, <3>2 DEF Behind
  <2>3. ASSUME Kind[a] = "pool", NEW o \in 1 .. NumOps, NEW i \in RulesOn(a, o)', Past(a, o, i)'
        PROVE  <<a, o, i>> \in settled'
    <3>1. i \in RulesOn(a, o)
      BY <2>1, <2>3 DEF RulesOn, Keeps
    <3>2. Past(a, o, i)
      BY <2>3 DEF Past
    <3>3. <<a, o, i>> \in settled /\ <<a, o, i>>[1] = a /\ a \in Below[a]
      BY <2>1, <2>3, <3>1, <3>2, Members DEF Tried
    <3> QED BY <2>1, <3>3 DEF Keeps
  <2>4. ASSUME Kind[a] = "leaf", "applied" \in Pc(a)' PROVE <<a, 0, 0>> \in settled'
    <3>1. <<a, 0, 0>> \in settled /\ <<a, 0, 0>>[1] = a /\ a \in Below[a]
      BY <2>1, <2>4, Members DEF Tried
    <3> QED BY <2>1, <3>1 DEF Keeps
  <2> QED BY <2>2, <2>3, <2>4 DEF Tried
<1>2. InPass(a)' => lcount'[a] <= count'[a]
  BY DEF Fixed
<1> QED BY <1>1, <1>2 DEF Fixed

(* A step of the action on top that changes nothing in a function.         *)
Steady(x) ==
  \A a \in Actions \ {x} :
    /\ status'[a] = status[a] /\ state'[a] = state[a] /\ curstart'[a] = curstart[a]
    /\ count'[a] = count[a] /\ lcount'[a] = lcount[a] /\ ruleIndex'[a] = ruleIndex[a]

LEMMA SteadyAlone == \A x : Steady(x) => Alone(x)
BY DEF Steady, Alone

Unspoilt ==
  /\ settled \subseteq settled'
  /\ \A f \in Functions : \A o \in 1 .. NumOps :
       code'[f][o] \notin Absent => code'[f][o] = code[f][o]

LEMMA UnspoiltBears ==
  ASSUME NEW x, Steady(x), Unspoilt,
         Kind[x] = "leaf" /\ status[x] = "end" => status'[x] = "end"
  PROVE  /\ \A a \in Actions : Keeps(a)
         /\ \A a \in Actions : made'[a] = made[a] => Bears(a)
<1>1. ASSUME NEW a \in Actions PROVE Keeps(a)
  <2>1. \A b \in Below[a] : Kind[b] = "leaf" /\ status[b] = "end" => status'[b] = "end"
    BY Members DEF Steady
  <2>2. Data(a) \in Functions
    BY DEF Data, Functions
  <2> QED BY <2>1, <2>2 DEF Keeps, Unspoilt
<1> QED BY <1>1 DEF Bears

(* A change is accounted for by all the actions that it makes try again.   *)
LEMMA ChangeBears ==
  ASSUME FInv, stack # <<>>, NEW x, x = This, Top.pc = "next", Kind[x] \in {"leaf", "pool"},
         Change(x), Steady(x), status[x] = "end" => status'[x] = "end",
         \A f \in Functions \ {Data(x)} : code'[f] = code[f]
  PROVE  \A a \in Actions \ {x} : Live(a) /\ Kind[a] # "restart" => Bears(a)
<1>1. SUFFICES ASSUME NEW a \in Actions \ {x}, Live(a), Kind[a] # "restart", InPass(a)
               PROVE  made'[a] # lcount[a] \/ (Keeps(a) /\ made'[a] = made[a])
  BY DEF Bears
<1>2. /\ x \in Actions /\ Pc(x) = {"next"} /\ DOMAIN List[x] = {} /\ Live(x)
      /\ \A b \in Actions \ {x} : "returned" \notin Pc(b)
  <2>1. \A b \in Actions \ {x} : "returned" \notin Pc(b)
    BY PcShape DEF FInv, NInv, AInv
  <2> QED BY <2>1, TopAt, Ungrouped DEF FInv, NInv
<1>3. Pc(a) # {}
  <2> SUFFICES ASSUME Pc(a) = {} PROVE FALSE
    OBVIOUS
  <2>1. Busy(a)
    BY <1>1 DEF InPass, Busy
  <2>2. a \in Below[x]
    BY <1>1, <2>1 DEF FInv, NInv, Nested
  <2> QED BY <1>1, <1>2, <2>2, TreesAssumption
<1>4. made \in [Actions -> Nat] /\ count \in [Actions -> Nat] /\ lcount \in [Actions -> Nat]
      /\ ret \in Nat \cup {-1} /\ budget \in Nat
  BY DEF FInv, NInv, AInv, IInv, Types, CountsOK, GhostsOK, StackOK, FunctionOK
<1>5. lcount[a] <= count[a] /\ count[a] <= made[a]
  <2>1. lcount[a] <= count[a]
    BY <1>1 DEF FInv, Fixes, Fixed
  <2>2. Busy(a)
    BY <1>1 DEF InPass, Busy
  <2>3. made[a] = count[a] + Due(a, made)
    BY <1>1, <2>2 DEF FInv, NInv, AInv, Accounts, AllBalanced, Balanced
  <2>4. Due(a, made) \in Nat
    <3>1. CASE state[a] \in DOMAIN List[a]
      <4>1. made[List[a][state[a]]] \in Nat
        BY <1>4, <3>1, Members
      <4> QED BY <1>1, <1>2, <3>1, <4>1 DEF Due, Owed
    <3>2. CASE state[a] \notin DOMAIN List[a]
      BY <1>1, <1>2, <3>2 DEF Due
    <3> QED BY <3>1, <3>2
  <2> QED BY <1>4, <2>1, <2>3, <2>4
<1>6. \E k \in 1 .. budget :
        made'[a] = IF Data(a) = Data(x) THEN made[a] + k ELSE made[a]
  <2>1. \E i \in DOMAIN stack : stack[i].action = a
    <3>1. DOMAIN stack = 1 .. Len(stack)
      BY FrameTypes DEF FInv, NInv, AInv
    <3> QED BY <1>3, <3>1 DEF Pc
  <2>2. PICK k \in 1 .. budget : ChangeBy(x, k)
    BY DEF Change
  <2> QED BY <1>1, <1>4, <2>1, <2>2 DEF ChangeBy
<1>7. CASE Data(a) = Data(x)
  <2>1. PICK k \in 1 .. budget : made'[a] = made[a] + k
    BY <1>6, <1>7
  <2>2. made[a] \in Nat /\ count[a] \in Nat /\ lcount[a] \in Nat /\ k \in Nat \ {0}
    BY <1>4
  <2> QED BY <1>5, <2>1, <2>2
<1>8. CASE Data(a) # Data(x)
  <2>1. \A b \in Below[a] : status[b] = "end" => status'[b] = "end"
    BY Members DEF Steady
  <2>2. \A t \in settled : t[1] \in Below[a] => t \in settled'
    <3>1. \A b \in Below[a] : Data(b) = Data(a)
      BY <1>1, LiveRooted, DataBelow
    <3> QED BY <1>8, <3>1 DEF Change, ChangeBy
  <2>3. code'[Data(a)] = code[Data(a)]
    BY <1>8 DEF Data, Functions
  <2> QED BY <1>6, <1>8, <2>1, <2>2, <2>3 DEF Keeps
<1> QED BY <1>7, <1>8

LEMMA TurnFixes ==
  ASSUME FInv, stack # <<>>, NEW x, x = This, Steady(x), NEW pc \in Pcs,
         stack' = Under(Len(stack), pc) \/ (stack' = stack /\ pc = Top.pc),
         \A a \in Actions \ {x} : Live(a) /\ Kind[a] # "restart" => Bears(a),
         Kind[x] # "restart" => Fixed(x)'
  PROVE  Fixes'
<1>1. /\ \A a \in Actions \ {x} : Pc(a)' = Pc(a) /\ "returned" \notin Pc(a)
      /\ \A a \in Actions : Live(a)' <=> Live(a)
  BY SteadyAlone, TurnParts DEF FInv, NInv
<1> SUFFICES ASSUME NEW a \in Actions, Live(a)', Kind[a] # "restart" PROVE Fixed(a)'
  BY DEF Fixes
<1>2. CASE a = x
  BY <1>2
<1>3. CASE a # x
  <2>1. Live(a) /\ Fixed(a) /\ Rooted(a) /\ Bears(a)
    BY <1>1, <1>3, LiveRooted DEF FInv, Fixes
  <2>2. /\ status'[a] = status[a] /\ state'[a] = state[a] /\ ruleIndex'[a] = ruleIndex[a]
        /\ count'[a] = count[a] /\ lcount'[a] = lcount[a] /\ Pc(a)' = Pc(a)
        /\ "returned" \notin Pc(a)
    BY <1>1, <1>3 DEF Steady
  <2>3. InPass(a)' => InPass(a)
    BY <2>2 DEF InPass
  <2> QED BY <2>1, <2>2, <2>3, OtherFixed
<1> QED BY <1>2, <1>3

(* A member that returns no change to a group that has seen none has       *)
(* nothing left to change.                                                 *)
LEMMA ReturnFixes ==
  ASSUME FInv, stack # <<>>, NEW x, x = This, Steady(x), NEW r \in Nat \cup {-1}, Return(r),
         \A a \in Actions \ {x} : Live(a) /\ Kind[a] # "restart" => Bears(a),
         r # -1 => /\ made' = made
                   /\ Kind[x] # "restart" /\ Owed(x, made) = 0 => Clean(x)',
         Kind[x] # "restart" => Fixed(x)'
  PROVE  Fixes'
<1>1. /\ x \in Actions /\ Pc(x)' = {} /\ ret' = r
      /\ \A a \in Actions : Live(a)' => Live(a)
      /\ \A a \in Actions \ {x} : "returned" \notin Pc(a)
      /\ \/ /\ stack' = <<>>
            /\ \A a \in Actions \ {x} : Pc(a)' = Pc(a)
         \/ \E y \in Actions \ {x} :
              /\ Pc(y)' = {"returned"}
              /\ \A a \in Actions \ {x, y} : Pc(a)' = Pc(a)
              /\ \/ /\ Pc(y) = {"next"} /\ IsGroup(y)
                    /\ state[y] \in DOMAIN List[y] /\ x = List[y][state[y]]
                 \/ Pc(y) = {"staging"} /\ Kind[y] = "leaf"
  BY SteadyAlone, ReturnParts DEF FInv, NInv
<1>2. ASSUME NEW a \in Actions \ {x}, Live(a)'
      PROVE  /\ Live(a) /\ Rooted(a) /\ (Kind[a] # "restart" => Fixed(a) /\ Bears(a))
             /\ status'[a] = status[a] /\ state'[a] = state[a] /\ ruleIndex'[a] = ruleIndex[a]
             /\ count'[a] = count[a] /\ lcount'[a] = lcount[a]
  BY <1>1, <1>2, LiveRooted DEF FInv, Fixes, Steady
<1>3. ASSUME NEW a \in Actions \ {x}, Live(a)', Kind[a] # "restart", Pc(a)' = Pc(a)
      PROVE  Fixed(a)'
  <2>1. InPass(a)' => InPass(a)
    BY <1>2, <1>3 DEF InPass
  <2>2. "returned" \notin Pc(a)'
    BY <1>1, <1>3
  <2> QED BY <1>2, <1>3, <2>1, <2>2, OtherFixed
<1>4. ASSUME NEW y \in Actions \ {x}, Live(y)', Kind[y] # "restart", Pc(y)' = {"returned"},
             \/ /\ Pc(y) = {"next"} /\ IsGroup(y)
                /\ state[y] \in DOMAIN List[y] /\ x = List[y][state[y]]
             \/ Pc(y) = {"staging"} /\ Kind[y] = "leaf"
      PROVE  Fixed(y)'
  <2>1. InPass(y) /\ "applied" \notin Pc(y)'
    BY <1>4 DEF InPass
  <2>2. ASSUME NEW i \in DOMAIN List[y], i = state[y], ret' >= 0, made'[y] = lcount[y]
        PROVE  Clean(List[y][i])'
    <3>1. Kind[y] # "leaf"
      BY Members DEF IsGroup
    <3>2. Pc(y) = {"next"} /\ IsGroup(y) /\ x = List[y][i] /\ state[y] \in DOMAIN List[y]
      BY <1>4, <2>2, <3>1
    <3>3. r # -1
      BY <1>1, <2>2
    <3>4. made[y] = count[y] + Owed(x, made)
      <4>1. Busy(y) /\ Due(y, made) = Owed(x, made)
        BY <2>2, <3>2 DEF Busy, Due
      <4> QED BY <1>2, <1>4, <4>1 DEF FInv, NInv, AInv, Accounts, AllBalanced, Balanced
    <3>5. lcount[y] <= count[y] /\ made[y] = lcount[y]
      BY <1>2, <1>4, <2>1, <2>2, <3>3 DEF Fixed
    <3>6. made[x] \in Nat /\ count[y] \in Nat /\ lcount[y] \in Nat /\ made[y] \in Nat
      BY <1>1 DEF FInv, NInv, AInv, IInv, Types, CountsOK, GhostsOK
    <3>7. Owed(x, made) \in Nat
      BY <3>6 DEF Owed
    <3>8. Owed(x, made) = 0
      BY <3>4, <3>5, <3>6, <3>7
    <3>9. Kind[x] # "restart"
      BY <1>1, <3>2, Members, TreesAssumption
    <3> QED BY <3>2, <3>3, <3>8, <3>9
  <2> QED BY <1>2, <1>4, <2>1, <2>2, OtherFixed
<1> SUFFICES ASSUME NEW a \in Actions, Live(a)', Kind[a] # "restart" PROVE Fixed(a)'
  BY DEF Fixes
<1>5. CASE a = x
  BY <1>5
<1>6. CASE a # x
  BY <1>1, <1>3, <1>4, <1>6
<1> QED BY <1>5, <1>6

(* An action is left, or goes on with its pass.                            *)
LEMMA OutFixed ==
  ASSUME NEW x, status'[x] # "mid", Pc(x)' \subseteq {"perform"},
         status'[x] = "actionbreak" => lcount'[x] < count'[x],
         status'[x] = "end" => "onceperfunc" \in Flags[x]
  PROVE  Fixed(x)'
BY DEF Fixed, InPass

LEMMA InFixed ==
  ASSUME NEW x, status'[x] # "end", lcount'[x] <= count'[x],
         status'[x] = "actionbreak" => lcount'[x] < count'[x],
         made'[x] = lcount'[x] => Tried(x)'
  PROVE  Fixed(x)'
BY DEF Fixed

(* An action that was applied without a change is clean.                   *)
LEMMA TriedClean ==
  ASSUME NEW x \in Actions, Rooted(x), "applied" \in Pc(x), Tried(x)
  PROVE  Clean(x)
<1> SUFFICES ASSUME NEW z \in Below[x]
             PROVE  /\ Kind[z] = "leaf" /\ status[z] # "end" => <<z, 0, 0>> \in settled
                    /\ Kind[z] = "pool" =>
                         \A o \in 1 .. NumOps : \A i \in RulesOn(x, o) :
                           <<z, o, i>> \in settled
  BY CleanParts
<1>1. CASE z = x
  BY <1>1 DEF Tried, Past
<1>2. CASE z # x
  <2>1. PICK i \in DOMAIN List[x] : z \in Below[List[x][i]]
    BY <1>2, TreesAssumption
  <2>2. PICK c \in Actions : c = List[x][i] /\ c \in Below[x]
    BY Members
  <2>3. Clean(c) /\ Data(c) = Data(x)
    BY <2>2, DataBelow DEF Tried, Behind
  <2>4. /\ Kind[z] = "leaf" /\ status[z] # "end" => <<z, 0, 0>> \in settled
        /\ Kind[z] = "pool" =>
             \A o \in 1 .. NumOps : \A j \in RulesOn(c, o) : <<z, o, j>> \in settled
    BY <2>1, <2>2, <2>3, CleanParts
  <2> QED BY <2>3, <2>4 DEF RulesOn
<1> QED BY <1>1, <1>2

(* What is known of the action on top, and what a step of perform leaves.  *)
LEMMA TopFixed ==
  ASSUME FInv, stack # <<>>, NEW x, x = This
  PROVE  /\ x \in Actions /\ Pc(x) = {Top.pc} /\ Live(x) /\ Rooted(x)
         /\ Kind[x] # "restart" => Fixed(x)
         /\ Top.pc # "perform" => InPass(x)
         /\ made[x] \in Nat /\ count[x] \in Nat /\ lcount[x] \in Nat
         /\ status \in [Actions -> Statuses] /\ state \in [Actions -> Nat \ {0}]
         /\ count \in [Actions -> Nat] /\ lcount \in [Actions -> Nat]
         /\ made \in [Actions -> Nat] /\ ruleIndex \in [Actions -> Nat]
         /\ curstart \in [Actions -> Nat \cup {-1}]
<1>1. x \in Actions /\ Pc(x) = {Top.pc} /\ Live(x)
  BY TopAt DEF FInv
<1>2. /\ status \in [Actions -> Statuses] /\ state \in [Actions -> Nat \ {0}]
      /\ count \in [Actions -> Nat] /\ lcount \in [Actions -> Nat]
      /\ made \in [Actions -> Nat] /\ ruleIndex \in [Actions -> Nat]
      /\ curstart \in [Actions -> Nat \cup {-1}]
  BY DEF FInv, NInv, AInv, IInv, Types, CountsOK, StatusOK, GhostsOK
<1>3. Kind[x] # "restart" => Fixed(x)
  BY <1>1 DEF FInv, Fixes
<1>4. Top.pc # "perform" => InPass(x)
  BY <1>1 DEF InPass
<1> QED BY <1>1, <1>2, <1>3, <1>4, LiveRooted

LEMMA QuietUnspoilt ==
  ASSUME function' = function \/ code' = code, settled' = settled
  PROVE  Unspoilt
BY DEF Unspoilt, function

LEMMA StartBreakFixes == FInv /\ StartBreak => Fixes'
<1> SUFFICES ASSUME FInv, StartBreak PROVE Fixes'
  OBVIOUS
<1>1. PICK x : x = This
  OBVIOUS
<1>2. /\ stack # <<>> /\ Top.pc = "perform" /\ status[x] = "start" /\ Return(-1)
      /\ status' = [status EXCEPT ![x] = "breakstarthit"]
      /\ count' = [count EXCEPT ![x] = 0] /\ made' = [made EXCEPT ![x] = 0]
      /\ UNCHANGED <<lcount, state, ruleIndex, curstart, settled>> /\ function' = function
  BY <1>1 DEF StartBreak, Beginning, At
<1>3. /\ x \in Actions /\ status'[x] = "breakstarthit"
      /\ Steady(x) /\ \A a \in Actions \ {x} : made'[a] = made[a]
  <2>1. /\ x \in Actions /\ status \in [Actions -> Statuses]
        /\ count \in [Actions -> Nat] /\ made \in [Actions -> Nat]
    BY <1>1, <1>2, TopFixed
  <2> QED BY <1>2, <2>1 DEF Steady
<1>4. \A a \in Actions \ {x} : Bears(a)
  BY <1>2, <1>3, QuietUnspoilt, UnspoiltBears
<1>5. Pc(x)' = {}
  BY <1>1, <1>2, <1>3, SteadyAlone, ReturnParts DEF FInv, NInv
<1>6. Fixed(x)'
  BY <1>3, <1>5, OutFixed
<1> QED BY <1>1, <1>2, <1>3, <1>4, <1>6, ReturnFixes

LEMMA ActionBreakFixes == FInv /\ ActionBreak => Fixes'
<1> SUFFICES ASSUME FInv, ActionBreak PROVE Fixes'
  OBVIOUS
<1>1. PICK x : x = This
  OBVIOUS
<1>2. /\ stack # <<>> /\ Changed(x) /\ Return(-1) /\ Top.pc = "applied"
      /\ status' = [status EXCEPT ![x] = "actionbreak"]
      /\ UNCHANGED <<count, lcount, state, ruleIndex, curstart, settled, made>>
      /\ function' = function
  BY <1>1 DEF ActionBreak, At, ghosts
<1>3. /\ x \in Actions /\ status'[x] = "actionbreak" /\ Steady(x)
      /\ Kind[x] # "restart" => status[x] # "end"
  <2>1. x \in Actions /\ status \in [Actions -> Statuses] /\ Pc(x) = {"applied"}
        /\ (Kind[x] # "restart" => Fixed(x))
    BY <1>1, <1>2, TopFixed
  <2>2. ~(Pc(x) \subseteq {"perform"})
    BY <2>1
  <2>3. Kind[x] # "restart" => status[x] # "end"
    BY <2>1, <2>2 DEF Fixed
  <2>4. status'[x] = "actionbreak" /\ \A a \in Actions \ {x} : status'[a] = status[a]
    BY <1>2, <2>1
  <2>5. Steady(x)
    BY <1>2, <2>4 DEF Steady
  <2> QED BY <2>1, <2>3, <2>4, <2>5
<1>4. \A a \in Actions \ {x} : Bears(a)
  <2>1. \A a \in Actions \ {x} : Keeps(a)
    <3>1. Kind[x] = "leaf" => status[x] # "end"
      BY <1>3
    <3> QED BY <1>2, <1>3, <3>1, QuietUnspoilt, UnspoiltBears
  <2> QED BY <1>2, <2>1 DEF Bears
<1>5. Pc(x)' = {}
  BY <1>1, <1>2, <1>3, SteadyAlone, ReturnParts DEF FInv, NInv
<1>6. Fixed(x)'
  BY <1>2, <1>3, <1>5, OutFixed DEF Changed
<1> QED BY <1>1, <1>2, <1>3, <1>4, <1>6, ReturnFixes

LEMMA EndedFixes == FInv /\ Ended => Fixes'
<1> SUFFICES ASSUME FInv, Ended PROVE Fixes'
  OBVIOUS
<1>1. PICK x : x = This
  OBVIOUS
<1>2. /\ stack # <<>> /\ Top.pc = "perform" /\ status[x] = "end" /\ Return(0)
      /\ UNCHANGED <<status, count, lcount, state, ruleIndex, curstart, settled, made>>
      /\ function' = function
  BY <1>1 DEF Ended, At, ghosts, fields
<1>3. x \in Actions /\ Steady(x) /\ Rooted(x) /\ Pc(x) = {"perform"}
      /\ (Kind[x] # "restart" => Fixed(x))
  BY <1>1, <1>2, TopFixed DEF Steady
<1>4. \A a \in Actions : Bears(a)
  BY <1>2, <1>3, QuietUnspoilt, UnspoiltBears
<1>5. Pc(x)' = {}
  BY <1>1, <1>2, <1>3, SteadyAlone, ReturnParts DEF FInv, NInv
<1>6. Kind[x] # "restart" => "onceperfunc" \in Flags[x]
  BY <1>2, <1>3 DEF Fixed
<1>7. Kind[x] # "restart" => Fixed(x)'
  BY <1>2, <1>5, <1>6, OutFixed
<1>8. ASSUME Kind[x] # "restart" PROVE Clean(x)'
  <2>1. Kind[x] = "leaf"
    BY <1>3, <1>6, <1>8, TreesAssumption, ActionsAssumption
  <2>2. \A z \in Below[x] : z = x
    BY <1>3, <2>1, Ungrouped, TreesAssumption
  <2> QED BY <1>2, <2>1, <2>2, CleanParts
<1>9. 0 \in Nat \cup {-1} /\ 0 # -1
  OBVIOUS
<1> QED BY <1>1, <1>2, <1>3, <1>4, <1>7, <1>8, <1>9, ReturnFixes

LEMMA LoopFixes == FInv /\ Loop => Fixes'
<1> SUFFICES ASSUME FInv, Loop PROVE Fixes'
  OBVIOUS
<1>1. PICK x : x = This
  OBVIOUS
<1>2. /\ stack # <<>> /\ stack' = Under(Len(stack), "perform")
      /\ Top.pc = "applied" \/ (Top.pc = "perform" /\ status[x] = "actionbreak")
      /\ status' = [status EXCEPT ![x] = "repeat"]
      /\ UNCHANGED <<count, lcount, state, ruleIndex, curstart, settled, made>>
      /\ function' = function
  BY <1>1 DEF Loop, AppliedOnce, At, Going, Goto, ghosts
<1>3. /\ x \in Actions /\ Pc(x) = {Top.pc} /\ status \in [Actions -> Statuses]
      /\ Kind[x] # "restart" => Fixed(x)
  BY <1>1, <1>2, TopFixed
<1>4. status'[x] = "repeat" /\ \A a \in Actions \ {x} : status'[a] = status[a]
  BY <1>2, <1>3
<1>5. Steady(x)
  BY <1>2, <1>4 DEF Steady
<1>6. \A a \in Actions \ {x} : Bears(a)
  <2>1. status[x] = "end" /\ Kind[x] = "leaf" => FALSE
    <3>1. Top.pc = "applied" => ~(Pc(x) \subseteq {"perform"})
      BY <1>3
    <3> QED BY <1>2, <1>3, <3>1 DEF Fixed
  <2> QED BY <1>2, <1>5, <2>1, QuietUnspoilt, UnspoiltBears
<1>7. "perform" \in Pcs
  BY DEF Pcs
<1>8. Pc(x)' = {"perform"}
  BY <1>1, <1>2, <1>5, <1>7, SteadyAlone, TurnParts DEF FInv, NInv
<1>9. Fixed(x)'
  BY <1>4, <1>8, OutFixed
<1> QED BY <1>1, <1>2, <1>5, <1>6, <1>7, <1>9, TurnFixes

(* Applied without a change that asks for more, an action is clean.        *)
LEMMA AppliedClean ==
  ASSUME FInv, AppliedOnce, NEW x, x = This, Kind[x] # "restart",
         count[x] = 0 \/ ~Changed(x)
  PROVE  Clean(x)
<1>1. /\ stack # <<>>
      /\ Top.pc = "applied" \/ (Top.pc = "perform" /\ status[x] = "actionbreak")
  BY DEF AppliedOnce, At
<1>2. /\ x \in Actions /\ Pc(x) = {Top.pc} /\ Rooted(x) /\ Fixed(x)
      /\ count[x] \in Nat /\ lcount[x] \in Nat
      /\ Top.pc # "perform" => InPass(x)
  BY <1>1, TopFixed
<1>3. made[x] = count[x]
  BY AppliedOnceBusy DEF FInv, NInv
<1>4. ~(lcount[x] < count[x])
  BY <1>2 DEF Changed
<1>5. Top.pc = "applied"
  BY <1>1, <1>2, <1>4 DEF Fixed
<1>6. lcount[x] <= count[x] /\ (made[x] = lcount[x] => Tried(x))
  BY <1>2, <1>5 DEF Fixed
<1>7. Tried(x)
  BY <1>2, <1>3, <1>4, <1>6
<1> QED BY <1>2, <1>5, <1>7, TriedClean

LEMMA FinishClean == FInv /\ Finish /\ "repeatapply" \in Flags[This] => Clean(This)
<1> SUFFICES ASSUME FInv, Finish, "repeatapply" \in Flags[This] PROVE Clean(This)
  OBVIOUS
<1>1. PICK x : x = This
  OBVIOUS
<1>2. AppliedOnce /\ ~Again(x) /\ stack # <<>>
  BY <1>1 DEF Finish, AppliedOnce, At
<1>3. x \in Actions
  BY <1>1, <1>2, TopFixed
<1>4. ~Changed(x)
  BY <1>1, <1>2 DEF Again
<1>5. Kind[x] # "restart"
  BY <1>1, <1>3, TreesAssumption
<1> QED BY <1>1, <1>2, <1>4, <1>5, AppliedClean

LEMMA FinishFixes == FInv /\ Finish => Fixes'
<1> SUFFICES ASSUME FInv, Finish PROVE Fixes'
  OBVIOUS
<1>1. PICK x : x = This
  OBVIOUS
<1>2. PICK v : v = IF "onceperfunc" \in Flags[x] THEN "end" ELSE "start"
  OBVIOUS
<1>3. /\ stack # <<>> /\ AppliedOnce /\ Return(count[x])
      /\ Top.pc = "applied" \/ (Top.pc = "perform" /\ status[x] = "actionbreak")
      /\ status' = [status EXCEPT ![x] = v]
      /\ UNCHANGED <<count, lcount, state, ruleIndex, curstart, settled, made>>
      /\ function' = function
  BY <1>1, <1>2 DEF Finish, AppliedOnce, At, ghosts
<1>4. /\ x \in Actions /\ Pc(x) = {Top.pc} /\ status \in [Actions -> Statuses]
      /\ Rooted(x) /\ count[x] \in Nat
      /\ Kind[x] # "restart" => Fixed(x)
  BY <1>1, <1>3, TopFixed
<1>5. status'[x] = v /\ \A a \in Actions \ {x} : status'[a] = status[a]
  BY <1>3, <1>4
<1>6. Steady(x)
  BY <1>3, <1>5 DEF Steady
<1>7. \A a \in Actions : Keeps(a) /\ Bears(a)
  <2>1. status[x] = "end" /\ Kind[x] = "leaf" => FALSE
    <3>1. Top.pc = "applied" => ~(Pc(x) \subseteq {"perform"})
      BY <1>4
    <3> QED BY <1>3, <1>4, <3>1 DEF Fixed
  <2> QED BY <1>3, <1>6, <2>1, QuietUnspoilt, UnspoiltBears
<1>8. PICK r \in Nat : r = count[x]
  BY <1>4
<1>9. Pc(x)' = {}
  BY <1>1, <1>3, <1>6, <1>8, SteadyAlone, ReturnParts DEF FInv, NInv
<1>10. Fixed(x)'
  BY <1>2, <1>5, <1>9, OutFixed
<1>11. ASSUME Kind[x] # "restart", Owed(x, made) = 0 PROVE Clean(x)'
  <2>1. count[x] = 0
    BY <1>1, <1>3, <1>11, AppliedOnceBusy DEF Owed, FInv, NInv
  <2>2. Clean(x)
    BY <1>1, <1>3, <1>11, <2>1, AppliedClean
  <2>3. x \in Below[x] /\ Keeps(x)
    BY <1>4, <1>7, Members
  <2> QED BY <1>4, <2>2, <2>3, KeepsClean
<1> QED BY <1>1, <1>3, <1>6, <1>7, <1>8, <1>10, <1>11, ReturnFixes

LEMMA StartFixes == FInv /\ (Start \/ Repeat) => Fixes'
<1> SUFFICES ASSUME FInv, Start \/ Repeat PROVE Fixes'
  OBVIOUS
<1>1. PICK x : x = This
  OBVIOUS
<1>2. PICK pc : pc = IF Kind[x] = "restart" /\ curstart[x] = -1 THEN "applied" ELSE "next"
  OBVIOUS
<1>3. /\ stack # <<>> /\ Top.pc = "perform"
      /\ status[x] \in {"start", "breakstarthit", "repeat"} /\ status' = status
      /\ stack' = Under(Len(stack), pc)
      /\ \E p \in First(x) : state' = [state EXCEPT ![x] = p]
      /\ ruleIndex' = [ruleIndex EXCEPT ![x] = 1]
      /\ \/ /\ count' = [count EXCEPT ![x] = 0] /\ made' = [made EXCEPT ![x] = 0]
            /\ lcount' = [lcount EXCEPT ![x] = 0]
         \/ count' = count /\ made' = made /\ lcount' = [lcount EXCEPT ![x] = count[x]]
      /\ UNCHANGED <<curstart, settled>> /\ function' = function
  BY <1>1, <1>2 DEF Start, Repeat, Beginning, At, Entering, Going, Goto
<1>4. /\ x \in Actions /\ Pc(x) = {"perform"} /\ status[x] # "mid"
      /\ status \in [Actions -> Statuses] /\ state \in [Actions -> Nat \ {0}]
      /\ count \in [Actions -> Nat] /\ lcount \in [Actions -> Nat]
      /\ made \in [Actions -> Nat] /\ ruleIndex \in [Actions -> Nat]
  BY <1>1, <1>3, TopFixed
<1>5. Steady(x) /\ \A a \in Actions \ {x} : made'[a] = made[a]
  BY <1>3, <1>4 DEF Steady
<1>6. \A a \in Actions \ {x} : Bears(a)
  BY <1>3, <1>4, <1>5, QuietUnspoilt, UnspoiltBears
<1>7. pc \in Pcs
  BY <1>2 DEF Pcs
<1>8. Pc(x)' = {pc}
  BY <1>1, <1>3, <1>5, <1>7, SteadyAlone, TurnParts DEF FInv, NInv
<1>9. ASSUME Kind[x] # "restart" PROVE Fixed(x)'
  <2>1. pc = "next" /\ "applied" \notin Pc(x)' /\ "returned" \notin Pc(x)'
    BY <1>2, <1>8, <1>9
  <2>2. lcount'[x] = count'[x] /\ count'[x] \in Nat
    BY <1>3, <1>4
  <2>3. PICK p \in First(x) : state'[x] = p /\ ruleIndex'[x] = 1
    BY <1>3, <1>4
  <2>4. Tried(x)'
    <3>1. ASSUME NEW i \in DOMAIN List[x] PROVE ~Behind(x, i)'
      <4>1. Kind[x] # "pool" /\ i \in Nat \ {0}
        <5>1. i \in Nat \ {0} /\ (~IsGroup(x) => DOMAIN List[x] = {})
          BY <1>4, Members
        <5> QED BY <5>1 DEF IsGroup
      <4> QED BY <2>1, <2>3, <4>1 DEF Behind, First
    <3>2. ASSUME Kind[x] = "pool", NEW o \in 1 .. NumOps, NEW i \in RulesOn(x, o)'
          PROVE  ~Past(x, o, i)'
      <4>1. p \in OpFrom(1, Data(x)) /\ code' = code /\ NumOps \in Nat
        BY <1>3, <2>3, <3>2, ActionsAssumption DEF First, function
      <4>2. o < p => code[Data(x)][o] \in Absent
        BY <4>1 DEF OpFrom, Absent
      <4>3. ~(o < p)
        BY <4>1, <4>2 DEF RulesOn
      <4>4. i >= 1 /\ i \in Int
        <5>1. PICK n : n = Len(PerOp[code[Data(x)][o]])
          OBVIOUS
        <5>2. i \in 1 .. n
          BY <4>1, <5>1 DEF RulesOn
        <5> QED BY <5>2
      <4> QED BY <2>1, <2>3, <4>3, <4>4 DEF Past
    <3> QED BY <2>1, <3>1, <3>2 DEF Tried
  <2> QED BY <1>3, <2>2, <2>4, InFixed
<1> QED BY <1>1, <1>3, <1>5, <1>6, <1>7, <1>9, TurnFixes

(* An action that goes on with its pass, or is interrupted in it.          *)
LEMMA GoFixed ==
  ASSUME FInv, NEW x \in Actions, Kind[x] # "restart", Live(x), InPass(x), Keeps(x),
         made'[x] = made[x], lcount'[x] = lcount[x], count[x] <= count'[x],
         count'[x] \in Nat, status'[x] = status[x] \/ status'[x] = "mid",
         \A i \in DOMAIN List[x] : Behind(x, i)' => Behind(x, i),
         Kind[x] = "pool" =>
           \A o \in 1 .. NumOps : \A i \in RulesOn(x, o)' :
             Past(x, o, i)' => Past(x, o, i) \/ <<x, o, i>> \in settled',
         Kind[x] = "leaf" /\ "applied" \in Pc(x)' => <<x, 0, 0>> \in settled'
  PROVE  Fixed(x)'
<1>1. Fixed(x) /\ Rooted(x) /\ count[x] \in Nat /\ lcount[x] \in Nat
  BY LiveRooted DEF FInv, NInv, AInv, IInv, Types, CountsOK, Fixes
<1>2. status[x] # "end" /\ lcount[x] <= count[x]
  BY <1>1 DEF Fixed, InPass
<1>3. status[x] = "actionbreak" => lcount'[x] < count'[x]
  BY <1>1 DEF Fixed
<1>4. ASSUME made'[x] = lcount'[x] PROVE Tried(x)'
  <2>1. Tried(x)
    BY <1>1, <1>4 DEF Fixed
  <2>2. ASSUME NEW i \in DOMAIN List[x], Behind(x, i)' PROVE Clean(List[x][i])'
    <3>1. Clean(List[x][i]) /\ List[x][i] \in Below[x]
      BY <2>1, <2>2, Members DEF Tried
    <3> QED BY <1>1, <3>1, KeepsClean
  <2>3. ASSUME Kind[x] = "pool", NEW o \in 1 .. NumOps, NEW i \in RulesOn(x, o)', Past(x, o, i)'
        PROVE  <<x, o, i>> \in settled'
    <3>1. CASE Past(x, o, i)
      <4>1. i \in RulesOn(x, o)
        BY <2>3 DEF RulesOn, Keeps
      <4>2. <<x, o, i>> \in settled /\ <<x, o, i>>[1] = x /\ x \in Below[x]
        BY <2>1, <2>3, <3>1, <4>1, Members DEF Tried
      <4> QED BY <4>2 DEF Keeps
    <3> QED BY <2>3, <3>1
  <2> QED BY <2>2, <2>3 DEF Tried
<1>5. lcount'[x] <= count'[x]
  BY <1>1, <1>2
<1> QED BY <1>2, <1>3, <1>4, <1>5, InFixed

(* An action that has just made a change has not been through since.       *)
LEMMA ChangedFixed ==
  ASSUME FInv, stack # <<>>, NEW x, x = This, Top.pc = "next", Kind[x] \in {"leaf", "pool"},
         Change(x), lcount'[x] = lcount[x],
         status'[x] = status[x] \/ status'[x] = "mid"
  PROVE  Fixed(x)'
<1>1. /\ x \in Actions /\ Pc(x) = {"next"} /\ Kind[x] # "restart" /\ Fixed(x) /\ InPass(x)
      /\ made[x] \in Nat /\ count[x] \in Nat /\ lcount[x] \in Nat
      /\ count \in [Actions -> Nat] /\ made \in [Actions -> Nat]
  BY TopFixed
<1>2. made[x] = count[x]
  BY Ungrouped DEF FInv, NInv
<1>3. \E i \in DOMAIN stack : stack[i].action = x
  <2>1. DOMAIN stack = 1 .. Len(stack)
    BY FrameTypes DEF FInv, NInv, AInv
  <2> QED BY <1>1, <2>1 DEF Pc
<1>4. PICK k \in 1 .. budget : made'[x] = made[x] + k /\ count'[x] = count[x] + k
  <2>1. PICK k \in 1 .. budget : ChangeBy(x, k)
    BY DEF Change
  <2> QED BY <1>1, <1>3, <2>1 DEF ChangeBy
<1>5. ~(Pc(x) \subseteq {"perform"})
  BY <1>1
<1>6. status[x] # "end" /\ lcount[x] <= count[x]
  BY <1>1, <1>5 DEF Fixed
<1>7. lcount'[x] < count'[x] /\ made'[x] # lcount'[x] /\ k \in Nat \ {0}
  <2>1. k \in Nat \ {0}
    BY DEF FInv, NInv, AInv, IInv, Types, FunctionOK
  <2> QED BY <1>1, <1>2, <1>4, <1>6, <2>1
<1>8. lcount'[x] <= count'[x]
  BY <1>1, <1>4, <1>6, <1>7
<1> QED BY <1>6, <1>7, <1>8, InFixed

LEMMA ResumeFixes == FInv /\ Resume => Fixes'
<1> SUFFICES ASSUME FInv, Resume PROVE Fixes'
  OBVIOUS
<1>1. PICK x : x = This
  OBVIOUS
<1>2. PICK pc : pc = IF Kind[x] = "restart" /\ curstart[x] = -1 THEN "applied" ELSE "next"
  OBVIOUS
<1>3. /\ stack # <<>> /\ Top.pc = "perform" /\ status[x] = "mid"
      /\ stack' = Under(Len(stack), pc)
      /\ UNCHANGED <<status, count, lcount, state, ruleIndex, curstart, settled, made>>
      /\ function' = function
  BY <1>1, <1>2 DEF Resume, At, Entering, Going, Goto
<1>4. /\ x \in Actions /\ Live(x) /\ count[x] \in Nat /\ InPass(x)
  BY <1>1, <1>3, TopFixed DEF InPass
<1>5. Steady(x)
  BY <1>3 DEF Steady
<1>6. \A a \in Actions : Keeps(a) /\ Bears(a)
  BY <1>3, <1>5, QuietUnspoilt, UnspoiltBears
<1>7. pc \in Pcs
  BY <1>2 DEF Pcs
<1>8. Pc(x)' = {pc}
  BY <1>1, <1>3, <1>5, <1>7, SteadyAlone, TurnParts DEF FInv, NInv
<1>9. ASSUME Kind[x] # "restart" PROVE Fixed(x)'
  <2>1. "applied" \notin Pc(x)' /\ "returned" \notin Pc(x)'
    BY <1>2, <1>8, <1>9
  <2>2. \A i \in DOMAIN List[x] : Behind(x, i)' => Behind(x, i)
    BY <1>3, <2>1 DEF Behind
  <2>3. \A o, i : Past(x, o, i)' => Past(x, o, i)
    BY <1>3, <2>1 DEF Past
  <2>4. count[x] <= count'[x] /\ count'[x] \in Nat
    BY <1>3, <1>4
  <2> QED BY <1>3, <1>4, <1>6, <1>9, <2>1, <2>2, <2>3, <2>4, GoFixed
<1> QED BY <1>1, <1>3, <1>5, <1>6, <1>7, <1>9, TurnFixes

LEMMA GroupMemberFixes == FInv /\ GroupMember => Fixes'
<1> SUFFICES ASSUME FInv, GroupMember PROVE Fixes'
  OBVIOUS
<1>1. PICK x : x = This
  OBVIOUS
<1>2. /\ stack # <<>> /\ Top.pc = "returned" /\ IsGroup(x) /\ ret >= 0
      /\ count' = [count EXCEPT ![x] = @ + ret]
      /\ state' = [state EXCEPT ![x] = @ + 1]
      /\ \/ status' = [status EXCEPT ![x] = "mid"] /\ Return(-1)
         \/ status' = status /\ stack' = Under(Len(stack), "next")
      /\ UNCHANGED <<lcount, ruleIndex, curstart, settled, made>> /\ function' = function
  BY <1>1 DEF GroupMember, At, Partial, Going, Goto, ghosts
<1>3. /\ x \in Actions /\ Live(x) /\ Pc(x) = {"returned"} /\ InPass(x)
      /\ status \in [Actions -> Statuses] /\ state \in [Actions -> Nat \ {0}]
      /\ count \in [Actions -> Nat]
  BY <1>1, <1>2, TopFixed
<1>4. /\ \A a \in Actions \ {x} : /\ count'[a] = count[a] /\ state'[a] = state[a]
                                  /\ status'[a] = status[a]
      /\ count'[x] = count[x] + ret /\ state'[x] = state[x] + 1
      /\ status'[x] = status[x] \/ status'[x] = "mid"
  BY <1>2, <1>3
<1>5. Steady(x)
  BY <1>2, <1>4 DEF Steady
<1>6. \A a \in Actions : Keeps(a) /\ Bears(a)
  BY <1>2, <1>5, QuietUnspoilt, UnspoiltBears DEF IsGroup
<1>7. "next" \in Pcs
  BY DEF Pcs
<1>8. Pc(x)' \subseteq {"next"}
  <2>1. CASE Return(-1)
    BY <1>1, <1>2, <1>5, <2>1, SteadyAlone, ReturnParts DEF FInv, NInv
  <2>2. CASE stack' = Under(Len(stack), "next")
    BY <1>1, <1>2, <1>5, <1>7, <2>2, SteadyAlone, TurnParts DEF FInv, NInv
  <2> QED BY <1>2, <2>1, <2>2
<1>9. ASSUME Kind[x] # "restart" PROVE Fixed(x)'
  <2>1. "applied" \notin Pc(x)' /\ "returned" \notin Pc(x)'
    BY <1>8
  <2>2. ASSUME NEW i \in DOMAIN List[x], Behind(x, i)' PROVE Behind(x, i)
    <3>1. i < state[x] + 1 /\ i \in Nat \ {0} /\ state[x] \in Nat
      BY <1>3, <1>4, <2>1, <2>2, Members DEF Behind
    <3>2. i < state[x] \/ i = state[x]
      BY <3>1
    <3> QED BY <1>2, <1>3, <3>2 DEF Behind
  <2>3. count[x] <= count'[x] /\ count'[x] \in Nat
    <3>1. ret \in Nat /\ count[x] \in Nat
      BY <1>2, <1>3 DEF FInv, NInv, AInv, IInv, Types, StackOK
    <3> QED BY <1>4, <3>1
  <2> QED BY <1>2, <1>3, <1>4, <1>6, <1>9, <2>1, <2>2, <2>3, GoFixed DEF IsGroup
<1>10. CASE Return(-1)
  BY <1>1, <1>2, <1>5, <1>6, <1>9, <1>10, ReturnFixes
<1>11. CASE stack' = Under(Len(stack), "next")
  BY <1>1, <1>2, <1>5, <1>6, <1>7, <1>9, <1>11, TurnFixes
<1> QED BY <1>2, <1>10, <1>11

LEMMA GroupPartialFixes == FInv /\ GroupPartial => Fixes'
<1> SUFFICES ASSUME FInv, GroupPartial PROVE Fixes'
  OBVIOUS
<1>1. PICK x : x = This
  OBVIOUS
<1>2. /\ stack # <<>> /\ Top.pc = "returned" /\ IsGroup(x) /\ Return(-1)
      /\ status' = [status EXCEPT ![x] = "mid"]
      /\ UNCHANGED <<count, lcount, state, ruleIndex, curstart, settled, made>>
      /\ function' = function
  BY <1>1 DEF GroupPartial, At, Partial, ghosts
<1>3. /\ x \in Actions /\ Live(x) /\ InPass(x)
      /\ status \in [Actions -> Statuses] /\ count[x] \in Nat
  BY <1>1, <1>2, TopFixed
<1>4. status'[x] = "mid" /\ \A a \in Actions \ {x} : status'[a] = status[a]
  BY <1>2, <1>3
<1>5. Steady(x)
  BY <1>2, <1>4 DEF Steady
<1>6. \A a \in Actions : Keeps(a) /\ Bears(a)
  BY <1>2, <1>5, QuietUnspoilt, UnspoiltBears DEF IsGroup
<1>7. Pc(x)' = {}
  BY <1>1, <1>2, <1>5, SteadyAlone, ReturnParts DEF FInv, NInv
<1>8. ASSUME Kind[x] # "restart" PROVE Fixed(x)'
  <2>1. \A i \in DOMAIN List[x] : Behind(x, i)' => Behind(x, i)
    BY <1>2, <1>7 DEF Behind
  <2>2. count[x] <= count'[x] /\ count'[x] \in Nat
    BY <1>2, <1>3
  <2> QED BY <1>2, <1>3, <1>4, <1>6, <1>7, <1>8, <2>1, <2>2, GoFixed DEF IsGroup
<1> QED BY <1>1, <1>2, <1>5, <1>6, <1>8, ReturnFixes

(* A group past its members, and a pool past its ops.                      *)
LEMMA EndFixes ==
  FInv /\ (GroupDone \/ NoRestart \/ NoRestartInRecovery \/ TooManyRestarts \/ PoolDone)
    => Fixes'
<1> SUFFICES ASSUME FInv, GroupDone \/ NoRestart \/ NoRestartInRecovery
                          \/ TooManyRestarts \/ PoolDone
             PROVE  Fixes'
  OBVIOUS
<1>1. PICK x : x = This
  OBVIOUS
<1>2. /\ stack # <<>> /\ Top.pc = "next"
      /\ (IsGroup(x) /\ state[x] > Len(List[x])) \/ Kind[x] = "pool"
      /\ \E v : curstart' = [curstart EXCEPT ![x] = v]
      /\ stack' = Under(Len(stack), "applied")
      /\ UNCHANGED <<status, count, made, state>>
  BY <1>1, EndParts DEF FInv, NInv, AInv
<1>3. /\ UNCHANGED <<lcount, ruleIndex, settled>> /\ function' = function
      /\ Kind[x] = "pool" => state[x] > NumOps
  <2>1. CASE GroupDone \/ NoRestart \/ NoRestartInRecovery \/ TooManyRestarts
    BY <1>1, <2>1 DEF GroupDone, NoRestart, NoRestartInRecovery, TooManyRestarts,
                      RestartWanted, AtEnd, IsGroup, fields, ghosts
  <2>2. CASE PoolDone
    BY <1>1, <2>2 DEF PoolDone, ThisOp, fields, ghosts
  <2> QED BY <2>1, <2>2
<1>4. /\ x \in Actions /\ Live(x) /\ InPass(x) /\ count[x] \in Nat
      /\ state \in [Actions -> Nat \ {0}] /\ curstart \in [Actions -> Nat \cup {-1}]
  BY <1>1, <1>2, TopFixed
<1>5. Steady(x)
  <2>1. \A a \in Actions \ {x} : curstart'[a] = curstart[a]
    BY <1>2, <1>4
  <2> QED BY <1>2, <1>3, <2>1 DEF Steady
<1>6. \A a \in Actions : Keeps(a) /\ Bears(a)
  BY <1>2, <1>3, <1>5, QuietUnspoilt, UnspoiltBears DEF IsGroup
<1>7. "applied" \in Pcs
  BY DEF Pcs
<1>8. ASSUME Kind[x] # "restart" PROVE Fixed(x)'
  <2>1. ASSUME NEW i \in DOMAIN List[x] PROVE Behind(x, i)
    <3>1. /\ i \in Nat \ {0} /\ i <= Len(List[x]) /\ state[x] \in Nat \ {0}
          /\ (~IsGroup(x) => DOMAIN List[x] = {})
      BY <1>4, Members
    <3>2. Len(List[x]) \in Nat
      BY <1>4, Assumed
    <3>3. IsGroup(x)
      BY <3>1
    <3>4. state[x] > Len(List[x])
      BY <1>2, <3>3 DEF IsGroup
    <3> QED BY <3>1, <3>2, <3>4 DEF Behind
  <2>2. ASSUME Kind[x] = "pool", NEW o \in 1 .. NumOps PROVE \A i : Past(x, o, i)
    <3>1. state[x] > NumOps /\ state[x] \in Nat \ {0} /\ NumOps \in Nat
      BY <1>3, <1>4, <2>2, ActionsAssumption
    <3> QED BY <3>1 DEF Past
  <2>3. count[x] <= count'[x] /\ count'[x] \in Nat
    BY <1>2, <1>4
  <2> QED BY <1>2, <1>3, <1>4, <1>6, <1>8, <2>1, <2>2, <2>3, GoFixed DEF IsGroup
<1> QED BY <1>1, <1>2, <1>5, <1>6, <1>7, <1>8, TurnFixes

LEMMA StagedFixes == FInv /\ Staged => Fixes'
<1> SUFFICES ASSUME FInv, Staged PROVE Fixes'
  OBVIOUS
<1>1. PICK x : x = This
  OBVIOUS
<1>2. /\ stack # <<>> /\ Top.pc = "returned" /\ Kind[x] = "leaf"
      /\ stack' = Under(Len(stack), "next")
      /\ UNCHANGED <<status, count, lcount, state, ruleIndex, curstart, settled, made>>
      /\ function' = function
  BY <1>1 DEF Staged, In, At, Goto, fields, ghosts
<1>3. x \in Actions /\ Live(x) /\ InPass(x) /\ count[x] \in Nat
  BY <1>1, <1>2, TopFixed
<1>4. Steady(x)
  BY <1>2 DEF Steady
<1>5. \A a \in Actions : Keeps(a) /\ Bears(a)
  BY <1>2, <1>4, QuietUnspoilt, UnspoiltBears
<1>6. "next" \in Pcs
  BY DEF Pcs
<1>7. Pc(x)' = {"next"}
  BY <1>1, <1>2, <1>4, <1>6, SteadyAlone, TurnParts DEF FInv, NInv
<1>8. Fixed(x)'
  <2>1. DOMAIN List[x] = {}
    BY <1>2, <1>3, Members DEF IsGroup
  <2>2. count[x] <= count'[x] /\ count'[x] \in Nat
    BY <1>2, <1>3
  <2> QED BY <1>2, <1>3, <1>5, <1>7, <2>1, <2>2, GoFixed
<1> QED BY <1>1, <1>2, <1>4, <1>5, <1>6, <1>8, TurnFixes

LEMMA LeafApplyFixes == FInv /\ LeafApply => Fixes'
<1> SUFFICES ASSUME FInv, LeafApply PROVE Fixes'
  OBVIOUS
<1>1. PICK x : x = This
  OBVIOUS
<1>2. /\ stack # <<>> /\ Top.pc = "next" /\ Kind[x] = "leaf"
      /\ \/ Change(x)
         \/ settled' = settled \cup {<<x, 0, 0>>} /\ count' = count /\ made' = made
      /\ stack' = Under(Len(stack), "applied")
      /\ UNCHANGED <<status, lcount, state, ruleIndex, curstart, code>>
  BY <1>1 DEF LeafApply, In, At, Going, Goto
<1>3. /\ x \in Actions /\ Live(x) /\ InPass(x) /\ count[x] \in Nat
      /\ count \in [Actions -> Nat]
  BY <1>1, <1>2, TopFixed
<1>4. "applied" \in Pcs
  BY DEF Pcs
<1>5. CASE Change(x)
  <2>1. Steady(x)
    <3>1. \A a \in Actions \ {x} : count'[a] = count[a]
      BY <1>3, <1>5 DEF Change, ChangeBy
    <3> QED BY <1>2, <3>1 DEF Steady
  <2>2. \A a \in Actions \ {x} : Live(a) /\ Kind[a] # "restart" => Bears(a)
    BY <1>1, <1>2, <1>5, <2>1, ChangeBears
  <2>3. Fixed(x)'
    BY <1>1, <1>2, <1>5, ChangedFixed
  <2> QED BY <1>1, <1>2, <1>4, <2>1, <2>2, <2>3, TurnFixes
<1>6. CASE settled' = settled \cup {<<x, 0, 0>>} /\ count' = count /\ made' = made
  <2>1. Steady(x)
    BY <1>2, <1>6 DEF Steady
  <2>2. Unspoilt
    BY <1>2, <1>6 DEF Unspoilt
  <2>3. \A a \in Actions : Keeps(a) /\ Bears(a)
    BY <1>2, <1>6, <2>1, <2>2, UnspoiltBears
  <2>4. Fixed(x)'
    <3>1. DOMAIN List[x] = {}
      BY <1>2, <1>3, Members DEF IsGroup
    <3>2. count[x] <= count'[x] /\ count'[x] \in Nat
      BY <1>3, <1>6
    <3>3. <<x, 0, 0>> \in settled'
      BY <1>6
    <3> QED BY <1>2, <1>3, <1>6, <2>3, <3>1, <3>2, <3>3, GoFixed
  <2> QED BY <1>1, <1>2, <1>4, <2>1, <2>3, <2>4, TurnFixes
<1> QED BY <1>2, <1>5, <1>6

(* A step within a pool that counts nothing.                               *)
LEMMA PoolFixes ==
  ASSUME FInv, NEW x, x = This, stack # <<>>, Top.pc = "next", Kind[x] = "pool",
         UNCHANGED <<stack, status, count, lcount, curstart, made>>,
         \A a \in Actions \ {x} : state'[a] = state[a] /\ ruleIndex'[a] = ruleIndex[a],
         Unspoilt,
         \A o \in 1 .. NumOps : \A i \in RulesOn(x, o)' :
           (Past(x, o, i)' /\ "applied" \notin Pc(x)') =>
             Past(x, o, i) \/ <<x, o, i>> \in settled'
  PROVE  Fixes'
<1>1. /\ x \in Actions /\ Live(x) /\ InPass(x) /\ count[x] \in Nat
  BY TopFixed
<1>2. Steady(x)
  BY DEF Steady
<1>3. \A a \in Actions : Keeps(a) /\ Bears(a)
  BY <1>2, UnspoiltBears
<1>4. "next" \in Pcs
  BY DEF Pcs
<1>5. Pc(x)' = {"next"}
  BY <1>2, <1>4, SteadyAlone, TurnParts DEF FInv, NInv
<1>6. Fixed(x)'
  <2>1. DOMAIN List[x] = {}
    BY <1>1, Members DEF IsGroup
  <2>2. count[x] <= count'[x] /\ count'[x] \in Nat
    BY <1>1
  <2>3. \A o \in 1 .. NumOps : \A i \in RulesOn(x, o)' :
          Past(x, o, i)' => Past(x, o, i) \/ <<x, o, i>> \in settled'
    BY <1>5
  <2> QED BY <1>1, <1>3, <2>1, <2>2, <2>3, GoFixed
<1> QED BY <1>2, <1>3, <1>4, <1>6, TurnFixes

(* What a pool leaves behind when it goes on to the next op.               *)
LEMMA NextOpPast ==
  ASSUME NEW x \in Actions, NEW s \in Nat \ {0}, s = state[x], NEW p \in OpFrom(s + 1, Data(x)),
         state'[x] = p, ruleIndex'[x] = 1, ruleIndex[x] \in Nat,
         \A o \in 1 .. NumOps :
           code'[Data(x)][o] \notin Absent => code'[Data(x)][o] = code[Data(x)][o],
         \A i \in RulesOn(x, s)' : i < ruleIndex[x],
         NEW o \in 1 .. NumOps, NEW i \in RulesOn(x, o)',
         Past(x, o, i)', "applied" \notin Pc(x)'
  PROVE  Past(x, o, i)
<1>1. i \in Int /\ i >= 1 /\ i \in RulesOn(x, o) /\ NumOps \in Nat
  <2>1. i \in RulesOn(x, o)
    BY DEF RulesOn
  <2>2. PICK n : n = Len(PerOp[code[Data(x)][o]])
    OBVIOUS
  <2>3. i \in 1 .. n
    BY <2>1, <2>2 DEF RulesOn
  <2> QED BY <2>1, <2>3, ActionsAssumption
<1>2. p \in Int /\ o < p
  <2>1. p \in Int
    BY <1>1 DEF OpFrom
  <2> QED BY <1>1, <2>1 DEF Past
<1>3. ~(o \in s + 1 .. p - 1)
  <2>1. code[Data(x)][o] \notin Absent
    BY <1>1 DEF RulesOn
  <2> QED BY <2>1 DEF OpFrom, Absent
<1>4. o < s \/ o = s
  BY <1>1, <1>2, <1>3
<1> QED BY <1>4 DEF Past

LEMMA OpFixes == FInv /\ (OpDead \/ OpDone) => Fixes'
<1> SUFFICES ASSUME FInv, OpDead \/ OpDone PROVE Fixes'
  OBVIOUS
<1>1. PICK x : x = This
  OBVIOUS
<1>2. PICK s : s = state[x]
  OBVIOUS
<1>3. PICK f : f = Data(x)
  OBVIOUS
<1>4. /\ stack # <<>> /\ Top.pc = "next" /\ Kind[x] = "pool"
      /\ UNCHANGED <<stack, status, count, lcount, curstart, made, settled>>
      /\ \E p \in OpFrom(s + 1, f) : state' = [state EXCEPT ![x] = p]
      /\ ruleIndex' = [ruleIndex EXCEPT ![x] = 1]
      /\ \/ code' = [code EXCEPT ![f] = [@ EXCEPT ![s] = "gone"]]
         \/ code' = code /\ code[f][s] # "dead" /\ ruleIndex[x] > Len(PerOp[code[f][s]])
      /\ s <= NumOps
  <2>1. CASE OpDead
    BY <1>1, <1>2, <1>3, <2>1 DEF OpDead, OnOp, In, At, NextOp, ThisOp, ThisCode, ghosts
  <2>2. CASE OpDone
    BY <1>1, <1>2, <1>3, <2>2 DEF OpDone, OnOp, In, At, NextOp, ThisOp, ThisCode, ghosts,
                                  function
  <2> QED BY <2>1, <2>2
<1>5. /\ x \in Actions /\ state \in [Actions -> Nat \ {0}] /\ ruleIndex \in [Actions -> Nat]
      /\ f \in Functions /\ code \in [Functions -> [1 .. NumOps -> Codes \cup Absent]]
      /\ NumOps \in Nat
  BY <1>1, <1>3, <1>4, TopFixed, ActionsAssumption
     DEF Data, Functions, FInv, NInv, AInv, IInv, Types, FunctionOK
<1>6. PICK p \in OpFrom(s + 1, f) :
        /\ state'[x] = p /\ ruleIndex'[x] = 1
        /\ \A a \in Actions \ {x} : state'[a] = state[a] /\ ruleIndex'[a] = ruleIndex[a]
  BY <1>4, <1>5
<1>7. s \in 1 .. NumOps
  BY <1>2, <1>4, <1>5
<1>8. /\ \A g \in Functions : \A o \in 1 .. NumOps :
           code'[g][o] \notin Absent => code'[g][o] = code[g][o]
      /\ \A i \in RulesOn(x, s)' : i < ruleIndex[x]
  <2>1. CASE code' = [code EXCEPT ![f] = [@ EXCEPT ![s] = "gone"]]
    <3>1. /\ \A o \in 1 .. NumOps : code'[f][o] = IF o = s THEN "gone" ELSE code[f][o]
          /\ \A g \in Functions \ {f} : code'[g] = code[g]
      BY <1>5, <1>7, <2>1
    <3>2. \A g \in Functions : \A o \in 1 .. NumOps :
            code'[g][o] \notin Absent => code'[g][o] = code[g][o]
      BY <3>1 DEF Absent
    <3>3. RulesOn(x, s)' = {}
      BY <1>3, <1>7, <3>1 DEF RulesOn, Absent
    <3> QED BY <3>2, <3>3
  <2>2. CASE code' = code /\ code[f][s] # "dead" /\ ruleIndex[x] > Len(PerOp[code[f][s]])
    <3>1. ASSUME NEW i \in RulesOn(x, s)' PROVE i < ruleIndex[x]
      <4>1. code[f][s] \notin Absent /\ i \in 1 .. Len(PerOp[code[f][s]])
        BY <1>3, <2>2, <3>1 DEF RulesOn
      <4>2. code[f][s] \in Codes
        BY <1>5, <1>7, <4>1
      <4>3. PerOp[code[f][s]] \in Seq(Rules)
        BY <4>2, ActionsAssumption
      <4>4. PICK n : n = Len(PerOp[code[f][s]])
        OBVIOUS
      <4>5. n \in Nat /\ ruleIndex[x] \in Nat /\ ruleIndex[x] > n /\ i \in 1 .. n
        BY <1>5, <2>2, <4>1, <4>3, <4>4
      <4> QED BY <4>5
    <3> QED BY <2>2, <3>1
  <2> QED BY <1>4, <2>1, <2>2
<1>9. Unspoilt
  BY <1>4, <1>8 DEF Unspoilt
<1>10. ASSUME NEW o \in 1 .. NumOps, NEW i \in RulesOn(x, o)',
              Past(x, o, i)', "applied" \notin Pc(x)'
       PROVE  Past(x, o, i)
  <2>1. s \in Nat \ {0} /\ ruleIndex[x] \in Nat /\ p \in OpFrom(s + 1, Data(x))
    BY <1>2, <1>3, <1>5, <1>6
  <2>2. \A q \in 1 .. NumOps :
          code'[Data(x)][q] \notin Absent => code'[Data(x)][q] = code[Data(x)][q]
    BY <1>3, <1>5, <1>8
  <2> QED BY <1>2, <1>5, <1>6, <1>8, <1>10, <2>1, <2>2, NextOpPast
<1> QED BY <1>1, <1>4, <1>6, <1>9, <1>10, PoolFixes

LEMMA RuleIdleFixes == FInv /\ RuleIdle => Fixes'
<1> SUFFICES ASSUME FInv, RuleIdle PROVE Fixes'
  OBVIOUS
<1>1. PICK x : x = This
  OBVIOUS
<1>2. /\ stack # <<>> /\ Top.pc = "next" /\ Kind[x] = "pool"
      /\ UNCHANGED <<stack, status, count, lcount, curstart, made, state>> /\ code' = code
      /\ settled' = settled \cup {<<x, state[x], ruleIndex[x]>>}
      /\ ruleIndex' = [ruleIndex EXCEPT ![x] = @ + 1]
  BY <1>1 DEF RuleIdle, Trying, OnOp, In, At, ThisOp, function
<1>3. /\ x \in Actions /\ ruleIndex \in [Actions -> Nat]
  BY <1>1, <1>2, TopFixed
<1>4. ruleIndex'[x] = ruleIndex[x] + 1 /\ \A a \in Actions \ {x} : ruleIndex'[a] = ruleIndex[a]
  BY <1>2, <1>3
<1>5. Unspoilt
  BY <1>2 DEF Unspoilt
<1>6. ASSUME NEW o \in 1 .. NumOps, NEW i \in RulesOn(x, o)',
             Past(x, o, i)', "applied" \notin Pc(x)'
      PROVE  Past(x, o, i) \/ <<x, o, i>> \in settled'
  <2>1. PICK n : n = Len(PerOp[code[Data(x)][o]])
    OBVIOUS
  <2>2. i \in 1 .. n
    BY <1>2, <2>1 DEF RulesOn
  <2>3. o < state[x] \/ (o = state[x] /\ i < ruleIndex[x] + 1)
    BY <1>2, <1>4, <1>6 DEF Past
  <2>4. ruleIndex[x] \in Nat /\ i \in Int
    BY <1>3, <2>2
  <2>5. o < state[x] \/ (o = state[x] /\ i < ruleIndex[x]) \/ (o = state[x] /\ i = ruleIndex[x])
    BY <2>3, <2>4
  <2> QED BY <1>2, <2>5 DEF Past
<1> QED BY <1>1, <1>2, <1>4, <1>5, <1>6, PoolFixes

LEMMA RuleAppliesFixes == FInv /\ RuleApplies => Fixes'
<1> SUFFICES ASSUME FInv, RuleApplies PROVE Fixes'
  OBVIOUS
<1>1. PICK x : x = This
  OBVIOUS
<1>2. /\ stack # <<>> /\ Top.pc = "next" /\ Kind[x] = "pool" /\ Change(x)
      /\ curstart' = curstart
      /\ \/ /\ status' = [status EXCEPT ![x] = "mid"] /\ Return(-1) /\ state' = state
         \/ /\ status' = status /\ stack' = stack
            /\ state' = state \/ \E p : state' = [state EXCEPT ![x] = p]
  BY <1>1, RuleAppliesParts
<1>3. /\ x \in Actions /\ state \in [Actions -> Nat \ {0}] /\ status \in [Actions -> Statuses]
      /\ ruleIndex \in [Actions -> Nat] /\ count \in [Actions -> Nat]
      /\ code \in [Functions -> [1 .. NumOps -> Codes \cup Absent]]
  BY <1>1, <1>2, TopFixed DEF FInv, NInv, AInv, IInv, Types, FunctionOK
<1>4. PICK ops \in Rewritten(code[Data(This)]) :
        /\ code' = [code EXCEPT ![Data(This)] = ops]
        /\ IF Breaking(ThisRule, OnAction)
           THEN ruleIndex' = [ruleIndex EXCEPT ![This] = @ + 1]
           ELSE /\ CASE ops[ThisOp] = "dead" -> NextOp
                     [] ops[ThisOp] = ThisCode ->
                          /\ ruleIndex' = [ruleIndex EXCEPT ![This] = @ + 1]
                          /\ UNCHANGED state
                     [] OTHER ->
                          /\ ruleIndex' = [ruleIndex EXCEPT ![This] = 1]
                          /\ UNCHANGED state
                /\ UNCHANGED <<status, breakpoint, client, stack, ret>>
        /\ lcount' = lcount
  BY DEF RuleApplies
<1>5. \E v : ruleIndex' = [ruleIndex EXCEPT ![x] = v]
  <2>1. CASE Breaking(ThisRule, OnAction)
    BY <1>1, <1>4, <2>1
  <2>2. CASE ~Breaking(ThisRule, OnAction) /\ ops[ThisOp] = "dead"
    BY <1>1, <1>4, <2>2 DEF NextOp
  <2>3. CASE /\ ~Breaking(ThisRule, OnAction) /\ ops[ThisOp] # "dead"
             /\ ops[ThisOp] = ThisCode
    BY <1>1, <1>4, <2>3
  <2>4. CASE /\ ~Breaking(ThisRule, OnAction) /\ ops[ThisOp] # "dead"
             /\ ops[ThisOp] # ThisCode
    BY <1>1, <1>4, <2>4
  <2> QED BY <2>1, <2>2, <2>3, <2>4
<1>6. \A f \in Functions \ {Data(x)} : code'[f] = code[f]
  BY <1>1, <1>3, <1>4
<1>7. Steady(x) /\ (status'[x] = status[x] \/ status'[x] = "mid")
  <2>1. \A a \in Actions \ {x} : count'[a] = count[a]
    BY <1>2, <1>3 DEF Change, ChangeBy
  <2>2. \A a \in Actions \ {x} : state'[a] = state[a]
    BY <1>2, <1>3
  <2>3. /\ \A a \in Actions \ {x} : status'[a] = status[a]
        /\ status'[x] = status[x] \/ status'[x] = "mid"
    BY <1>2, <1>3
  <2>4. \A a \in Actions \ {x} : ruleIndex'[a] = ruleIndex[a]
    BY <1>3, <1>5
  <2> QED BY <1>2, <1>4, <2>1, <2>2, <2>3, <2>4 DEF Steady
<1>8. status[x] = "end" => FALSE
  <2>1. Pc(x) = {"next"} /\ (Kind[x] # "restart" => Fixed(x))
    BY <1>1, <1>2, TopFixed
  <2>2. ~(Pc(x) \subseteq {"perform"})
    BY <2>1
  <2> QED BY <1>2, <2>1, <2>2 DEF Fixed
<1>9. \A a \in Actions \ {x} : Live(a) /\ Kind[a] # "restart" => Bears(a)
  BY <1>1, <1>2, <1>6, <1>7, <1>8, ChangeBears
<1>10. Fixed(x)'
  BY <1>1, <1>2, <1>4, <1>7, ChangedFixed
<1>11. CASE Return(-1)
  BY <1>1, <1>2, <1>7, <1>9, <1>10, <1>11, ReturnFixes
<1>12. CASE stack' = stack
  <2>1. PICK pc \in Pcs : pc = Top.pc
    BY <1>2 DEF Pcs
  <2> QED BY <1>1, <1>2, <1>7, <1>9, <1>10, <1>12, <2>1, TurnFixes
<1> QED BY <1>2, <1>11, <1>12

(* A step that changes nothing but what is called.                         *)
LEMMA KeptFixes ==
  ASSUME FInv, UNCHANGED <<status, count, lcount, state, ruleIndex, curstart, code, made,
                           settled>>,
         \A a \in Actions : Live(a)' =>
           /\ Live(a) /\ "returned" \notin Pc(a)'
           /\ \/ Pc(a)' = Pc(a) \/ Pc(a)' \subseteq {"perform"}
              \/ Pc(a) = {"staging"} /\ Pc(a)' = {"next"}
  PROVE  Fixes'
<1> SUFFICES ASSUME NEW a \in Actions, Live(a)', Kind[a] # "restart" PROVE Fixed(a)'
  BY DEF Fixes
<1>1. Live(a) /\ Fixed(a) /\ Rooted(a)
  BY LiveRooted DEF FInv, Fixes
<1>2. PICK x : x = This
  OBVIOUS
<1>3. Bears(a)
  <2>1. Steady(x) /\ Unspoilt
    BY DEF Steady, Unspoilt
  <2> QED BY <2>1, UnspoiltBears
<1>4. InPass(a)' => InPass(a)
  <2>1. CASE Pc(a)' = Pc(a) \/ Pc(a)' \subseteq {"perform"}
    BY <2>1 DEF InPass
  <2>2. CASE Pc(a) = {"staging"}
    BY <2>2 DEF InPass
  <2> QED BY <2>1, <2>2
<1>5. "applied" \in Pc(a)' => "applied" \in Pc(a)
  <2>1. "applied" \notin {"perform"} /\ "applied" \notin {"next"}
    OBVIOUS
  <2> QED BY <2>1
<1>6. Pc(a) \subseteq {"perform"} => Pc(a)' \subseteq {"perform"}
  <2>1. ~({"staging"} \subseteq {"perform"})
    OBVIOUS
  <2> QED BY <2>1
<1> QED BY <1>1, <1>3, <1>4, <1>5, <1>6, OtherFixed

LEMMA GroupNextFixes == FInv /\ GroupNext => Fixes'
<1> SUFFICES ASSUME FInv, GroupNext PROVE Fixes'
  OBVIOUS
<1>1. UNCHANGED <<status, count, lcount, state, ruleIndex, curstart, code, made, settled>>
  BY DEF GroupNext, fields, function, ghosts
<1>2. stack # <<>>
  BY GroupNextPcs DEF FInv, NInv
<1>3. PICK b \in Actions :
        /\ b # JumpTable /\ Pc(b) = {} /\ Pc(b)' = {"perform"}
        /\ \A a \in Actions \ {b} : Pc(a)' = Pc(a) /\ "returned" \notin Pc(a)
        /\ Pc(JumpTable)' = Pc(JumpTable)
  BY GroupNextPcs DEF FInv, NInv
<1>4. \A a \in Actions : Live(a)' => Live(a)
  BY <1>2, <1>3 DEF Live
<1>5. \A a \in Actions : /\ "returned" \notin Pc(a)'
                         /\ Pc(a)' = Pc(a) \/ Pc(a)' \subseteq {"perform"}
  BY <1>3
<1> QED BY <1>1, <1>4, <1>5, KeptFixes

LEMMA ContinueFixes == FInv /\ Continue => Fixes'
<1> SUFFICES ASSUME FInv, Continue PROVE Fixes'
  OBVIOUS
<1>1. /\ stack = <<>> /\ outcome = "interrupted" /\ Call(current) /\ current' = current
      /\ UNCHANGED <<status, count, lcount, state, ruleIndex, curstart, code, made, settled>>
  BY DEF Continue, fields, function, ghosts
<1>2. /\ \A a : Pc(a) = {}
      /\ \A a : Pc(a)' = IF a = Universal THEN {"perform"} ELSE {}
  BY <1>1, RootCalled DEF FInv, NInv, AInv
<1>3. \A a \in Actions : Live(a)' => Live(a)
  BY <1>1, <1>2, Trees DEF Live
<1>4. \A a \in Actions : "returned" \notin Pc(a)' /\ Pc(a)' \subseteq {"perform"}
  BY <1>2
<1> QED BY <1>1, <1>3, <1>4, KeptFixes

LEMMA ThrowFixes == FInv /\ Throw => Fixes'
<1> SUFFICES ASSUME FInv, Throw PROVE Fixes'
  OBVIOUS
<1>1. /\ stack # <<>> /\ Top.pc = "next"
      /\ UNCHANGED <<status, count, lcount, state, ruleIndex, curstart, code, made, settled>>
  BY ThrowParts DEF Throw, fields, function, ghosts, FInv, NInv
<1>2. CASE Catchers = {}
  <2>1. stack' = <<>> /\ outcome' = "error"
    BY <1>2, ThrowParts DEF FInv, NInv
  <2>2. \A a : Pc(a)' = {}
    BY <2>1, EmptyPath
  <2>3. \A a \in Actions : ~Live(a)'
    BY <2>1, <2>2 DEF Live
  <2> QED BY <2>3 DEF Fixes
<1>3. CASE Catchers # {}
  <2>1. PICK y \in Actions :
          /\ y \in Below[Universal] /\ Kind[y] = "leaf"
          /\ Pc(y) = {"staging"} /\ Pc(y)' = {"next"}
          /\ \A a \in Actions : a \in Below[Universal] /\ a # y => Pc(a)' = Pc(a)
    BY <1>3, ThrowParts DEF FInv, NInv
  <2>2. stack' # <<>> /\ outcome' = outcome /\ Pc(JumpTable)' = {}
    BY <1>3, ThrowParts DEF FInv, NInv
  <2>3. \A a \in Actions : Live(a)' => Live(a) /\ a \in Below[Universal]
    BY <1>1, <2>2 DEF Live
  <2>4. \A a \in Actions : "returned" \notin Pc(a)
    <3>1. PICK x : x = This
      OBVIOUS
    <3>2. /\ Pc(x) = {"next"}
          /\ \A b \in Actions \ {x} : Pc(b) \subseteq {"next", "staging"}
      BY <1>1, <3>1, PcShape DEF FInv, NInv, AInv
    <3>3. ASSUME NEW a \in Actions PROVE "returned" \notin Pc(a)
      <4>1. CASE a = x
        BY <3>2, <4>1
      <4>2. CASE a # x
        BY <3>2, <4>2
      <4> QED BY <4>1, <4>2
    <3> QED BY <3>3
  <2>5. \A a \in Actions : Live(a)' =>
          /\ "returned" \notin Pc(a)'
          /\ \/ Pc(a)' = Pc(a) \/ Pc(a)' \subseteq {"perform"}
             \/ Pc(a) = {"staging"} /\ Pc(a)' = {"next"}
    BY <2>1, <2>3, <2>4
  <2> QED BY <1>1, <2>3, <2>5, KeptFixes
<1> QED BY <1>2, <1>3

LEMMA StutterFixes == FInv /\ UNCHANGED vars => Fixes'
<1> SUFFICES ASSUME FInv, UNCHANGED vars PROVE Fixes'
  OBVIOUS
<1>1. /\ UNCHANGED <<status, count, lcount, state, ruleIndex, curstart, code, made, settled>>
      /\ UNCHANGED <<stack, ret, outcome>>
  BY DEF vars, fields, function, client, ghosts
<1>2. \A a : Pc(a)' = Pc(a)
  BY <1>1 DEF Pc
<1>3. \A a : InPass(a)' <=> InPass(a)
  BY <1>1, <1>2 DEF InPass
<1>4. \A a : Clean(a)' <=> Clean(a)
  BY <1>1 DEF Clean, Tests
<1>5. \A a : /\ \A i : Behind(a, i)' <=> Behind(a, i)
             /\ \A o, i : Past(a, o, i)' <=> Past(a, o, i)
             /\ \A o : RulesOn(a, o)' = RulesOn(a, o)
  BY <1>1, <1>2 DEF Behind, Past, RulesOn
<1>6. \A a : Tried(a)' <=> Tried(a)
  BY <1>1, <1>2, <1>4, <1>5 DEF Tried
<1>7. \A a : Fixed(a)' <=> Fixed(a)
  BY <1>1, <1>2, <1>3, <1>6 DEF Fixed
<1>8. \A a : Live(a)' <=> Live(a)
  BY <1>1, <1>2 DEF Live
<1> QED BY <1>7, <1>8 DEF FInv, Fixes

(* A tree that has been reset.                                             *)
LEMMA FreshFixed ==
  ASSUME NEW a, status'[a] = "start", Pc(a)' \subseteq {"perform"}
  PROVE  Fixed(a)'
BY OutFixed

LEMMA DecompileFixes == FInv /\ Decompile => Fixes'
<1> SUFFICES ASSUME FInv, Decompile PROVE Fixes'
  OBVIOUS
<1>1. /\ stack = <<>> /\ Call(current) /\ current' = current /\ state' = state
      /\ status' = Reset(Below[current], status, "start")
  BY DEF Decompile, ResetTree
<1>2. /\ current = Universal
      /\ \A a : Pc(a)' = IF a = Universal THEN {"perform"} ELSE {}
  BY <1>1, RootCalled DEF FInv, NInv
<1>3. \A a \in Actions : a \in Below[Universal] => status'[a] = "start"
  BY <1>1, <1>2, ResetValue DEF FInv, NInv, AInv
<1> SUFFICES ASSUME NEW a \in Actions, Live(a)' PROVE Fixed(a)'
  BY DEF Fixes
<1>4. a \in Below[Universal]
  BY <1>2, Trees DEF Live
<1>5. Pc(a)' \subseteq {"perform"}
  BY <1>2
<1> QED BY <1>3, <1>4, <1>5, FreshFixed

LEMMA RestartFixes == FInv /\ Restart => Fixes'
<1> SUFFICES ASSUME FInv, Restart PROVE Fixes'
  OBVIOUS
<1>1. PICK x : x = This
  OBVIOUS
<1>2. /\ x = Universal
      /\ \A a \in Actions : a \in Below[Universal] => status'[a] = "start"
      /\ \A a : Pc(a)' = IF a = x THEN {"next"} ELSE {}
  BY <1>1, RestartParts DEF FInv, NInv
<1> SUFFICES ASSUME NEW a \in Actions, Live(a)', Kind[a] # "restart" PROVE Fixed(a)'
  BY DEF Fixes
<1>3. a \in Below[Universal] /\ a # Universal
  BY <1>2, Trees, Assumed, TreesAssumption DEF Live
<1> QED BY <1>2, <1>3, FreshFixed

LEMMA StageFixes == FInv /\ StageJumpTable => Fixes'
<1> SUFFICES ASSUME FInv, StageJumpTable PROVE Fixes'
  OBVIOUS
<1>1. PICK x : x = This
  OBVIOUS
<1>2. /\ stack # <<>> /\ Top.pc = "next" /\ x \in Actions /\ Pc(x) = {"next"}
      /\ UNCHANGED <<count, made, state>>
  BY <1>1, StageParts DEF FInv, NInv
<1>3. \A a : Pc(a)' = IF a = JumpTable THEN {"perform"}
                     ELSE IF a = x THEN {"staging"} ELSE Pc(a)
  BY <1>1, StageParts DEF FInv, NInv
<1>4. \A a \in Actions : status'[a] = IF a \in Below[JumpTable] THEN "start" ELSE status[a]
  BY <1>1, StageParts DEF FInv, NInv
<1>5. x \in Below[Universal] /\ x \notin Below[JumpTable]
  BY <1>1, StageParts DEF FInv, NInv
<1>6. /\ UNCHANGED <<lcount, ruleIndex>> /\ code' = [code EXCEPT !["partial"] = InitialCode]
      /\ settled' = {t \in settled : Data(t[1]) = "function"}
  BY DEF StageJumpTable, Cleared
<1>7. code'["function"] = code["function"]
  BY <1>6 DEF FInv, NInv, AInv, IInv, Types, FunctionOK, Functions
<1> SUFFICES ASSUME NEW a \in Actions, Live(a)', Kind[a] # "restart" PROVE Fixed(a)'
  BY DEF Fixes
<1>8. CASE a \in Below[JumpTable]
  <2>1. Pc(a) = {} /\ a # x
    BY <1>1, <1>5, <1>8, StageParts DEF FInv, NInv
  <2>2. Pc(a)' \subseteq {"perform"}
    BY <1>3, <2>1
  <2> QED BY <1>4, <1>8, <2>2, FreshFixed
<1>9. CASE a \notin Below[JumpTable]
  <2>1. a \in Below[Universal] /\ Live(a) /\ Fixed(a) /\ Rooted(a) /\ a # JumpTable
    BY <1>2, <1>9, LiveRooted, Trees DEF Live, FInv, Fixes
  <2>2. \A b \in Below[a] : b \in Actions /\ b \in Below[Universal] /\ b \notin Below[JumpTable]
    <3>1. \A b \in Below[a] : b \in Actions /\ b \in Below[Universal]
      BY <2>1, Members, Assumed
    <3> QED BY <3>1, TreesAssumption
  <2>3. Keeps(a)
    <3>1. \A b \in Below[a] : status'[b] = status[b] /\ Data(b) = "function"
      BY <1>4, <2>2 DEF Data
    <3>2. Data(a) = "function"
      BY <2>1 DEF Data
    <3> QED BY <1>6, <1>7, <3>1, <3>2 DEF Keeps
  <2>4. Bears(a)
    BY <1>2, <2>3 DEF Bears
  <2>5. status'[a] = status[a]
    BY <1>4, <1>9
  <2>6. /\ "returned" \notin Pc(a)' /\ "applied" \notin Pc(a)'
        /\ InPass(a)' => InPass(a)
        /\ Pc(a) \subseteq {"perform"} => Pc(a)' \subseteq {"perform"}
    <3>1. CASE a = x
      <4>1. Pc(a)' = {"staging"} /\ Pc(a) = {"next"}
        BY <1>2, <1>3, <2>1, <3>1
      <4> QED BY <4>1 DEF InPass
    <3>2. CASE a # x
      <4>1. Pc(a)' = Pc(a)
        BY <1>3, <2>1, <3>2
      <4>2. Pc(a) \subseteq {"next", "staging"}
        BY <1>1, <1>2, <3>2, PcShape DEF FInv, NInv, AInv
      <4> QED BY <2>5, <4>1, <4>2 DEF InPass
    <3> QED BY <3>1, <3>2
  <2> QED BY <1>2, <1>6, <2>1, <2>4, <2>5, <2>6, OtherFixed
<1> QED BY <1>8, <1>9

LEMMA InitFInv == Init => FInv
<1> SUFFICES ASSUME Init PROVE FInv
  OBVIOUS
<1>1. NInv
  BY InitAInv, InitNested DEF NInv
<1>2. stack = <<>> /\ outcome = "none" /\ Len(stack) = 0
  BY EmptySequence DEF Init
<1>3. \A a \in Actions : ~Live(a)
  BY <1>2 DEF Live, Pc
<1> QED BY <1>1, <1>3 DEF FInv, Fixes

LEMMA NextFInv == FInv /\ [Next]_vars => FInv'
<1> SUFFICES ASSUME FInv, [Next]_vars PROVE FInv'
  OBVIOUS
<1>1. NInv'
  BY NextNInv DEF FInv
<1> SUFFICES Fixes'
  BY <1>1 DEF FInv
<1>2. CASE Decompile \/ Continue \/ UNCHANGED vars
  BY <1>2, DecompileFixes, ContinueFixes, StutterFixes
<1>3. CASE Perform
  BY <1>3, StartBreakFixes, StartFixes, ResumeFixes, EndedFixes, ActionBreakFixes, LoopFixes,
     FinishFixes DEF Perform
<1>4. CASE Apply
  BY <1>4, GroupNextFixes, GroupMemberFixes, GroupPartialFixes, EndFixes, RestartFixes,
     LeafApplyFixes, StageFixes, StagedFixes, ThrowFixes, OpFixes, RuleIdleFixes,
     RuleAppliesFixes DEF Apply
<1> QED BY <1>2, <1>3, <1>4 DEF Next, Engine

LEMMA SpecFInv == Spec => []FInv
BY InitFInv, NextFInv, PTL DEF Spec

(* An action that is to be applied until there is no change returns only   *)
(* when everything within it has been tried since the last change and      *)
(* changes nothing: each leaf that is not through for good, and each rule  *)
(* of a pool on each op; for any trees, rules and breakpoints, and however *)
(* often it was interrupted on the way.                                    *)
THEOREM FixpointReachedByPerform == Spec => FixpointReached
<1>1. FInv /\ [Next]_vars =>
        [(Finish /\ "repeatapply" \in Flags[This]) => Tests(This) \subseteq settled]_vars
  <2> SUFFICES ASSUME FInv, [Next]_vars, Finish, "repeatapply" \in Flags[This]
               PROVE  Tests(This) \subseteq settled
    OBVIOUS
  <2> QED BY FinishClean DEF Clean
<1> QED BY <1>1, SpecFInv, PTL DEF Spec, FixpointReached
=============================================================================
