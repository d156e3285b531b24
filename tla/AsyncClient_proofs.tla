--------------------------- MODULE AsyncClient_proofs ---------------------------
(***************************************************************************)
(* Proofs about AsyncClient, for any number of callers, calls, nested      *)
(* calls and disturbances, and any number of retries.                      *)
(***************************************************************************)
EXTENDS AsyncClient, SequenceTheorems, WellFoundedInduction, TLAPS

USE AsyncAssumption DEF AsyncAssumption

-------------------------------------------------------------------------------
(***************************************************************************)
(* The shape of the state.  What a frame has read is left open: a set of   *)
(* answers that grows with the lines that arrive.                          *)
(***************************************************************************)
Waits  == {"error", "retry"}
Stages == {"spin", "scheduled", "drain", "drainCrc", "recv", "recvCrc"}
          \cup Waits \cup Opening \cup Closing
Ports  == {"current", "replaced", "closed"}
Frames(A) == [cmd : {"own", "S80"}, pc : Stages, ans : A, on : Ports]
Stacks(A) == [Callers -> Seq(Frames(A))]
Records(R) == [n : Nat, retries : Retries \cup {0}, sends : Nat, result : R,
               alone : BOOLEAN, clean : BOOLEAN, calm : BOOLEAN]

StackShape == \E A : <<>> \in A /\ stack \in Stacks(A)
NowShape   == \E R : NoResult \in R /\ now \in [Callers -> Records(R)]

Shape ==
    /\ StackShape /\ NowShape
    /\ retry_count \in Nat /\ calls \in Nat /\ serial \in {"none", "open", "closed"}

LEMMA Widened ==
  ASSUME NEW A, NEW B, A \subseteq B, NEW st \in Stacks(A)
  PROVE  st \in Stacks(B)
<1>1. Frames(A) \subseteq Frames(B)
  BY DEF Frames
<1>2. \A s \in Seq(Frames(A)) : s \in Seq(Frames(B))
  BY <1>1, SeqMonotonic
<1>3. QED
  BY <1>2 DEF Stacks

(* The top of a stack that is not empty.                                   *)
LEMMA TopFrame ==
  ASSUME NEW A, NEW s \in Seq(Frames(A)), s # <<>>
  PROVE  Last(s) \in Frames(A) /\ Len(s) \in Nat \ {0} /\ Front(s) \in Seq(Frames(A))
         /\ Len(Front(s)) = Len(s) - 1
<1>1. Len(s) \in Nat \ {0}
  BY EmptySeq
<1>2. s[Len(s)] \in Frames(A)
  BY <1>1, ElementOfSeq
<1>3. Front(s) \in Seq(Frames(A)) /\ Len(Front(s)) = Len(s) - 1
  <2>1. \A i \in 1..Len(s) - 1 : s[i] \in Frames(A)
    BY <1>1, ElementOfSeq
  <2>2. 1 \in Int /\ Len(s) - 1 \in Nat
    BY <1>1
  <2>3. SubSeq(s, 1, Len(s) - 1) \in Seq(Frames(A))
    BY <2>1, <2>2, SubSeqProperties
  <2>4. Len(SubSeq(s, 1, Len(s) - 1)) = Len(s) - 1
    <3> DEFINE n == Len(s)
    <3>1. n \in Nat /\ n # 0
      BY <1>1
    <3>2. Len(SubSeq(s, 1, n - 1)) = IF 1 <= n - 1 THEN (n - 1) - 1 + 1 ELSE 0
      BY <2>1, <2>2, SubSeqProperties
    <3> HIDE DEF n
    <3>3. Len(SubSeq(s, 1, n - 1)) = n - 1
      BY <3>1, <3>2
    <3>4. QED
      BY <3>3 DEF n
  <2>5. QED
    BY <2>3, <2>4 DEF Front
<1>4. QED
  BY <1>1, <1>2, <1>3 DEF Last

(* A frame that is appended is the top.                                    *)
LEMMA Appended ==
  ASSUME NEW A, NEW s \in Seq(Frames(A)), NEW f \in Frames(A)
  PROVE  /\ Append(s, f) \in Seq(Frames(A)) /\ Append(s, f) # <<>>
         /\ Len(Append(s, f)) = Len(s) + 1 /\ Last(Append(s, f)) = f
  BY DEF Last

LEMMA AppendedAt ==
  ASSUME NEW S, NEW s \in Seq(S), NEW f \in S
  PROVE  /\ Append(s, f) \in Seq(S) /\ Len(Append(s, f)) = Len(s) + 1
         /\ \A i \in 1..Len(s) + 1 : Append(s, f)[i] = IF i = Len(s) + 1 THEN f ELSE s[i]
  OBVIOUS

(* The top frame is replaced.                                              *)
LEMMA SetTopStack ==
  ASSUME NEW A, NEW st \in Stacks(A), NEW c \in Callers, st[c] # <<>>, NEW f \in Frames(A)
  PROVE  /\ SetTop(st, c, f) \in Stacks(A)
         /\ \A d \in Callers \ {c} : SetTop(st, c, f)[d] = st[d]
         /\ SetTop(st, c, f)[c] # <<>> /\ Last(SetTop(st, c, f)[c]) = f
         /\ Len(SetTop(st, c, f)[c]) = Len(st[c])
<1>1. st[c] \in Seq(Frames(A))
  BY DEF Stacks
<1>2. SetTop(st, c, f)[c] = Append(Front(st[c]), f)
  BY DEF SetTop, Stacks
<1>3. Front(st[c]) \in Seq(Frames(A)) /\ Len(Front(st[c])) = Len(st[c]) - 1 /\ Len(st[c]) \in Nat
  BY <1>1, TopFrame
<1>4. \A d \in Callers \ {c} : SetTop(st, c, f)[d] = st[d]
  BY DEF SetTop, Stacks
<1>5. /\ SetTop(st, c, f)[c] \in Seq(Frames(A)) /\ SetTop(st, c, f)[c] # <<>>
      /\ Last(SetTop(st, c, f)[c]) = f /\ Len(SetTop(st, c, f)[c]) = Len(st[c])
  BY <1>2, <1>3, Appended
<1>6. SetTop(st, c, f) \in Stacks(A)
  BY <1>5 DEF SetTop, Stacks
<1>7. QED
  BY <1>4, <1>5, <1>6

(* That a port is replaced or closed changes no stack's depth.             *)
LEMMA CurrentsStack ==
  ASSUME NEW A, NEW st \in Stacks(A), NEW state \in Ports
  PROVE  /\ Currents(st, state) \in Stacks(A)
         /\ \A d \in Callers : Len(Currents(st, state)[d]) = Len(st[d])
         /\ \A d \in Callers : Currents(st, state)[d] = <<>> <=> st[d] = <<>>
<1> DEFINE frame(d, i) == IF st[d][i].on = "current" THEN [st[d][i] EXCEPT !.on = state] ELSE st[d][i]
<1>1. ASSUME NEW d \in Callers
      PROVE  /\ Currents(st, state)[d] \in Seq(Frames(A))
             /\ Len(Currents(st, state)[d]) = Len(st[d])
             /\ Currents(st, state)[d] = <<>> <=> st[d] = <<>>
  <2>1. st[d] \in Seq(Frames(A)) /\ Len(st[d]) \in Nat /\ DOMAIN st[d] = 1..Len(st[d])
    BY DEF Stacks
  <2>2. \A i \in 1..Len(st[d]) : st[d][i] \in Frames(A)
    BY <2>1, ElementOfSeq
  <2>3. \A i \in 1..Len(st[d]) : frame(d, i) \in Frames(A)
    BY <2>2 DEF Frames
  <2>4. Currents(st, state)[d] = [i \in 1..Len(st[d]) |-> frame(d, i)]
    BY <2>1 DEF Currents
  <2> HIDE DEF frame
  <2>5. Currents(st, state)[d] \in [1..Len(st[d]) -> Frames(A)]
    BY <2>3, <2>4
  <2>6. Currents(st, state)[d] \in Seq(Frames(A)) /\ Len(Currents(st, state)[d]) = Len(st[d])
    BY <2>1, <2>5, LenProperties, SeqDef
  <2>7. QED
    BY <2>1, <2>6, EmptySeq
<1>2. Currents(st, state) = [d \in Callers |-> Currents(st, state)[d]]
  BY DEF Currents
<1>3. QED
  BY <1>1, <1>2 DEF Stacks

-------------------------------------------------------------------------------
(***************************************************************************)
(* The frames of a stack, one by one.                                      *)
(***************************************************************************)
(* A frame whose port becomes `state' if it is the current one.            *)
Replug(f, state) == IF f.on = "current" THEN [f EXCEPT !.on = state] ELSE f

LEMMA FrontAt ==
  ASSUME NEW A, NEW s \in Seq(Frames(A)), s # <<>>
  PROVE  \A i \in 1..Len(s) - 1 : Front(s)[i] = s[i]
<1>1. Len(s) \in Nat \ {0}
  BY EmptySeq
<1>2. \A i \in 1..Len(s) - 1 : s[i] \in Frames(A)
  BY <1>1, ElementOfSeq
<1>3. 1 \in Int /\ Len(s) - 1 \in Nat
  BY <1>1
<1>4. \A i \in 1..Len(s) - 1 : SubSeq(s, 1, Len(s) - 1)[i] = s[1 + i - 1]
  BY <1>1, <1>2, <1>3
<1>5. QED
  BY <1>1, <1>4 DEF Front

LEMMA SetTopAt ==
  ASSUME NEW A, NEW st \in Stacks(A), NEW c \in Callers, st[c] # <<>>, NEW f \in Frames(A)
  PROVE  \A i \in 1..Len(st[c]) :
            SetTop(st, c, f)[c][i] = IF i = Len(st[c]) THEN f ELSE st[c][i]
<1>1. st[c] \in Seq(Frames(A))
  BY DEF Stacks
<1>2. SetTop(st, c, f)[c] = Append(Front(st[c]), f)
  BY DEF SetTop, Stacks
<1>3. Len(st[c]) \in Nat \ {0} /\ Front(st[c]) \in Seq(Frames(A)) /\ Len(Front(st[c])) = Len(st[c]) - 1
  BY <1>1, TopFrame
<1>4. \A i \in 1..Len(st[c]) - 1 : Front(st[c])[i] = st[c][i]
  BY <1>1, <1>3, FrontAt
<1>5. QED
  BY <1>2, <1>3, <1>4

LEMMA CurrentsAt ==
  ASSUME NEW A, NEW st \in Stacks(A), NEW state, NEW d \in Callers
  PROVE  \A i \in 1..Len(st[d]) : Currents(st, state)[d][i] = Replug(st[d][i], state)
<1>1. st[d] \in Seq(Frames(A)) /\ DOMAIN st[d] = 1..Len(st[d])
  BY DEF Stacks
<1>2. QED
  BY <1>1 DEF Currents, Replug

LEMMA Unplugged ==
  ASSUME NEW A, NEW f \in Frames(A)
  PROVE  Replug(f, "current") = f
  BY DEF Replug, Frames

(* Nothing becomes of the current port.                                    *)
LEMMA CurrentsSame ==
  ASSUME NEW A, NEW st \in Stacks(A)
  PROVE  Currents(st, "current") = st
<1>1. ASSUME NEW d \in Callers PROVE Currents(st, "current")[d] = st[d]
  <2>1. /\ Currents(st, "current")[d] \in Seq(Frames(A)) /\ st[d] \in Seq(Frames(A))
        /\ Len(Currents(st, "current")[d]) = Len(st[d])
    BY CurrentsStack DEF Ports, Stacks
  <2>2. ASSUME NEW i \in 1..Len(st[d]) PROVE Currents(st, "current")[d][i] = st[d][i]
    <3>1. st[d][i] \in Frames(A)
      BY <2>1, ElementOfSeq
    <3>2. QED
      BY <3>1, CurrentsAt, Unplugged
  <2>3. QED
    BY <2>1, <2>2, SeqEqual
<1>2. Currents(st, "current") = [d \in Callers |-> Currents(st, "current")[d]]
  BY DEF Currents
<1>3. QED
  BY <1>1, <1>2 DEF Stacks

-------------------------------------------------------------------------------
(***************************************************************************)
(* What a step can do to the frames.  `state' is what becomes of the port  *)
(* that was the current one: nothing, or a call replaces or closes it.     *)
(***************************************************************************)
OthersReplug(c, state) ==
    \A d \in Callers \ {c} :
        /\ Len(stack'[d]) = Len(stack[d])
        /\ \A i \in 1..Len(stack[d]) : stack'[d][i] = Replug(stack[d][i], state)

(* The top frame of c becomes g.                                           *)
Swaps(c, state, g) ==
    /\ StackShape' /\ OthersReplug(c, state) /\ stack[c] # <<>>
    /\ Len(stack'[c]) = Len(stack[c])
    /\ \A i \in 1..Len(stack[c]) :
          stack'[c][i] = IF i = Len(stack[c]) THEN g ELSE Replug(stack[c][i], state)

(* Its top frame becomes f, with g on top of it.                           *)
Nests(c, f, g) ==
    /\ StackShape' /\ OthersReplug(c, "current") /\ stack[c] # <<>>
    /\ Len(stack'[c]) = Len(stack[c]) + 1
    /\ \A i \in 1..Len(stack[c]) + 1 :
          stack'[c][i] = IF i = Len(stack[c]) + 1 THEN g
                         ELSE IF i = Len(stack[c]) THEN f ELSE stack[c][i]

(* Its top frame is left; the one below has its `finally' to run.          *)
Leaves(c) ==
    /\ StackShape' /\ OthersReplug(c, "current") /\ stack[c] # <<>>
    /\ Len(stack'[c]) = Len(stack[c]) - 1
    /\ \A i \in 1..Len(stack[c]) - 1 :
          stack'[c][i] = IF i = Len(stack[c]) - 1 THEN Frame(stack[c][i].cmd, "finally")
                         ELSE stack[c][i]

(* The frames of the others, when nothing becomes of the port.             *)
LEMMA OthersSame ==
  ASSUME NEW A, stack \in Stacks(A), NEW c \in Callers,
         \A d \in Callers \ {c} : stack'[d] = stack[d]
  PROVE  OthersReplug(c, "current")
<1>1. ASSUME NEW d \in Callers, NEW i \in 1..Len(stack[d])
      PROVE  Replug(stack[d][i], "current") = stack[d][i]
  <2>1. stack[d] \in Seq(Frames(A))
    BY DEF Stacks
  <2>2. stack[d][i] \in Frames(A)
    BY <2>1, ElementOfSeq
  <2>3. QED
    BY <2>2, Unplugged
<1>2. QED
  BY <1>1 DEF OthersReplug

LEMMA SwapsAt ==
  ASSUME NEW A, <<>> \in A, stack \in Stacks(A), NEW c \in Callers, stack[c] # <<>>,
         NEW state \in Ports, NEW B, A \subseteq B, NEW g \in Frames(B),
         stack' = SetTop(Currents(stack, state), c, g)
  PROVE  Swaps(c, state, g)
<1> DEFINE cs == Currents(stack, state)
<1>1. stack \in Stacks(B) /\ <<>> \in B
  BY Widened
<1>2. /\ cs \in Stacks(B) /\ \A d \in Callers : Len(cs[d]) = Len(stack[d])
      /\ \A d \in Callers : cs[d] = <<>> <=> stack[d] = <<>>
      /\ \A d \in Callers : \A i \in 1..Len(stack[d]) : cs[d][i] = Replug(stack[d][i], state)
  BY <1>1, CurrentsStack, CurrentsAt
<1> HIDE DEF cs
<1>3. stack' = SetTop(cs, c, g) /\ cs[c] # <<>>
  BY <1>2 DEF cs
<1>4. /\ stack' \in Stacks(B) /\ \A d \in Callers \ {c} : stack'[d] = cs[d]
      /\ Len(stack'[c]) = Len(cs[c])
  BY <1>2, <1>3, SetTopStack
<1>5. \A i \in 1..Len(cs[c]) : stack'[c][i] = IF i = Len(cs[c]) THEN g ELSE cs[c][i]
  BY <1>2, <1>3, SetTopAt
<1>6. StackShape'
  BY <1>1, <1>4 DEF StackShape
<1>7. OthersReplug(c, state)
  BY <1>2, <1>4 DEF OthersReplug
<1>8. \A i \in 1..Len(stack[c]) :
          stack'[c][i] = IF i = Len(stack[c]) THEN g ELSE Replug(stack[c][i], state)
  BY <1>2, <1>5
<1>9. QED
  BY <1>2, <1>4, <1>6, <1>7, <1>8 DEF Swaps

LEMMA SwapsSame ==
  ASSUME NEW A, <<>> \in A, stack \in Stacks(A), NEW c \in Callers, stack[c] # <<>>,
         NEW B, A \subseteq B, NEW g \in Frames(B), stack' = SetTop(stack, c, g)
  PROVE  Swaps(c, "current", g)
<1>1. stack' = SetTop(Currents(stack, "current"), c, g)
  BY CurrentsSame
<1>2. QED
  BY <1>1, SwapsAt DEF Ports

LEMMA NestsAt ==
  ASSUME NEW A, <<>> \in A, stack \in Stacks(A), NEW c \in Callers, stack[c] # <<>>,
         NEW B, A \subseteq B, NEW f \in Frames(B), NEW g \in Frames(B),
         stack' = [stack EXCEPT ![c] = Append(Append(Front(@), f), g)]
  PROVE  Nests(c, f, g)
<1>1. stack \in Stacks(B) /\ <<>> \in B
  BY Widened
<1>2. stack[c] \in Seq(Frames(B)) /\ stack'[c] = Append(Append(Front(stack[c]), f), g)
      /\ \A d \in Callers \ {c} : stack'[d] = stack[d]
  BY <1>1 DEF Stacks
<1> DEFINE s == Front(stack[c])
<1>3. s \in Seq(Frames(B)) /\ Len(s) = Len(stack[c]) - 1 /\ Len(stack[c]) \in Nat \ {0}
      /\ \A i \in 1..Len(stack[c]) - 1 : s[i] = stack[c][i]
  BY <1>2, TopFrame, FrontAt
<1> HIDE DEF s
<1>4. stack'[c] = Append(Append(s, f), g)
  BY <1>2 DEF s
<1> DEFINE t == Append(s, f)
           n == Len(stack[c])
<1>5. t \in Seq(Frames(B)) /\ Len(t) = Len(s) + 1
      /\ \A i \in 1..Len(s) + 1 : t[i] = IF i = Len(s) + 1 THEN f ELSE s[i]
  BY <1>3
<1>6. stack'[c] = Append(t, g)
  BY <1>4
<1> HIDE DEF t, n
<1>7. /\ stack'[c] \in Seq(Frames(B)) /\ Len(stack'[c]) = n + 1
      /\ \A i \in 1..n + 1 : stack'[c][i] = IF i = n + 1 THEN g ELSE IF i = n THEN f ELSE stack[c][i]
  <2>1. Len(s) = n - 1 /\ n \in Nat \ {0} /\ Len(t) = n
        /\ \A i \in 1..n - 1 : s[i] = stack[c][i]
    BY <1>3, <1>5 DEF n
  <2>2. \A i \in 1..n : t[i] = IF i = n THEN f ELSE stack[c][i]
    <3>1. Len(s) + 1 = n
      BY <2>1
    <3>2. \A i \in 1..n : t[i] = IF i = n THEN f ELSE s[i]
      BY <1>5, <3>1
    <3>3. QED
      BY <2>1, <3>2
  <2>3. Len(stack'[c]) = n + 1 /\ stack'[c] \in Seq(Frames(B))
        /\ \A i \in 1..n + 1 : stack'[c][i] = IF i = n + 1 THEN g ELSE t[i]
    <3>1. /\ Len(stack'[c]) = Len(t) + 1 /\ stack'[c] \in Seq(Frames(B))
          /\ \A i \in 1..Len(t) + 1 : stack'[c][i] = IF i = Len(t) + 1 THEN g ELSE t[i]
      <4>1. t \in Seq(Frames(B)) /\ g \in Frames(B)
        BY <1>5
      <4>2. /\ Append(t, g) \in Seq(Frames(B)) /\ Len(Append(t, g)) = Len(t) + 1
            /\ \A i \in 1..Len(t) + 1 : Append(t, g)[i] = IF i = Len(t) + 1 THEN g ELSE t[i]
        BY ONLY <4>1, AppendedAt
      <4>3. QED
        BY ONLY <1>6, <4>2
    <3>2. QED
      BY <2>1, <3>1
  <2>4. QED
    BY <2>1, <2>2, <2>3
<1>8. stack' = [stack EXCEPT ![c] = stack'[c]]
  BY <1>2
<1>9. stack' \in Stacks(B)
  BY <1>1, <1>7, <1>8 DEF Stacks
<1>10. StackShape'
  BY <1>1, <1>9 DEF StackShape
<1>11. OthersReplug(c, "current")
  BY <1>2, OthersSame
<1>12. QED
  BY <1>7, <1>10, <1>11 DEF Nests, n

LEMMA LeavesAt ==
  ASSUME NEW A, <<>> \in A, stack \in Stacks(A), NEW c \in Callers, stack[c] # <<>>,
         stack' = Left(c)
  PROVE  Leaves(c)
<1>1. stack[c] \in Seq(Frames(A)) /\ \A d \in Callers \ {c} : stack'[d] = stack[d]
  BY DEF Stacks, Left
<1> DEFINE s == Front(stack[c])
<1>2. s \in Seq(Frames(A)) /\ Len(s) = Len(stack[c]) - 1 /\ Len(stack[c]) \in Nat \ {0}
      /\ \A i \in 1..Len(stack[c]) - 1 : s[i] = stack[c][i]
  BY <1>1, TopFrame, FrontAt
<1>3. stack'[c] = IF Len(stack[c]) = 1 THEN <<>> ELSE Append(Front(s), Frame(Last(s).cmd, "finally"))
  BY DEF Left, Stacks
<1> HIDE DEF s
<1>4. OthersReplug(c, "current")
  BY <1>1, OthersSame
<1>5. ASSUME stack'[c] \in Seq(Frames(A)) PROVE StackShape'
  <2>1. stack' = [stack EXCEPT ![c] = stack'[c]]
    BY DEF Left
  <2>2. stack' \in Stacks(A)
    BY <1>5, <2>1 DEF Stacks
  <2>3. QED
    BY <2>2 DEF StackShape
<1>6. CASE Len(stack[c]) = 1
  <2>1. stack'[c] = <<>>
    BY <1>3, <1>6
  <2>2. QED
    BY <1>2, <1>4, <1>5, <1>6, <2>1 DEF Leaves
<1>7. CASE Len(stack[c]) # 1
  <2>1. s # <<>> /\ Len(s) \in Nat \ {0}
    <3>1. Len(s) \in Nat /\ Len(s) # 0
      <4> DEFINE n == Len(stack[c])
      <4>1. n \in Nat \ {0} /\ n # 1 /\ Len(s) = n - 1
        BY <1>2, <1>7
      <4> HIDE DEF n
      <4>2. QED
        BY <4>1
    <3>2. QED
      BY <1>2, <3>1, EmptySeq
  <2> DEFINE t == Front(s)
             g == Frame(Last(s).cmd, "finally")
  <2>2. t \in Seq(Frames(A)) /\ Len(t) = Len(s) - 1 /\ Last(s) \in Frames(A)
        /\ \A i \in 1..Len(s) - 1 : t[i] = s[i]
    BY <1>2, <2>1, TopFrame, FrontAt
  <2>3. g \in Frames(A)
    BY <2>2 DEF Frame, Frames, Stages, Ports, Closing
  <2>4. g = Frame(stack[c][Len(stack[c]) - 1].cmd, "finally")
    BY <1>2, <2>1 DEF Last
  <2>5. stack'[c] = Append(t, g)
    BY <1>3, <1>7
  <2> HIDE DEF t, g
  <2>6. stack'[c] \in Seq(Frames(A)) /\ Len(stack'[c]) = Len(s)
        /\ \A i \in 1..Len(s) : stack'[c][i] = IF i = Len(s) THEN g ELSE t[i]
    BY <2>1, <2>2, <2>3, <2>5
  <2>7. \A i \in 1..Len(stack[c]) - 1 :
          stack'[c][i] = IF i = Len(stack[c]) - 1 THEN Frame(stack[c][i].cmd, "finally")
                         ELSE stack[c][i]
    BY <1>2, <2>1, <2>2, <2>4, <2>6
  <2>8. QED
    BY <1>2, <1>4, <1>5, <2>6, <2>7 DEF Leaves
<1>8. QED
  BY <1>6, <1>7

(* The top of a caller that is running is a frame.                         *)
LEMMA TopShape ==
  ASSUME NEW A, stack \in Stacks(A), NEW c \in Callers, stack[c] # <<>>
  PROVE  Top(c) \in Frames(A)
<1>1. stack[c] \in Seq(Frames(A))
  BY DEF Stacks
<1>2. QED
  BY <1>1, TopFrame DEF Top

(* A frame is made.                                                        *)
LEMMA FrameShape ==
  ASSUME NEW A, <<>> \in A, NEW cmd \in {"own", "S80"}, NEW pc \in Stages
  PROVE  /\ Frame(cmd, pc) \in Frames(A)
         /\ Frame(cmd, pc).cmd = cmd /\ Frame(cmd, pc).pc = pc
         /\ Frame(cmd, pc).ans = <<>> /\ Frame(cmd, pc).on = "closed"
  BY DEF Frame, Frames, Ports

(* The top frame moves to a stage and starts afresh there.                 *)
LEMMA GotoAt ==
  ASSUME StackShape, NEW c \in Callers, stack[c] # <<>>, NEW state \in Ports, NEW pc \in Stages,
         stack' = Goto(Currents(stack, state), c, pc)
  PROVE  Swaps(c, state, Frame(Top(c).cmd, pc))
<1>1. PICK A : <<>> \in A /\ stack \in Stacks(A)
  BY DEF StackShape
<1>2. Top(c) \in Frames(A)
  BY <1>1, TopShape
<1>3. Top(c).cmd \in {"own", "S80"}
  BY <1>2 DEF Frames
<1>4. Frame(Top(c).cmd, pc) \in Frames(A)
  BY <1>1, <1>3, FrameShape
<1>5. stack' = SetTop(Currents(stack, state), c, Frame(Top(c).cmd, pc))
  BY DEF Goto
<1>6. QED
  BY <1>1, <1>4, <1>5, SwapsAt

LEMMA GotoSame ==
  ASSUME StackShape, NEW c \in Callers, stack[c] # <<>>, NEW pc \in Stages,
         stack' = Goto(stack, c, pc)
  PROVE  Swaps(c, "current", Frame(Top(c).cmd, pc))
<1>1. PICK A : <<>> \in A /\ stack \in Stacks(A)
  BY DEF StackShape
<1>2. stack' = Goto(Currents(stack, "current"), c, pc)
  BY <1>1, CurrentsSame
<1>3. QED
  BY <1>2, GotoAt DEF Ports

(* What the others' frames keep.                                           *)
LEMMA ReplugFrame ==
  ASSUME NEW A, NEW f \in Frames(A), NEW state \in Ports
  PROVE  /\ Replug(f, state).cmd = f.cmd /\ Replug(f, state).pc = f.pc
         /\ Replug(f, state).ans = f.ans
         /\ Replug(f, state).on = IF f.on = "current" THEN state ELSE f.on
  BY DEF Replug, Frames

(* The top frame after such a step.                                        *)
LEMMA SwapsTop ==
  ASSUME StackShape, NEW c \in Callers, NEW state, NEW g, Swaps(c, state, g)
  PROVE  stack'[c] # <<>> /\ Top(c)' = g
<1>1. PICK A : stack \in Stacks(A)
  BY DEF StackShape
<1>2. PICK B : stack' \in Stacks(B)
  BY DEF StackShape, Swaps
<1>3. stack[c] \in Seq(Frames(A)) /\ stack'[c] \in Seq(Frames(B))
  BY <1>1, <1>2 DEF Stacks
<1>4. Len(stack[c]) \in Nat /\ Len(stack[c]) # 0
  BY <1>3, EmptySeq DEF Swaps
<1>5. Len(stack'[c]) = Len(stack[c]) /\ stack'[c][Len(stack[c])] = g
  BY <1>4 DEF Swaps
<1>6. QED
  BY <1>3, <1>4, <1>5, EmptySeq DEF Top, Last

LEMMA NestsTop ==
  ASSUME StackShape, NEW c \in Callers, NEW f, NEW g, Nests(c, f, g)
  PROVE  stack'[c] # <<>> /\ Top(c)' = g
<1>1. PICK A : stack \in Stacks(A)
  BY DEF StackShape
<1>2. PICK B : stack' \in Stacks(B)
  BY DEF StackShape, Nests
<1>3. stack[c] \in Seq(Frames(A)) /\ stack'[c] \in Seq(Frames(B))
  BY <1>1, <1>2 DEF Stacks
<1>4. Len(stack[c]) \in Nat /\ Len(stack[c]) # 0
  BY <1>3, EmptySeq DEF Nests
<1>5. Len(stack'[c]) = Len(stack[c]) + 1 /\ stack'[c][Len(stack[c]) + 1] = g
  BY <1>4 DEF Nests
<1>6. QED
  BY <1>3, <1>4, <1>5, EmptySeq DEF Top, Last

LEMMA LeavesTop ==
  ASSUME StackShape, NEW c \in Callers, Leaves(c), stack'[c] # <<>>
  PROVE  Len(stack[c]) > 1 /\ Top(c)' = Frame(stack[c][Len(stack[c]) - 1].cmd, "finally")
<1>1. PICK A : stack \in Stacks(A)
  BY DEF StackShape
<1>2. PICK B : stack' \in Stacks(B)
  BY DEF StackShape, Leaves
<1>3. stack[c] \in Seq(Frames(A)) /\ stack'[c] \in Seq(Frames(B))
  BY <1>1, <1>2 DEF Stacks
<1>4. Len(stack[c]) \in Nat /\ Len(stack'[c]) \in Nat /\ Len(stack'[c]) # 0
      /\ Len(stack'[c]) = Len(stack[c]) - 1
  BY <1>3, EmptySeq DEF Leaves
<1>5. Len(stack[c]) - 1 \in 1..Len(stack[c]) - 1 /\ Len(stack[c]) > 1
  BY <1>4
<1>6. stack'[c][Len(stack[c]) - 1] = Frame(stack[c][Len(stack[c]) - 1].cmd, "finally")
  BY <1>5 DEF Leaves
<1>7. QED
  BY <1>4, <1>5, <1>6 DEF Top, Last

(* The others run on as they ran.                                          *)
LEMMA OthersRun ==
  ASSUME StackShape, StackShape', NEW c \in Callers, NEW state \in Ports, OthersReplug(c, state),
         NEW d \in Callers \ {c}
  PROVE  /\ Len(stack'[d]) = Len(stack[d]) /\ (stack'[d] = <<>> <=> stack[d] = <<>>)
         /\ stack[d] # <<>> => Top(d)'.pc = Top(d).pc
<1>1. PICK A : stack \in Stacks(A)
  BY DEF StackShape
<1>2. PICK B : stack' \in Stacks(B)
  BY DEF StackShape
<1>3. stack[d] \in Seq(Frames(A)) /\ stack'[d] \in Seq(Frames(B))
  BY <1>1, <1>2 DEF Stacks
<1>4. Len(stack'[d]) = Len(stack[d]) /\ \A i \in 1..Len(stack[d]) : stack'[d][i] = Replug(stack[d][i], state)
  BY DEF OthersReplug
<1>5. stack'[d] = <<>> <=> stack[d] = <<>>
  BY <1>3, <1>4, EmptySeq
<1>6. ASSUME stack[d] # <<>> PROVE Top(d)'.pc = Top(d).pc
  <2>1. Len(stack[d]) \in 1..Len(stack[d])
    BY <1>3, <1>6, EmptySeq
  <2>2. stack[d][Len(stack[d])] \in Frames(A)
    BY <1>3, <2>1, ElementOfSeq
  <2>3. stack'[d][Len(stack[d])].pc = stack[d][Len(stack[d])].pc
    BY <1>4, <2>1, <2>2, ReplugFrame
  <2>4. QED
    BY <1>4, <2>3 DEF Top, Last
<1>7. QED
  BY <1>4, <1>5, <1>6

-------------------------------------------------------------------------------
(***************************************************************************)
(* What a step can do to the history of the calls that run alone.          *)
(***************************************************************************)
Kept ==
    \A d \in Callers :
        /\ now'[d].alone = now[d].alone
        /\ now[d].alone => /\ now'[d].n = now[d].n /\ now'[d].retries = now[d].retries
                           /\ now'[d].clean = now[d].clean /\ now'[d].calm = now[d].calm

SendsKept == \A d \in Callers : now[d].alone => now'[d].sends = now[d].sends

LEMMA NowKept == NowShape /\ UNCHANGED now => NowShape' /\ Kept /\ SendsKept
  BY DEF NowShape, Kept, SendsKept

LEMMA NotedKept ==
  ASSUME NowShape, NEW c \in Callers, NEW outcome, now' = Noted(c, outcome)
  PROVE  /\ NowShape' /\ Kept /\ SendsKept
         /\ now[c].alone => now'[c].result = outcome
         /\ \A d \in Callers \ {c} : now'[d] = now[d]
<1>1. PICK R : NoResult \in R /\ now \in [Callers -> Records(R)]
  BY DEF NowShape
<1> DEFINE S == R \cup {outcome}
<1>2. \A d \in Callers : now[d] \in Records(R)
  BY <1>1
<1>3. NoCall \in Records(S) /\ ~NoCall.alone
  BY <1>1 DEF NoCall, Records
<1>4. \A d \in Callers : now[d] \in Records(S) /\ [now[d] EXCEPT !.result = outcome] \in Records(S)
  BY <1>2 DEF Records
<1>5. \A d \in Callers : now'[d] = IF d # c THEN now[d]
                                   ELSE IF now[d].alone THEN [now[d] EXCEPT !.result = outcome] ELSE NoCall
  BY <1>1 DEF Noted
<1>6. now' \in [Callers -> Records(S)]
  <2>1. now' = [d \in Callers |-> now'[d]]
    BY <1>1 DEF Noted
  <2>2. \A d \in Callers : now'[d] \in Records(S)
    BY <1>3, <1>4, <1>5
  <2>3. QED
    BY <2>1, <2>2
<1>7. NowShape'
  BY <1>1, <1>6 DEF NowShape
<1>8. Kept /\ SendsKept
  BY <1>2, <1>3, <1>5 DEF Records, Kept, SendsKept
<1>9. now[c].alone => now'[c].result = outcome
  BY <1>2, <1>5 DEF Records
<1>10. QED
  BY <1>5, <1>7, <1>8, <1>9

(* A call that runs alone counts the times it sends its own command.       *)
LEMMA SendsSet ==
  ASSUME NowShape, NEW c \in Callers, NEW own \in BOOLEAN,
         now' = [now EXCEPT ![c].sends = IF own /\ now[c].alone THEN @ + 1 ELSE @]
  PROVE  /\ NowShape' /\ Kept /\ \A d \in Callers : now'[d].result = now[d].result
         /\ \A d \in Callers : now[d].alone =>
               now'[d].sends = IF d = c /\ own THEN now[d].sends + 1 ELSE now[d].sends
<1>1. PICK R : NoResult \in R /\ now \in [Callers -> Records(R)]
  BY DEF NowShape
<1> DEFINE n == IF own /\ now[c].alone THEN now[c].sends + 1 ELSE now[c].sends
<1>2. \A d \in Callers : now[d] \in Records(R)
  BY <1>1
<1>3. \A d \in Callers : now'[d] = IF d = c THEN [now[d] EXCEPT !.sends = n] ELSE now[d]
  BY <1>1
<1>4. n \in Nat
  BY <1>2 DEF Records
<1>5. n = IF own /\ now[c].alone THEN now[c].sends + 1 ELSE now[c].sends
  OBVIOUS
<1> HIDE DEF n
<1>6. \A d \in Callers : [now[d] EXCEPT !.sends = n] \in Records(R)
  BY <1>2, <1>4 DEF Records
<1>7. now' \in [Callers -> Records(R)]
  BY <1>1, <1>2, <1>3, <1>6
<1>8. NowShape'
  BY <1>1, <1>7 DEF NowShape
<1>9. Kept /\ \A d \in Callers : now'[d].result = now[d].result
  BY <1>2, <1>3 DEF Records, Kept
<1>10. \A d \in Callers : now[d].alone =>
               now'[d].sends = IF d = c /\ own THEN now[d].sends + 1 ELSE now[d].sends
  BY <1>2, <1>3, <1>5 DEF Records
<1>11. QED
  BY <1>8, <1>9, <1>10

-------------------------------------------------------------------------------
(***************************************************************************)
(* What a step of a caller can be: its top frame goes on, and may send its *)
(* command; a frame is put on top for a retry or for the error code; the   *)
(* top frame is left.                                                      *)
(***************************************************************************)
HistoryKept == NowShape' /\ Kept /\ SendsKept

HasSent(f) == f.pc \in {"recv", "recvCrc"}

Ended(f) == f.pc \in Closing

(* The top frame becomes g, which reads from an open port at most.         *)
Runs(c, state, g) ==
    /\ Swaps(c, state, g)
    /\ g.cmd = Top(c).cmd /\ g.pc \notin Waits
    /\ state = "current" => serial' = serial
    /\ g.on = "current" => serial' = "open"

Counted(c) ==
    \/ retry_count' \in {0, retry_count}
    \/ retry_count + 1 < now[c].retries /\ retry_count' = retry_count + 1

Goes(c) ==
    /\ HistoryKept
    /\ \E state \in Ports : \E g :
          /\ Runs(c, state, g)
          /\ \/ Ended(g) /\ Counted(c)
             \/ /\ ~Ended(Top(c)) /\ ~Ended(g) /\ retry_count' = retry_count
                /\ HasSent(g) <=> HasSent(Top(c))

Sends(c) ==
    /\ NowShape' /\ Kept
    /\ \A d \in Callers : now[d].alone =>
          now'[d].sends = IF d = c /\ Top(c).cmd = "own" THEN now[d].sends + 1 ELSE now[d].sends
    /\ ~Ended(Top(c)) /\ ~HasSent(Top(c)) /\ retry_count' = retry_count
    /\ \E g : Runs(c, "current", g) /\ HasSent(g)

(* A frame waits for another on top of it.                                 *)
Calls(c, pc, cmd) ==
    /\ HistoryKept /\ ~Ended(Top(c)) /\ serial' = serial
    /\ \E f, g : /\ Nests(c, f, g)
                 /\ f.cmd = Top(c).cmd /\ f.pc = pc /\ f.on = "closed"
                 /\ g.cmd = cmd /\ g.pc \in {"spin", "begin"} /\ g.on = "closed" /\ g.ans = <<>>

Retried(c) ==
    /\ Calls(c, "retry", "own") /\ Top(c).cmd = "own"
    /\ retry_count + 1 < now[c].retries /\ retry_count' = retry_count + 1

Asks(c) == Calls(c, "error", "S80") /\ retry_count' = 0

Goodbye(c) ==
    /\ HistoryKept /\ Leaves(c) /\ Ended(Top(c))
    /\ retry_count' = retry_count /\ serial' = serial

Kind(c) == Goes(c) \/ Sends(c) \/ Retried(c) \/ Asks(c) \/ Goodbye(c)

(* What it is to the port and the event.                                   *)
Busy(c)  == /\ stack'[c] # <<>> /\ Top(c)'.pc \notin {"close", "clear"}
            /\ serial' = "none" => serial = "none"
Turns(c) == /\ UNCHANGED <<serial, event>> /\ stack'[c] # <<>>
            /\ Top(c)'.pc = IF serial = "none" THEN "clear" ELSE "close"
Drops(c) == serial' = "none" /\ stack'[c] # <<>> /\ Top(c)'.pc = "clear"
Quits(c) == /\ Leaves(c) /\ serial' = serial
            /\ \/ event' = FALSE /\ Top(c).pc = "clear"
               \/ event' = event /\ serial = "none" /\ Top(c).pc = "close"

Port(c) == Busy(c) \/ Turns(c) \/ Drops(c) \/ Quits(c)

(* The call is settled.                                                    *)
LEMMA EndAt ==
  ASSUME Shape, NEW c \in Callers, stack[c] # <<>>, NEW outcome, NEW rest, End(c, outcome, rest)
  PROVE  /\ Swaps(c, "current", Frame(Top(c).cmd, "finally")) /\ HistoryKept
         /\ now[c].alone => now'[c].result = outcome
<1>1. Swaps(c, "current", Frame(Top(c).cmd, "finally"))
  BY GotoSame DEF End, Shape, Stages, Closing
<1>2. HistoryKept /\ (now[c].alone => now'[c].result = outcome)
  BY NotedKept DEF End, Shape, HistoryKept
<1>3. QED
  BY <1>1, <1>2

LEMMA EndGoes ==
  ASSUME Shape, NEW c \in Callers, stack[c] # <<>>, NEW outcome, NEW rest, End(c, outcome, rest),
         serial' = serial, Counted(c)
  PROVE  Goes(c) /\ Busy(c)
<1> DEFINE g == Frame(Top(c).cmd, "finally")
<1>1. Swaps(c, "current", g) /\ HistoryKept
  BY EndAt
<1>2. g.cmd = Top(c).cmd /\ g.pc = "finally" /\ g.on = "closed"
  BY DEF Frame
<1>3. stack'[c] # <<>> /\ Top(c)' = g
  BY <1>1, SwapsTop DEF Shape
<1> HIDE DEF g
<1>4. Runs(c, "current", g) /\ Ended(g)
  BY <1>1, <1>2 DEF Runs, Ended, Waits, Closing
<1>5. QED
  BY <1>1, <1>2, <1>3, <1>4 DEF Goes, Busy, Ports

(* A nested command.                                                       *)
LEMMA commandAt ==
  ASSUME Shape, NEW c \in Callers, stack[c] # <<>>, NEW A, <<>> \in A, stack \in Stacks(A),
         NEW B, A \subseteq B, NEW f \in Frames(B), NEW cmd \in {"own", "S80"}, NEW rest,
         command(c, f, cmd, rest)
  PROVE  \/ Raise(c, "RecursionError", rest)
         \/ /\ Len(stack[c]) < MaxDepth /\ rx' = rest /\ UNCHANGED now
            /\ \E pc \in {"spin", "begin"} : Nests(c, [f EXCEPT !.on = "closed"], Frame(cmd, pc))
<1>1. [f EXCEPT !.on = "closed"] \in Frames(B)
  BY DEF Frames, Ports
<1>2. \A pc \in {"spin", "begin"} : Frame(cmd, pc) \in Frames(B)
  BY FrameShape DEF Stages, Opening
<1> DEFINE h == [f EXCEPT !.on = "closed"]
           g == Frame(cmd, IF c \in Main THEN "begin" ELSE "spin")
<1>3. CASE /\ Len(stack[c]) < MaxDepth /\ rx' = rest /\ UNCHANGED now
           /\ stack' = [stack EXCEPT ![c] = Append(Append(Front(@), h), g)]
  <2>1. h \in Frames(B) /\ g \in Frames(B)
    BY <1>1, <1>2
  <2> HIDE DEF h, g
  <2>2. Nests(c, h, g)
    BY <1>3, <2>1, NestsAt
  <2>3. QED
    BY <1>3, <2>2 DEF h, g
<1>4. QED
  BY <1>3 DEF command

LEMMA commandKind ==
  ASSUME Shape, NEW c \in Callers, stack[c] # <<>>, ~Ended(Top(c)),
         NEW A, <<>> \in A, stack \in Stacks(A),
         NEW B, A \subseteq B, NEW f \in Frames(B), f.cmd = Top(c).cmd,
         NEW cmd \in {"own", "S80"}, NEW rest, command(c, f, cmd, rest), serial' = serial
  PROVE  \/ Raise(c, "RecursionError", rest)
         \/ Calls(c, f.pc, cmd) /\ Busy(c)
<1>1. CASE /\ Len(stack[c]) < MaxDepth /\ rx' = rest /\ UNCHANGED now
           /\ \E pc \in {"spin", "begin"} : Nests(c, [f EXCEPT !.on = "closed"], Frame(cmd, pc))
  <2>1. PICK pc \in {"spin", "begin"} : Nests(c, [f EXCEPT !.on = "closed"], Frame(cmd, pc))
    BY <1>1
  <2> DEFINE h == [f EXCEPT !.on = "closed"]
             g == Frame(cmd, pc)
  <2>2. h.cmd = Top(c).cmd /\ h.pc = f.pc /\ h.on = "closed"
    BY DEF Frames
  <2>3. g.cmd = cmd /\ g.pc \in {"spin", "begin"} /\ g.on = "closed" /\ g.ans = <<>>
    BY DEF Frame
  <2>4. Nests(c, h, g)
    BY <2>1
  <2> HIDE DEF h, g
  <2>5. stack'[c] # <<>> /\ Top(c)' = g
    BY <2>4, NestsTop DEF Shape
  <2>6. HistoryKept
    BY <1>1, NowKept DEF HistoryKept, Shape
  <2>7. Busy(c)
    BY <2>3, <2>5 DEF Busy
  <2>8. QED
    BY <2>2, <2>3, <2>4, <2>6, <2>7 DEF Calls
<1>2. QED
  BY <1>1, commandAt

-------------------------------------------------------------------------------
(***************************************************************************)
(* What each step is.                                                      *)
(***************************************************************************)

(* The top frame moves on and nothing is sent or settled.                  *)
LEMMA MovesGoes ==
  ASSUME Shape, NEW c \in Callers, stack[c] # <<>>, ~Ended(Top(c)), NEW pc \in Stages,
         stack' = Goto(stack, c, pc), pc \notin Waits \cup Closing,
         pc \in {"recv", "recvCrc"} <=> HasSent(Top(c)),
         UNCHANGED <<serial, retry_count, now>>
  PROVE  Goes(c) /\ Busy(c)
<1> DEFINE g == Frame(Top(c).cmd, pc)
<1>1. Swaps(c, "current", g)
  BY GotoSame DEF Shape
<1>2. g.cmd = Top(c).cmd /\ g.pc = pc /\ g.on = "closed"
  BY DEF Frame
<1>3. stack'[c] # <<>> /\ Top(c)' = g
  BY <1>1, SwapsTop DEF Shape
<1> HIDE DEF g
<1>4. Runs(c, "current", g) /\ ~Ended(g) /\ (HasSent(g) <=> HasSent(Top(c)))
  BY <1>1, <1>2 DEF Runs, Ended, HasSent
<1>5. HistoryKept
  BY NowKept DEF HistoryKept, Shape
<1>6. QED
  BY <1>2, <1>3, <1>4, <1>5 DEF Goes, Busy, Closing, Ports

LEMMA SpinKind ==
  ASSUME Shape, NEW c \in Callers, Spin(c)
  PROVE  Goes(c) /\ Busy(c)
<1>1. stack[c] # <<>> /\ Top(c).pc = "spin"
  BY DEF Spin, At
<1>2. QED
  BY <1>1, MovesGoes DEF Spin, Ended, HasSent, Stages, Waits, Closing, Opening, client

LEMMA BeginKind ==
  ASSUME Shape, NEW c \in Callers, Begin(c)
  PROVE  Goes(c) /\ Busy(c)
<1>1. stack[c] # <<>> /\ Top(c).pc \in {"scheduled", "begin"}
  BY DEF Begin, At
<1>2. QED
  BY <1>1, MovesGoes DEF Begin, Ended, HasSent, Stages, Waits, Closing, Opening

(* The frame that has tried to open a port.                                *)
Opened(cmd) == [Frame(cmd, "drain") EXCEPT !.on = IF serial' = "open" THEN "current" ELSE "closed"]

LEMMA OpenPortAt ==
  ASSUME Shape, NEW c \in Callers, OpenPort(c)
  PROVE  /\ stack[c] # <<>> /\ Top(c).pc = "open"
         /\ \/ Swaps(c, "replaced", Opened(Top(c).cmd)) /\ serial' = "open" /\ rx' = <<>>
               /\ faults' = faults
            \/ Swaps(c, "current", Opened(Top(c).cmd)) /\ serial' = serial /\ rx' = rx /\ Fault
         /\ Opened(Top(c).cmd).cmd = Top(c).cmd /\ Opened(Top(c).cmd).pc = "drain"
         /\ Opened(Top(c).cmd).ans = <<>>
         /\ Opened(Top(c).cmd).on = IF serial' = "open" THEN "current" ELSE "closed"
<1>1. PICK A : <<>> \in A /\ stack \in Stacks(A)
  BY DEF Shape, StackShape
<1>2. stack[c] # <<>> /\ Top(c).pc = "open"
  BY DEF OpenPort, At
<1>3. Top(c).cmd \in {"own", "S80"}
  BY <1>1, <1>2, TopShape DEF Frames
<1> DEFINE f == Frame(Top(c).cmd, "drain")
           g == Opened(Top(c).cmd)
<1>4. f \in Frames(A) /\ f.cmd = Top(c).cmd /\ f.pc = "drain" /\ f.ans = <<>> /\ f.on = "closed"
  BY <1>1, <1>3, FrameShape DEF Stages
<1>5. g = [f EXCEPT !.on = IF serial' = "open" THEN "current" ELSE "closed"]
  BY DEF Opened
<1>6. CASE serial' = "open" /\ rx' = <<>> /\ faults' = faults
           /\ stack' = SetTop(Currents(stack, "replaced"), c, [f EXCEPT !.on = "current"])
  <2>1. g = [f EXCEPT !.on = "current"]
    BY <1>5, <1>6
  <2> HIDE DEF f, g
  <2>2. /\ g \in Frames(A) /\ g.cmd = Top(c).cmd /\ g.pc = "drain" /\ g.ans = <<>> /\ g.on = "current"
    BY <1>4, <2>1 DEF Frames, Ports
  <2>3. stack' = SetTop(Currents(stack, "replaced"), c, g)
    BY <1>6, <2>1
  <2>4. Swaps(c, "replaced", g)
    BY <1>1, <1>2, <2>2, <2>3, SwapsAt DEF Ports
  <2>5. QED
    BY <1>2, <1>6, <2>2, <2>4 DEF g
<1>7. CASE Fault /\ UNCHANGED <<serial, rx>> /\ stack' = SetTop(stack, c, ReadNext(f))
  <2>1. g = ReadNext(f)
    BY <1>5, <1>7 DEF ReadNext
  <2> HIDE DEF f
  <2>2. /\ g \in Frames(A) /\ g.cmd = Top(c).cmd /\ g.pc = "drain" /\ g.ans = <<>>
        /\ g.on = IF serial' = "open" THEN "current" ELSE "closed"
    BY <1>4, <1>5 DEF Frames, Ports
  <2> HIDE DEF g
  <2>3. stack' = SetTop(stack, c, g)
    BY <1>7, <2>1
  <2>4. Swaps(c, "current", g)
    BY <1>1, <1>2, <2>2, <2>3, SwapsSame
  <2>5. QED
    BY <1>2, <1>7, <2>2, <2>4 DEF g
<1>8. QED
  BY <1>6, <1>7 DEF OpenPort

LEMMA OpenPortKind ==
  ASSUME Shape, NEW c \in Callers, OpenPort(c)
  PROVE  Goes(c) /\ Busy(c) /\ serial' \in {"none", "open", "closed"}
<1> DEFINE g == Opened(Top(c).cmd)
<1>1. /\ stack[c] # <<>> /\ Top(c).pc = "open"
      /\ g.cmd = Top(c).cmd /\ g.pc = "drain" /\ g.on = IF serial' = "open" THEN "current" ELSE "closed"
  BY OpenPortAt
<1>2. PICK state \in {"current", "replaced"} :
         /\ Swaps(c, state, g)
         /\ \/ state = "replaced" /\ serial' = "open"
            \/ state = "current" /\ serial' = serial
  <2>1. CASE Swaps(c, "replaced", g) /\ serial' = "open"
    BY <2>1
  <2>2. CASE Swaps(c, "current", g) /\ serial' = serial
    BY <2>2
  <2>3. QED
    BY <2>1, <2>2, OpenPortAt
<1>3. UNCHANGED <<now, retry_count>>
  BY DEF OpenPort
<1> HIDE DEF g
<1>4. HistoryKept
  BY <1>3, NowKept DEF HistoryKept, Shape
<1>5. Runs(c, state, g) /\ ~Ended(g) /\ ~Ended(Top(c)) /\ ~HasSent(g) /\ ~HasSent(Top(c))
  BY <1>1, <1>2 DEF Runs, Ended, Waits, Closing, HasSent
<1>6. stack'[c] # <<>> /\ Top(c)' = g
  BY <1>2, SwapsTop DEF Shape
<1>7. serial' \in {"none", "open", "closed"} /\ (serial' = "none" => serial = "none")
  BY <1>2 DEF Shape
<1>8. QED
  BY <1>1, <1>2, <1>3, <1>4, <1>5, <1>6, <1>7 DEF Goes, Busy, Ports

(* The frame that has read the next line.                                  *)
Taken(c) ==
    LET l == Head(rx)
    IN  [Top(c) EXCEPT !.ans = IF l = Line("echo", pending) THEN @ ELSE Append(@, l),
                       !.pc = IF l.k \notin {"OK", "ERROR"} THEN @
                              ELSE IF @ = "drain" THEN "drainCrc" ELSE "recvCrc"]

LEMMA TakeLineAt ==
  ASSUME Shape, NEW c \in Callers, TakeLine(c)
  PROVE  /\ stack[c] # <<>> /\ Top(c).pc \in {"drain", "recv"} /\ Top(c).on # "closed" /\ rx # <<>>
         /\ Swaps(c, "current", ReadNext(Taken(c)))
         /\ ReadNext(Taken(c)).cmd = Top(c).cmd
         /\ ReadNext(Taken(c)).pc = IF Head(rx).k \notin {"OK", "ERROR"} THEN Top(c).pc
                                    ELSE IF Top(c).pc = "drain" THEN "drainCrc" ELSE "recvCrc"
         /\ ReadNext(Taken(c)).ans = IF Head(rx) = Line("echo", pending) THEN Top(c).ans
                                     ELSE Append(Top(c).ans, Head(rx))
         /\ ReadNext(Taken(c)).on = IF serial = "open" THEN "current" ELSE "closed"
<1>1. PICK A : <<>> \in A /\ stack \in Stacks(A)
  BY DEF Shape, StackShape
<1>2. stack[c] # <<>> /\ Top(c).pc \in {"drain", "recv"} /\ Top(c).on # "closed" /\ rx # <<>>
  BY DEF TakeLine, At
<1>3. Top(c) \in Frames(A)
  BY <1>1, <1>2, TopShape
<1> DEFINE ans == IF Head(rx) = Line("echo", pending) THEN Top(c).ans ELSE Append(Top(c).ans, Head(rx))
           pc == IF Head(rx).k \notin {"OK", "ERROR"} THEN Top(c).pc
                 ELSE IF Top(c).pc = "drain" THEN "drainCrc" ELSE "recvCrc"
           on == IF serial = "open" THEN "current" ELSE "closed"
           B == A \cup {ans}
           g == ReadNext(Taken(c))
<1>4. g = [[Top(c) EXCEPT !.ans = ans, !.pc = pc] EXCEPT !.on = on]
  BY DEF Taken, ReadNext
<1>5. pc \in Stages /\ on \in Ports
  BY <1>2 DEF Stages, Ports
<1>6. stack' = SetTop(stack, c, g)
  BY DEF TakeLine, Taken
<1> HIDE DEF ans, pc, on, g
<1>7. g \in Frames(B) /\ g.cmd = Top(c).cmd /\ g.ans = ans /\ g.pc = pc /\ g.on = on
  BY <1>3, <1>4, <1>5 DEF Frames
<1>8. Swaps(c, "current", g)
  BY <1>1, <1>2, <1>6, <1>7, SwapsSame
<1>9. QED
  BY <1>2, <1>7, <1>8 DEF g, ans, pc, on

LEMMA TakeLineKind ==
  ASSUME Shape, NEW c \in Callers, TakeLine(c)
  PROVE  Goes(c) /\ Busy(c)
<1> DEFINE g == ReadNext(Taken(c))
<1>1. /\ Swaps(c, "current", g) /\ stack[c] # <<>> /\ Top(c).pc \in {"drain", "recv"}
      /\ g.cmd = Top(c).cmd
      /\ g.pc \in IF Top(c).pc = "drain" THEN {"drain", "drainCrc"} ELSE {"recv", "recvCrc"}
      /\ g.on = "current" => serial = "open"
  BY TakeLineAt
<1>2. UNCHANGED <<now, serial, retry_count>>
  BY DEF TakeLine, client
<1> HIDE DEF g
<1>3. HistoryKept
  BY <1>2, NowKept DEF HistoryKept, Shape
<1>4. Runs(c, "current", g) /\ ~Ended(g) /\ ~Ended(Top(c)) /\ (HasSent(g) <=> HasSent(Top(c)))
  BY <1>1, <1>2 DEF Runs, Ended, Waits, Closing, HasSent
<1>5. stack'[c] # <<>> /\ Top(c)' = g
  BY <1>1, SwapsTop DEF Shape
<1>6. QED
  BY <1>1, <1>2, <1>3, <1>4, <1>5 DEF Goes, Busy, Ports

(* The frame that has sent its command.                                    *)
Sent(cmd) == [Frame(cmd, "recv") EXCEPT !.on = "current"]

Sending(c, believed, rest) ==
    /\ serial = "open" /\ rx' = rest /\ Swaps(c, "current", Sent(Top(c).cmd))
    /\ work' = Append(work, [id |-> Request(c, Top(c).cmd), crc |-> believed = "on"])
    /\ now' = [now EXCEPT ![c].sends = IF Top(c).cmd = "own" /\ now[c].alone THEN @ + 1 ELSE @]

LEMMA SendAt ==
  ASSUME Shape, NEW c \in Callers, stack[c] # <<>>, NEW believed, NEW rest,
         Send(c, believed, rest)
  PROVE  /\ pending' = Request(c, Top(c).cmd)
         /\ \/ serial # "open" /\ Raise(c, "broken", rest) /\ work' = work
            \/ Sending(c, believed, rest)
         /\ Sent(Top(c).cmd).cmd = Top(c).cmd /\ Sent(Top(c).cmd).pc = "recv"
         /\ Sent(Top(c).cmd).ans = <<>> /\ Sent(Top(c).cmd).on = "current"
<1>1. PICK A : <<>> \in A /\ stack \in Stacks(A)
  BY DEF Shape, StackShape
<1>2. Top(c).cmd \in {"own", "S80"}
  BY <1>1, TopShape DEF Frames
<1> DEFINE f == Frame(Top(c).cmd, "recv")
           g == Sent(Top(c).cmd)
<1>3. f \in Frames(A) /\ f.cmd = Top(c).cmd /\ f.pc = "recv" /\ f.ans = <<>>
  BY <1>1, <1>2, FrameShape DEF Stages
<1>4. g = [f EXCEPT !.on = "current"]
  BY DEF Sent
<1> HIDE DEF f
<1>5. g \in Frames(A) /\ g.cmd = Top(c).cmd /\ g.pc = "recv" /\ g.ans = <<>> /\ g.on = "current"
  BY <1>3, <1>4 DEF Frames, Ports
<1>6. ASSUME stack' = SetTop(stack, c, g) PROVE Swaps(c, "current", g)
  <2> HIDE DEF g
  <2>1. QED
    BY <1>1, <1>5, <1>6, SwapsSame
<1>7. QED
  BY <1>5, <1>6 DEF Send, Sent, Sending

LEMMA SendKind ==
  ASSUME Shape, NEW c \in Callers, stack[c] # <<>>, Top(c).pc \in {"drain", "drainCrc"},
         NEW believed, NEW rest, Send(c, believed, rest), UNCHANGED <<serial, retry_count>>
  PROVE  (Goes(c) \/ Sends(c)) /\ Busy(c)
<1> DEFINE g == Sent(Top(c).cmd)
           own == Top(c).cmd = "own"
<1>1. CASE Raise(c, "broken", rest)
  BY <1>1, EndGoes DEF Raise, Counted
<1>2. CASE Sending(c, believed, rest)
  <2>0. /\ serial = "open" /\ Swaps(c, "current", g)
        /\ now' = [now EXCEPT ![c].sends = IF own /\ now[c].alone THEN @ + 1 ELSE @]
    BY <1>2 DEF Sending
  <2>1. g.cmd = Top(c).cmd /\ g.pc = "recv" /\ g.on = "current"
    BY SendAt
  <2> HIDE DEF g
  <2>2. own \in BOOLEAN
    OBVIOUS
  <2>3. /\ NowShape' /\ Kept
        /\ \A d \in Callers : now[d].alone =>
              now'[d].sends = IF d = c /\ own THEN now[d].sends + 1 ELSE now[d].sends
    <3> HIDE DEF own
    <3>1. QED
      BY <2>0, <2>2, SendsSet DEF Shape
  <2>4. Runs(c, "current", g) /\ HasSent(g) /\ ~HasSent(Top(c)) /\ ~Ended(Top(c))
    BY <2>0, <2>1 DEF Runs, Waits, HasSent, Ended, Closing
  <2>5. stack'[c] # <<>> /\ Top(c)' = g
    BY <2>0, SwapsTop DEF Shape
  <2>6. Sends(c)
    BY <2>3, <2>4 DEF Sends
  <2>7. QED
    BY <2>1, <2>5, <2>6 DEF Busy
<1>3. QED
  BY <1>1, <1>2, SendAt

(* The frame that asks for the error code, and the one that tries again.   *)
Erred(c) == [Top(c) EXCEPT !.ans = RemoveFirst(Top(c).ans, Line("echo", Request(c, Top(c).cmd))),
                           !.pc = "error"]
Again(c) == [Top(c) EXCEPT !.pc = "retry"]

LEMMA ReceivedKind ==
  ASSUME Shape, NEW c \in Callers, stack[c] # <<>>, ~Ended(Top(c)), NEW rest,
         Received(c, rest), serial' = serial
  PROVE  (Goes(c) \/ Asks(c)) /\ Busy(c)
<1>1. PICK A : <<>> \in A /\ stack \in Stacks(A)
  BY DEF Shape, StackShape
<1>2. Top(c) \in Frames(A)
  BY <1>1, TopShape
<1> DEFINE ans == RemoveFirst(Top(c).ans, Line("echo", Request(c, Top(c).cmd)))
           B == A \cup {ans}
           f == Erred(c)
<1>3. f = [Top(c) EXCEPT !.ans = ans, !.pc = "error"]
  BY DEF Erred
<1>4. retry_count' = 0
  BY DEF Received
<1>5. CASE command(c, f, "S80", rest)
  <2> HIDE DEF ans, f
  <2>1. f \in Frames(B) /\ f.cmd = Top(c).cmd /\ f.pc = "error"
    BY <1>2, <1>3 DEF Frames, Stages, Waits
  <2>2. CASE Raise(c, "RecursionError", rest)
    BY <1>4, <2>2, EndGoes DEF Raise, Counted
  <2>3. CASE Calls(c, f.pc, "S80") /\ Busy(c)
    BY <1>4, <2>1, <2>3 DEF Asks
  <2>4. A \subseteq B
    OBVIOUS
  <2> HIDE DEF B
  <2>5. QED
    BY <1>1, <1>5, <2>1, <2>2, <2>3, <2>4, commandKind
<1>6. CASE End(c, [kind |-> "answer", ans |-> Response(c, ans)], rest)
  BY <1>4, <1>6, EndGoes DEF Counted
<1>7. QED
  BY <1>5, <1>6 DEF Received, Erred

LEMMA CrcErrorKind ==
  ASSUME Shape, NEW c \in Callers, stack[c] # <<>>, ~Ended(Top(c)), NEW rest,
         CrcError(c, rest), serial' = serial
  PROVE  (Goes(c) \/ Retried(c)) /\ Busy(c)
<1>1. PICK A : <<>> \in A /\ stack \in Stacks(A)
  BY DEF Shape, StackShape
<1>2. Top(c) \in Frames(A)
  BY <1>1, TopShape
<1> DEFINE f == Again(c)
<1>3. f \in Frames(A) /\ f.cmd = Top(c).cmd /\ f.pc = "retry" /\ Top(c).cmd \in {"own", "S80"}
  BY <1>2 DEF Again, Frames, Stages, Waits
<1>4. CASE /\ retry_count + 1 < Limit(c) /\ retry_count' = retry_count + 1
           /\ command(c, f, Top(c).cmd, rest)
  <2>1. Top(c).cmd = "own" /\ retry_count + 1 < now[c].retries
    BY <1>4 DEF Limit, Shape
  <2> HIDE DEF f
  <2>2. CASE Raise(c, "RecursionError", rest)
    BY <1>4, <2>1, <2>2, EndGoes DEF Raise, Counted
  <2>3. CASE Calls(c, f.pc, Top(c).cmd) /\ Busy(c)
    BY <1>3, <1>4, <2>1, <2>3 DEF Retried
  <2>4. QED
    BY <1>1, <1>3, <1>4, <2>2, <2>3, commandKind
<1>5. CASE retry_count' = 0 /\ Raise(c, "AtException", rest)
  BY <1>5, EndGoes DEF Raise, Counted
<1>6. QED
  BY <1>4, <1>5 DEF CrcError, Again

LEMMA FinallyKind ==
  ASSUME Shape, NEW c \in Callers, Finally(c)
  PROVE  Goes(c) /\ Turns(c)
<1> DEFINE pc == IF serial = "none" THEN "clear" ELSE "close"
           g  == Frame(Top(c).cmd, pc)
<1>1. stack[c] # <<>> /\ Top(c).pc = "finally"
  BY DEF Finally, At
<1>2. pc \in Stages /\ pc \in Closing
  BY DEF Stages, Closing
<1>3. stack' = Goto(stack, c, pc) /\ UNCHANGED <<serial, event, retry_count, now>>
  BY DEF Finally, client
<1>4. pc = IF serial = "none" THEN "clear" ELSE "close"
  OBVIOUS
<1> HIDE DEF pc
<1>5. Swaps(c, "current", g)
  BY <1>1, <1>2, <1>3, GotoSame DEF Shape
<1>6. g.cmd = Top(c).cmd /\ g.pc = pc /\ g.on = "closed"
  BY DEF Frame
<1> HIDE DEF g
<1>7. stack'[c] # <<>> /\ Top(c)' = g
  BY <1>5, SwapsTop DEF Shape
<1>8. Runs(c, "current", g) /\ Ended(g) /\ Counted(c)
  BY <1>2, <1>3, <1>5, <1>6 DEF Runs, Ended, Counted, Closing, Waits
<1>9. HistoryKept
  BY <1>3, NowKept DEF HistoryKept, Shape
<1>10. QED
  BY <1>3, <1>4, <1>6, <1>7, <1>8, <1>9 DEF Goes, Turns, Ports

(* A port is closed, or forgotten, whoever reads from it.                  *)
LEMMA GivesUp ==
  ASSUME Shape, NEW c \in Callers, stack[c] # <<>>, NEW state \in {"replaced", "closed"},
         NEW pc \in {"drop", "clear"}, stack' = Goto(Currents(stack, state), c, pc),
         UNCHANGED <<retry_count, now>>
  PROVE  /\ Goes(c) /\ Swaps(c, state, Frame(Top(c).cmd, pc))
         /\ stack'[c] # <<>> /\ Top(c)'.pc = pc
<1> DEFINE g  == Frame(Top(c).cmd, pc)
<1>1. pc \in Stages /\ pc \in Closing /\ state \in Ports
  BY DEF Stages, Closing, Ports
<1>2. Swaps(c, state, g)
  BY <1>1, GotoAt DEF Shape
<1>3. g.cmd = Top(c).cmd /\ g.pc = pc /\ g.on = "closed"
  BY DEF Frame
<1> HIDE DEF g
<1>4. stack'[c] # <<>> /\ Top(c)' = g
  BY <1>2, SwapsTop DEF Shape
<1>5. Runs(c, state, g) /\ Ended(g) /\ Counted(c)
  BY <1>1, <1>2, <1>3 DEF Runs, Ended, Counted, Closing, Waits
<1>6. HistoryKept
  BY NowKept DEF HistoryKept, Shape
<1>7. QED
  BY <1>1, <1>2, <1>3, <1>4, <1>5, <1>6 DEF Goes, g

LEMMA CloseKind ==
  ASSUME Shape, NEW c \in Callers, Close(c)
  PROVE  (Goes(c) /\ Busy(c)) \/ (Goodbye(c) /\ Quits(c))
<1>1. stack[c] # <<>> /\ Top(c).pc = "close"
  BY DEF Close, At
<1>2. UNCHANGED <<event, retry_count>>
  BY DEF Close
<1>3. CASE serial' = "closed" /\ stack' = Goto(Currents(stack, "closed"), c, "drop") /\ UNCHANGED now
  BY <1>1, <1>2, <1>3, GivesUp DEF Busy
<1>4. CASE /\ serial = "none" /\ UNCHANGED serial /\ stack' = Left(c)
           /\ now' = Noted(c, [kind |-> "broken", ans |-> <<>>])
  <2>1. PICK A : <<>> \in A /\ stack \in Stacks(A)
    BY DEF Shape, StackShape
  <2>2. Leaves(c)
    BY <1>1, <1>4, <2>1, LeavesAt
  <2>3. HistoryKept
    BY <1>4, NotedKept DEF HistoryKept, Shape
  <2>4. QED
    BY <1>1, <1>2, <1>4, <2>2, <2>3 DEF Goodbye, Quits, Ended, Closing
<1>5. QED
  BY <1>3, <1>4 DEF Close

LEMMA DropKind ==
  ASSUME Shape, NEW c \in Callers, Drop(c)
  PROVE  Goes(c) /\ Drops(c)
<1>1. stack[c] # <<>>
  BY DEF Drop, At
<1>2. QED
  BY <1>1, GivesUp DEF Drop, Drops

LEMMA ClearKind ==
  ASSUME Shape, NEW c \in Callers, Clear(c)
  PROVE  Goodbye(c) /\ Quits(c)
<1>1. stack[c] # <<>> /\ Top(c).pc = "clear"
  BY DEF Clear, At
<1>2. PICK A : <<>> \in A /\ stack \in Stacks(A)
  BY DEF Shape, StackShape
<1>3. Leaves(c)
  BY <1>1, <1>2, LeavesAt DEF Clear
<1>4. HistoryKept
  BY NowKept DEF HistoryKept, Shape, Clear
<1>5. QED
  BY <1>1, <1>3, <1>4 DEF Goodbye, Quits, Ended, Closing, Clear

(* The steps that read, in one.                                            *)
LEMMA ReadKind ==
  ASSUME Shape, NEW c \in Callers, TakeCrc(c) \/ NoCrc(c) \/ Drained(c) \/ Timeout(c) \/ Broken(c)
  PROVE  /\ (Goes(c) \/ Sends(c) \/ Retried(c) \/ Asks(c)) /\ Busy(c)
         /\ stack[c] # <<>> /\ UNCHANGED <<serial, event, calls>>
<1>1. stack[c] # <<>> /\ Top(c).pc \in {"drain", "drainCrc", "recv", "recvCrc"} /\ ~Ended(Top(c))
  BY DEF TakeCrc, NoCrc, Drained, Timeout, Broken, At, Ended, Closing
<1>2. UNCHANGED <<serial, event, calls>>
  BY DEF TakeCrc, NoCrc, Drained, Timeout, Broken, client
<1>3. CASE TakeCrc(c)
  <2>1. CASE CrcError(c, Tail(rx))
    BY <1>1, <1>2, <2>1, CrcErrorKind
  <2>2. CASE At(c, {"drainCrc"}) /\ Send(c, "on", Tail(rx)) /\ UNCHANGED retry_count
    BY <1>1, <1>2, <2>2, SendKind DEF At
  <2>3. CASE Received(c, Tail(rx))
    BY <1>1, <1>2, <2>3, ReceivedKind
  <2>4. QED
    BY <1>1, <1>2, <1>3, <2>1, <2>2, <2>3 DEF TakeCrc
<1>4. CASE NoCrc(c)
  <2>1. CASE Raise(c, "AtCrcConfigError", rx) /\ UNCHANGED retry_count
    BY <1>1, <1>2, <2>1, EndGoes DEF Raise, Counted
  <2>2. CASE At(c, {"drainCrc"}) /\ Send(c, "off", rx) /\ UNCHANGED retry_count
    BY <1>1, <1>2, <2>2, SendKind DEF At
  <2>3. CASE Received(c, rx)
    BY <1>1, <1>2, <2>3, ReceivedKind
  <2>4. QED
    BY <1>1, <1>2, <1>4, <2>1, <2>2, <2>3 DEF NoCrc
<1>5. CASE Drained(c)
  BY <1>1, <1>2, <1>5, SendKind DEF Drained, At
<1>6. CASE Timeout(c)
  BY <1>1, <1>2, <1>6, EndGoes DEF Timeout, Raise, Counted, client
<1>7. CASE Broken(c)
  BY <1>1, <1>2, <1>7, EndGoes DEF Broken, Raise, Counted, client
<1>8. QED
  BY <1>3, <1>4, <1>5, <1>6, <1>7

LEMMA StepKind ==
  ASSUME Shape, NEW c \in Callers, Step(c)
  PROVE  Shape' /\ Kind(c) /\ Port(c) /\ stack[c] # <<>>
<1>1. /\ Kind(c) /\ Port(c) /\ stack[c] # <<>>
      /\ calls' = calls /\ serial' \in {"none", "open", "closed"}
  <2>1. CASE Spin(c)
    BY <2>1, SpinKind DEF Spin, At, Kind, Port, Shape, client
  <2>2. CASE Begin(c)
    BY <2>2, BeginKind DEF Begin, At, Kind, Port, Shape
  <2>3. CASE OpenPort(c)
    BY <2>3, OpenPortKind DEF OpenPort, At, Kind, Port
  <2>4. CASE TakeLine(c)
    BY <2>4, TakeLineKind DEF TakeLine, At, Kind, Port, Shape, client
  <2>5. CASE TakeCrc(c) \/ NoCrc(c) \/ Drained(c) \/ Timeout(c) \/ Broken(c)
    BY <2>5, ReadKind DEF Kind, Port, Shape
  <2>6. CASE Finally(c)
    BY <2>6, FinallyKind DEF Finally, At, Kind, Port, Shape, client
  <2>7. CASE Close(c)
    BY <2>7, CloseKind DEF Close, At, Kind, Port, Shape
  <2>8. CASE Drop(c)
    BY <2>8, DropKind DEF Drop, At, Kind, Port
  <2>9. CASE Clear(c)
    BY <2>9, ClearKind DEF Clear, At, Kind, Port, Shape
  <2>10. QED
    BY <2>1, <2>2, <2>3, <2>4, <2>5, <2>6, <2>7, <2>8, <2>9 DEF Step
<1>2. StackShape' /\ NowShape' /\ retry_count' \in Nat
  <2>1. CASE Goes(c)
    BY <2>1 DEF Goes, Runs, Swaps, HistoryKept, Counted, Shape
  <2>2. CASE Sends(c)
    BY <2>2 DEF Sends, Runs, Swaps, Shape
  <2>3. CASE Retried(c) \/ Asks(c)
    BY <2>3 DEF Retried, Asks, Calls, Nests, HistoryKept, Shape
  <2>4. CASE Goodbye(c)
    BY <2>4 DEF Goodbye, Leaves, HistoryKept, Shape
  <2>5. QED
    BY <1>1, <2>1, <2>2, <2>3, <2>4 DEF Kind
<1>3. QED
  BY <1>1, <1>2 DEF Shape

-------------------------------------------------------------------------------
(***************************************************************************)
(* Calls, and the modem.                                                   *)
(***************************************************************************)

(* A call starts with one frame, for its own command; those that run are   *)
(* no longer alone.                                                        *)
Starts(c) ==
    /\ stack[c] = <<>> /\ \A d \in Callers \ {c} : stack'[d] = stack[d]
    /\ Len(stack'[c]) = 1
    /\ stack'[c][1] = Frame("own", IF c \in Main THEN "scheduled" ELSE "spin")
    /\ now'[c].sends = 0 /\ now'[c].retries \in Nat /\ now'[c].result = NoResult
    /\ now'[c].alone => \A d \in Callers \ {c} : stack[d] = <<>>
    /\ now'[c].clean => work = <<>>
    /\ now'[c].calm => faults = MaxFaults /\ (crc = "on" => modemCrc)
    /\ \A d \in Callers \ {c} : ~now'[d].alone
    /\ UNCHANGED <<client, modem, faults>>

Begun(n, r, alone, clean, calm) ==
    [NoCall EXCEPT !.n = n, !.retries = r, !.alone = alone, !.clean = clean, !.calm = calm]

LEMMA BegunRecord ==
  ASSUME NEW R, NoResult \in R, NEW n \in Nat, NEW r \in Retries,
         NEW alone \in BOOLEAN, NEW clean \in BOOLEAN, NEW calm \in BOOLEAN
  PROVE  LET f == Begun(n, r, alone, clean, calm)
         IN  /\ f \in Records(R) /\ f.sends = 0 /\ f.retries = r /\ f.result = NoResult
             /\ f.alone = alone /\ f.clean = clean /\ f.calm = calm
  BY DEF Begun, NoCall, Records

LEMMA CallStarts ==
  ASSUME Shape, NEW c \in Callers, Call(c)
  PROVE  Shape' /\ Starts(c)
<1>1. PICK A : <<>> \in A /\ stack \in Stacks(A)
  BY DEF Shape, StackShape
<1>2. PICK R : NoResult \in R /\ now \in [Callers -> Records(R)]
  BY DEF Shape, NowShape
<1> DEFINE f == Frame("own", IF c \in Main THEN "scheduled" ELSE "spin")
<1>3. f \in Frames(A)
  BY <1>1, FrameShape DEF Stages
<1>4. stack[c] = <<>> /\ calls' = calls + 1 /\ UNCHANGED <<client, modem, faults>>
      /\ stack' = [stack EXCEPT ![c] = <<f>>]
  BY DEF Call
<1> HIDE DEF f
<1>5. /\ stack' \in Stacks(A) /\ \A d \in Callers \ {c} : stack'[d] = stack[d]
      /\ Len(stack'[c]) = 1 /\ stack'[c][1] = f
  <2>1. <<f>> \in Seq(Frames(A)) /\ Len(<<f>>) = 1 /\ <<f>>[1] = f
    BY <1>3
  <2>2. QED
    BY <1>1, <1>4, <2>1 DEF Stacks
<1>6. StackShape'
  BY <1>1, <1>5 DEF StackShape
<1>7. PICK r \in Retries :
         now' = [d \in Callers |->
                    IF d = c THEN Fresh(c, r)
                    ELSE IF stack[d] = <<>> THEN NoCall
                    ELSE [NoCall EXCEPT !.n = now[d].n, !.retries = now[d].retries]]
  BY DEF Call
<1>8. calls + 1 \in Nat /\ r \in Nat
  BY DEF Shape
<1>9. NoCall \in Records(R) /\ ~NoCall.alone
  BY <1>2 DEF NoCall, Records
<1>10. /\ Fresh(c, r) \in Records(R) /\ Fresh(c, r).sends = 0 /\ Fresh(c, r).retries = r
       /\ Fresh(c, r).result = NoResult
       /\ Fresh(c, r).alone => \A d \in Callers \ {c} : stack[d] = <<>>
       /\ Fresh(c, r).clean => work = <<>>
       /\ Fresh(c, r).calm => faults = MaxFaults /\ (crc = "on" => modemCrc)
  <2> DEFINE alone == \A d \in Callers \ {c} : stack[d] = <<>>
             clean == alone /\ work = <<>>
             calm  == alone /\ faults = MaxFaults /\ (crc = "on" => modemCrc)
  <2>1. Fresh(c, r) = Begun(calls + 1, r, alone, clean, calm)
    BY Zenon DEF Fresh, Begun
  <2>2. alone \in BOOLEAN /\ clean \in BOOLEAN /\ calm \in BOOLEAN
    OBVIOUS
  <2> HIDE DEF alone, clean, calm
  <2>3. /\ Fresh(c, r) \in Records(R) /\ Fresh(c, r).sends = 0 /\ Fresh(c, r).retries = r
        /\ Fresh(c, r).result = NoResult /\ Fresh(c, r).alone = alone
        /\ Fresh(c, r).clean = clean /\ Fresh(c, r).calm = calm
    <3>1. NoResult \in R /\ calls + 1 \in Nat /\ r \in Retries
      BY <1>2, <1>7, <1>8
    <3>2. QED
      BY ONLY <2>1, <2>2, <3>1, BegunRecord
  <2>4. QED
    BY <2>3 DEF alone, clean, calm
<1>11. \A d \in Callers :
          /\ [NoCall EXCEPT !.n = now[d].n, !.retries = now[d].retries] \in Records(R)
          /\ ~[NoCall EXCEPT !.n = now[d].n, !.retries = now[d].retries].alone
  <2>1. \A d \in Callers : now[d] \in Records(R)
    BY <1>2
  <2>2. QED
    BY <1>2, <2>1 DEF NoCall, Records
<1>12. now' \in [Callers -> Records(R)]
  BY <1>7, <1>9, <1>10, <1>11
<1>13. NowShape'
  BY <1>2, <1>12 DEF NowShape
<1>14. now'[c] = Fresh(c, r) /\ \A d \in Callers \ {c} : ~now'[d].alone
  BY <1>7, <1>9, <1>11
<1>15. Shape'
  BY <1>4, <1>6, <1>8, <1>13 DEF Shape, client
<1>16. QED
  BY <1>4, <1>5, <1>8, <1>10, <1>14, <1>15 DEF Starts, f

(* The modem leaves the callers and their client alone.                    *)
LEMMA ModemAside ==
  ASSUME ModemAnswers \/ ModemLoses \/ ModemUnsolicited \/ ModemSwitchesCrc \/ UNCHANGED vars
  PROVE  UNCHANGED <<client, stack, now, calls>>
  BY DEF ModemAnswers, ModemLoses, ModemUnsolicited, ModemSwitchesCrc, vars

LEMMA InitShape == Init => Shape
<1> SUFFICES ASSUME Init PROVE Shape
  OBVIOUS
<1> DEFINE A == {<<>>}
           R == {NoResult}
<1>1. <<>> \in Seq(Frames(A))
  BY EmptySeq
<1>2. stack \in Stacks(A)
  BY <1>1 DEF Init, Stacks
<1>3. now \in [Callers -> Records(R)]
  BY DEF Init, NoCall, Records
<1>4. StackShape
  BY <1>2 DEF StackShape
<1>5. NowShape
  BY <1>3 DEF NowShape
<1>6. QED
  BY <1>4, <1>5 DEF Init, Shape

LEMMA NextCases ==
  ASSUME Shape, [Next]_vars
  PROVE  /\ Shape'
         /\ \/ \E c \in Callers : Starts(c)
            \/ \E c \in Callers : Kind(c) /\ Port(c) /\ stack[c] # <<>>
            \/ UNCHANGED <<client, stack, now, calls>>
<1>1. ASSUME NEW c \in Callers, Call(c) PROVE Shape' /\ Starts(c)
  BY <1>1, CallStarts
<1>2. ASSUME NEW c \in Callers, Step(c) PROVE Shape' /\ Kind(c) /\ Port(c) /\ stack[c] # <<>>
  BY <1>2, StepKind
<1>3. ASSUME UNCHANGED <<client, stack, now, calls>> PROVE Shape'
  BY <1>3 DEF Shape, StackShape, NowShape, client
<1>4. QED
  BY <1>1, <1>2, <1>3, ModemAside DEF Next

(* What becomes of the others.                                             *)
LEMMA KindOthers ==
  ASSUME Shape, Shape', NEW c \in Callers, Kind(c), NEW d \in Callers \ {c}
  PROVE  /\ Len(stack'[d]) = Len(stack[d]) /\ (stack'[d] = <<>> <=> stack[d] = <<>>)
         /\ stack[d] # <<>> => Top(d)'.pc = Top(d).pc
<1>1. \E state \in Ports : OthersReplug(c, state)
  <2>1. CASE Goes(c)
    BY <2>1 DEF Goes, Runs, Swaps
  <2>2. CASE Sends(c)
    BY <2>2 DEF Sends, Runs, Swaps, Ports
  <2>3. CASE Retried(c) \/ Asks(c)
    BY <2>3 DEF Retried, Asks, Calls, Nests, Ports
  <2>4. CASE Goodbye(c)
    BY <2>4 DEF Goodbye, Leaves, Ports
  <2>5. QED
    BY <2>1, <2>2, <2>3, <2>4 DEF Kind
<1>2. QED
  BY <1>1, OthersRun DEF Shape

(* What becomes of the history.                                            *)
LEMMA KindKept ==
  ASSUME NEW c \in Callers, Kind(c)
  PROVE  NowShape' /\ Kept
  BY DEF Kind, Goes, Sends, Retried, Asks, Calls, Goodbye, HistoryKept

-------------------------------------------------------------------------------
(***************************************************************************)
(* The port and the event.                                                 *)
(***************************************************************************)

(* Someone will yet close the port that is there, and clear an event that  *)
(* is set though there is no port.                                         *)
Served ==
    serial # "none" =>
        \E c \in Callers : stack[c] # <<>> /\ ~(Len(stack[c]) = 1 /\ Top(c).pc = "clear")
Awaited ==
    event /\ serial = "none" => \E c \in Callers : stack[c] # <<>> /\ Top(c).pc # "close"

LEMMA KindServed ==
  ASSUME Shape, Shape', NEW c \in Callers, Kind(c), Port(c), stack[c] # <<>>, Served, Awaited
  PROVE  Served' /\ Awaited'
<1>1. ASSUME NEW d \in Callers \ {c}, stack[d] # <<>>
      PROVE  stack'[d] # <<>> /\ Top(d)'.pc = Top(d).pc /\ Len(stack'[d]) = Len(stack[d])
  BY <1>1, KindOthers
<1>2. CASE Busy(c)
  BY <1>2 DEF Busy, Served, Awaited
<1>3. CASE Turns(c)
  BY <1>3 DEF Turns, Served, Awaited
<1>4. CASE Drops(c)
  BY <1>4 DEF Drops, Served, Awaited
<1>5. CASE Quits(c)
  <2>1. Leaves(c) /\ serial' = serial
    BY <1>5 DEF Quits
  <2>2. Served'
    <3>1. SUFFICES ASSUME serial # "none"
                   PROVE  \E d \in Callers : stack'[d] # <<>> /\ ~(Len(stack'[d]) = 1 /\ Top(d)'.pc = "clear")
      BY <2>1 DEF Served
    <3>2. PICK d \in Callers : stack[d] # <<>> /\ ~(Len(stack[d]) = 1 /\ Top(d).pc = "clear")
      BY <3>1 DEF Served
    <3>3. CASE d # c
      BY <1>1, <3>2, <3>3
    <3>4. CASE d = c
      <4>1. Top(c).pc = "clear" /\ Len(stack[c]) # 1
        BY <1>5, <3>1, <3>2, <3>4 DEF Quits
      <4>2. stack'[c] # <<>>
        <5>1. PICK A : stack \in Stacks(A)
          BY DEF Shape, StackShape
        <5>2. stack[c] \in Seq(Frames(A))
          BY <5>1 DEF Stacks
        <5>3. Len(stack[c]) \in Nat /\ Len(stack'[c]) = Len(stack[c]) - 1
          BY <2>1, <5>2 DEF Leaves
        <5>4. Len(stack'[c]) # 0
          BY <4>1, <5>3
        <5>5. QED
          BY <5>4
      <4>3. Top(c)'.pc = "finally"
        BY <2>1, <4>2, LeavesTop DEF Shape, Frame
      <4>4. QED
        BY <4>2, <4>3
    <3>5. QED
      BY <3>3, <3>4
  <2>3. Awaited'
    <3>1. SUFFICES ASSUME event', serial = "none"
                   PROVE  \E d \in Callers : stack'[d] # <<>> /\ Top(d)'.pc # "close"
      BY <2>1 DEF Awaited
    <3>2. event /\ Top(c).pc = "close"
      BY <1>5, <3>1 DEF Quits
    <3>3. PICK d \in Callers : stack[d] # <<>> /\ Top(d).pc # "close"
      BY <3>1, <3>2 DEF Awaited
    <3>4. QED
      BY <1>1, <3>2, <3>3
  <2>4. QED
    BY <2>2, <2>3
<1>6. QED
  BY <1>2, <1>3, <1>4, <1>5 DEF Port

(* Once no call is running the port is closed and the event is clear: the  *)
(* last call to leave finds a port that is there and closes it, and clears *)
(* the event unless another call has taken the port from it and will.      *)
THEOREM IdleClientIsClean == Spec => []IdleIsClean
<1>1. Init => Served /\ Awaited
  BY DEF Init, Served, Awaited
<1>2. ASSUME Shape, Served, Awaited, [Next]_vars PROVE Served' /\ Awaited'
  <2>1. ASSUME NEW c \in Callers, Starts(c) PROVE Served' /\ Awaited'
    <3>1. \A d \in Callers : stack[d] # <<>> => stack'[d] = stack[d]
      BY <2>1 DEF Starts
    <3>2. UNCHANGED <<serial, event>>
      BY <2>1 DEF Starts, client
    <3>3. QED
      BY <1>2, <3>1, <3>2 DEF Served, Awaited, Top
  <2>2. ASSUME NEW c \in Callers, Kind(c), Port(c), stack[c] # <<>> PROVE Served' /\ Awaited'
    BY <1>2, <2>2, NextCases, KindServed
  <2>3. CASE UNCHANGED <<client, stack, now, calls>>
    BY <1>2, <2>3 DEF Served, Awaited, Top, client
  <2>4. QED
    BY <1>2, <2>1, <2>2, <2>3, NextCases
<1>3. Shape /\ [Next]_vars => Shape'
  BY NextCases
<1>4. Served /\ Awaited => IdleIsClean
  BY DEF Served, Awaited, IdleIsClean
<1>5. QED
  BY InitShape, <1>1, <1>2, <1>3, <1>4, PTL DEF Spec

-------------------------------------------------------------------------------
(***************************************************************************)
(* How often a call sends its command.                                     *)
(***************************************************************************)
Most(c) == IF now[c].retries > 1 THEN now[c].retries ELSE 1

(* A frame for the call's own command is one attempt.  There are no more   *)
(* of them than the retry count allows, each has sent its command at most  *)
(* once, and the top one has yet to do so until it awaits the response.    *)
Attempts(c) ==
    stack[c] # <<>> /\ ~Ended(Top(c)) /\ Top(c).cmd = "own" =>
        /\ Len(stack[c]) <= Most(c) /\ Len(stack[c]) <= retry_count + 1
        /\ now[c].sends <= Len(stack[c])
        /\ ~HasSent(Top(c)) => now[c].sends < Len(stack[c])

AloneBounded(c) ==
    now[c].alone => /\ \A d \in Callers \ {c} : stack[d] = <<>>
                    /\ now[c].sends <= Most(c)
                    /\ Attempts(c)

(* The numbers the bound is about.                                         *)
LEMMA Numbers ==
  ASSUME Shape, NEW c \in Callers
  PROVE  /\ now[c].retries \in Nat /\ now[c].sends \in Nat /\ retry_count \in Nat
         /\ Len(stack[c]) \in Nat
<1>1. PICK R : now \in [Callers -> Records(R)]
  BY DEF Shape, NowShape
<1>2. PICK A : stack \in Stacks(A)
  BY DEF Shape, StackShape
<1>3. stack[c] \in Seq(Frames(A))
  BY <1>2 DEF Stacks
<1>4. now[c] \in Records(R)
  BY <1>1
<1>5. now[c].retries \in Retries \cup {0} /\ now[c].sends \in Nat
  BY <1>4 DEF Records
<1>6. now[c].retries \in Nat
  <2>1. \A r \in Retries \cup {0} : r \in Nat
    OBVIOUS
  <2>2. QED
    BY <1>5, <2>1
<1>7. Len(stack[c]) \in Nat
  BY <1>3
<1>8. QED
  BY <1>5, <1>6, <1>7 DEF Shape

(* A step of a caller keeps its own bound.                                 *)
LEMMA KindBounded ==
  ASSUME Shape, Shape', NEW c \in Callers, Kind(c), stack[c] # <<>>, AloneBounded(c)
  PROVE  AloneBounded(c)'
<1> SUFFICES ASSUME now'[c].alone
             PROVE  /\ \A d \in Callers \ {c} : stack'[d] = <<>>
                    /\ now'[c].sends <= Most(c)' /\ Attempts(c)'
  BY DEF AloneBounded
<1> DEFINE n == Len(stack[c])
           m == Len(stack'[c])
           s == now[c].sends
           t == now'[c].sends
           r == now[c].retries
<1>1. now[c].alone /\ now'[c].retries = r
  BY KindKept DEF Kept
<1>2. /\ \A d \in Callers \ {c} : stack'[d] = <<>>
      /\ s <= Most(c) /\ Attempts(c) /\ Most(c)' = Most(c)
  BY <1>1, KindOthers DEF AloneBounded, Most
<1>3. n \in Nat /\ m \in Nat /\ s \in Nat /\ t \in Nat /\ r \in Nat /\ retry_count \in Nat
      /\ retry_count' \in Nat
  <2>1. n \in Nat /\ s \in Nat /\ r \in Nat /\ retry_count \in Nat
    BY Numbers
  <2>2. t \in Nat /\ retry_count' \in Nat
    <3>1. PICK R : now' \in [Callers -> Records(R)]
      BY DEF Shape, NowShape
    <3>2. now'[c] \in Records(R)
      BY <3>1
    <3>3. QED
      BY <3>2 DEF Records, Shape
  <2>3. m \in Nat
    <3>1. PICK A : stack' \in Stacks(A)
      BY DEF Shape, StackShape
    <3>2. stack'[c] \in Seq(Frames(A))
      BY <3>1 DEF Stacks
    <3>3. QED
      BY <3>2
  <2>4. QED
    BY <2>1, <2>2, <2>3
<1>4. CASE Goes(c)
  <2>0. PICK state \in Ports : \E g :
           /\ Runs(c, state, g)
           /\ \/ Ended(g)
              \/ /\ ~Ended(Top(c)) /\ ~Ended(g) /\ retry_count' = retry_count
                 /\ HasSent(g) <=> HasSent(Top(c))
    BY <1>4 DEF Goes
  <2>1. PICK g :
           /\ Runs(c, state, g)
           /\ \/ Ended(g)
              \/ /\ ~Ended(Top(c)) /\ ~Ended(g) /\ retry_count' = retry_count
                 /\ HasSent(g) <=> HasSent(Top(c))
    BY <2>0
  <2>2. m = n /\ Top(c)' = g /\ g.cmd = Top(c).cmd /\ t = s
    BY <1>1, <1>4, <2>1, SwapsTop DEF Runs, Swaps, Shape, Goes, HistoryKept, SendsKept
  <2>3. CASE Ended(g)
    BY <1>2, <2>2, <2>3 DEF Attempts
  <2>4. CASE /\ ~Ended(Top(c)) /\ retry_count' = retry_count
             /\ HasSent(g) <=> HasSent(Top(c))
    BY <1>2, <2>2, <2>4 DEF Attempts
  <2>5. QED
    BY <2>1, <2>3, <2>4
<1>5. CASE Sends(c)
  <2>1. PICK g : Runs(c, "current", g) /\ HasSent(g)
    BY <1>5 DEF Sends
  <2>2. /\ m = n /\ Top(c)' = g /\ g.cmd = Top(c).cmd /\ retry_count' = retry_count
        /\ ~HasSent(Top(c)) /\ HasSent(g) /\ ~Ended(Top(c))
        /\ t = IF Top(c).cmd = "own" THEN s + 1 ELSE s
    BY <1>1, <1>5, <2>1, SwapsTop DEF Runs, Swaps, Shape, Sends
  <2>3. CASE Top(c).cmd = "own"
    <3>1. n <= Most(c) /\ n <= retry_count + 1 /\ s < n /\ t = s + 1
      BY <1>2, <2>2, <2>3 DEF Attempts
    <3>2. Most(c) \in Nat
      BY <1>3 DEF Most
    <3>3. t <= n /\ t <= Most(c)
      BY <1>3, <3>1, <3>2
    <3>4. QED
      BY <1>2, <2>2, <3>1, <3>3 DEF Attempts
  <2>4. CASE Top(c).cmd # "own"
    BY <1>2, <2>2, <2>4 DEF Attempts
  <2>5. QED
    BY <2>3, <2>4
<1>6. CASE Retried(c)
  <2>1. PICK f, g : Nests(c, f, g)
    BY <1>6 DEF Retried, Calls
  <2>2. /\ retry_count + 1 < r /\ retry_count' = retry_count + 1
        /\ m = n + 1 /\ t = s /\ Top(c).cmd = "own" /\ ~Ended(Top(c))
    BY <1>1, <1>6, <2>1 DEF Retried, Calls, Nests, HistoryKept, SendsKept
  <2>3. n <= retry_count + 1 /\ s <= n
    BY <1>2, <2>2 DEF Attempts
  <2>4. m <= r /\ r > 1 /\ m <= retry_count' + 1 /\ t < m /\ t <= m
    BY <1>3, <2>2, <2>3
  <2>5. m <= Most(c)
    BY <2>4 DEF Most
  <2>6. QED
    BY <1>2, <2>2, <2>4, <2>5 DEF Attempts
<1>7. CASE Asks(c)
  <2>1. PICK f, g : Nests(c, f, g) /\ g.cmd = "S80"
    BY <1>7 DEF Asks, Calls
  <2>2. t = s /\ Top(c)' = g
    BY <1>1, <1>7, <2>1, NestsTop DEF Asks, Calls, HistoryKept, SendsKept, Shape
  <2>3. QED
    BY <1>2, <2>1, <2>2 DEF Attempts
<1>8. CASE Goodbye(c)
  <2>1. t = s /\ Leaves(c)
    BY <1>1, <1>8 DEF Goodbye, HistoryKept, SendsKept
  <2>2. stack'[c] # <<>> => Ended(Top(c)')
    BY <2>1, LeavesTop DEF Shape, Frame, Ended, Closing
  <2>3. QED
    BY <1>2, <2>1, <2>2 DEF Attempts
<1>9. QED
  BY <1>4, <1>5, <1>6, <1>7, <1>8 DEF Kind

(* A call that runs alone sends its command no more often than the retries *)
(* it was given: every attempt beyond the first raises the retry count,    *)
(* _command() raises an exception before it reaches `retries', and asks    *)
(* for an error code without retries.                                      *)
THEOREM CommandSentOnce == Spec => []AloneSendsOnce
<1> DEFINE Bounded == \A c \in Callers : AloneBounded(c)
<1>1. Init => Bounded
  BY DEF Init, NoCall, AloneBounded
<1>2. ASSUME Shape, Bounded, [Next]_vars PROVE Bounded'
  <2>0. Shape'
    BY <1>2, NextCases
  <2>1. ASSUME NEW c \in Callers, Starts(c) PROVE Bounded'
    <3>1. SUFFICES ASSUME now'[c].alone PROVE AloneBounded(c)'
      BY <2>1, <3>1 DEF Starts, AloneBounded
    <3>2. \A d \in Callers \ {c} : stack'[d] = <<>>
      BY <2>1, <3>1 DEF Starts
    <3>3. Len(stack'[c]) = 1 /\ now'[c].sends = 0 /\ now'[c].retries \in Nat /\ retry_count' \in Nat
      BY <2>0, <2>1 DEF Starts, Shape
    <3>4. Most(c)' \in Nat /\ 1 <= Most(c)'
      BY <3>3 DEF Most
    <3>5. now'[c].sends <= Most(c)'
      BY <3>3, <3>4
    <3>6. Attempts(c)'
      <4>1. Len(stack'[c]) <= Most(c)'
        BY <3>3, <3>4
      <4>2. 1 <= retry_count' + 1 /\ 0 <= 1 /\ 0 < 1
        BY <3>3
      <4>3. QED
        BY <3>3, <4>1, <4>2 DEF Attempts
    <3>7. QED
      BY <3>2, <3>5, <3>6 DEF AloneBounded
  <2>2. ASSUME NEW c \in Callers, Kind(c), stack[c] # <<>> PROVE Bounded'
    <3>1. AloneBounded(c)'
      BY <1>2, <2>0, <2>2, KindBounded
    <3>2. ASSUME NEW d \in Callers \ {c} PROVE AloneBounded(d)'
      <4>1. now'[d].alone = now[d].alone
        BY <2>2, KindKept DEF Kept
      <4>2. ~now[d].alone
        BY <1>2, <2>2 DEF AloneBounded
      <4>3. QED
        BY <4>1, <4>2 DEF AloneBounded
    <3>3. QED
      BY <3>1, <3>2
  <2>3. CASE UNCHANGED <<client, stack, now, calls>>
    BY <1>2, <2>3 DEF AloneBounded, Attempts, Most, Top, client
  <2>4. QED
    BY <1>2, <2>1, <2>2, <2>3, NextCases
<1>3. Shape /\ [Next]_vars => Shape'
  BY NextCases
<1>4. Bounded => AloneSendsOnce
  BY DEF AloneBounded, Most, AloneSendsOnce
<1>5. QED
  <2> HIDE DEF Bounded
  <2>1. QED
    BY InitShape, <1>1, <1>2, <1>3, <1>4, PTL DEF Spec

-------------------------------------------------------------------------------
(***************************************************************************)
(* The attributes and the frames.                                          *)
(***************************************************************************)
Flags ==
    /\ serial \in {"none", "open", "closed"} /\ event \in BOOLEAN /\ modemCrc \in BOOLEAN
    /\ crc \in {"unset", "on", "off"}
    /\ retry_count = 0 \/ \E r \in Retries : retry_count \in 1..r - 1

(* The frames below the top wait for the one above; only with a port open  *)
(* does one read from the current port.                                    *)
Fits(d) ==
    \A i \in 1..Len(stack[d]) :
        /\ i < Len(stack[d]) <=> stack[d][i].pc \in Waits
        /\ stack[d][i].on = "current" => serial = "open"

(* The frames of another caller keep their form.                           *)
LEMMA OthersFit ==
  ASSUME StackShape, NEW c \in Callers, NEW state \in Ports, OthersReplug(c, state),
         state = "current" => serial' = serial, NEW d \in Callers \ {c}, Fits(d)
  PROVE  Fits(d)'
<1>1. PICK A : stack \in Stacks(A)
  BY DEF StackShape
<1>2. stack[d] \in Seq(Frames(A))
  BY <1>1 DEF Stacks
<1>3. Len(stack'[d]) = Len(stack[d])
  BY DEF OthersReplug
<1>4. ASSUME NEW i \in 1..Len(stack[d])
      PROVE  /\ stack'[d][i].pc = stack[d][i].pc
             /\ stack'[d][i].on = "current" => stack[d][i].on = "current" /\ state = "current"
  <2>1. stack[d][i] \in Frames(A) /\ stack'[d][i] = Replug(stack[d][i], state)
    BY <1>2, ElementOfSeq DEF OthersReplug
  <2>2. QED
    BY <2>1, ReplugFrame
<1>5. QED
  BY <1>3, <1>4 DEF Fits

(* The top frame goes on, waits, or is left.                               *)
LEMMA RunsFit ==
  ASSUME StackShape, NEW c \in Callers, Fits(c), NEW state \in Ports, NEW g, Runs(c, state, g)
  PROVE  Fits(c)'
<1>1. PICK A : stack \in Stacks(A)
  BY DEF StackShape
<1>2. stack[c] \in Seq(Frames(A)) /\ Len(stack[c]) \in Nat
  BY <1>1 DEF Stacks
<1>3. ASSUME NEW i \in 1..Len(stack[c])
      PROVE  /\ Replug(stack[c][i], state).pc = stack[c][i].pc
             /\ Replug(stack[c][i], state).on = "current" => serial' = "open"
  <2>1. stack[c][i] \in Frames(A)
    BY <1>2, ElementOfSeq
  <2>2. QED
    BY <2>1, ReplugFrame DEF Runs, Fits
<1>4. ASSUME NEW i \in 1..Len(stack'[c])
      PROVE  /\ i < Len(stack'[c]) <=> stack'[c][i].pc \in Waits
             /\ stack'[c][i].on = "current" => serial' = "open"
  <2>1. i \in 1..Len(stack[c]) /\ Len(stack'[c]) = Len(stack[c])
        /\ stack'[c][i] = IF i = Len(stack[c]) THEN g ELSE Replug(stack[c][i], state)
    BY DEF Runs, Swaps
  <2>2. CASE i = Len(stack[c])
    BY <1>2, <2>1, <2>2 DEF Runs
  <2>3. CASE i # Len(stack[c])
    <3>1. i < Len(stack[c])
      BY <1>2, <2>1, <2>3
    <3>2. stack[c][i].pc \in Waits
      BY <2>1, <3>1 DEF Fits
    <3>3. QED
      BY <1>3, <2>1, <2>3, <3>1, <3>2
  <2>4. QED
    BY <2>2, <2>3
<1>5. QED
  BY <1>4 DEF Fits

LEMMA NestsFit ==
  ASSUME StackShape, NEW c \in Callers, Fits(c), serial' = serial, NEW f, NEW g, Nests(c, f, g),
         f.pc \in Waits, f.on = "closed", g.pc \notin Waits, g.on = "closed"
  PROVE  Fits(c)'
<1>1. PICK A : stack \in Stacks(A)
  BY DEF StackShape
<1>2. stack[c] \in Seq(Frames(A)) /\ Len(stack[c]) \in Nat
  BY <1>1 DEF Stacks
<1>3. ASSUME NEW i \in 1..Len(stack'[c])
      PROVE  /\ i < Len(stack'[c]) <=> stack'[c][i].pc \in Waits
             /\ stack'[c][i].on = "current" => serial' = "open"
  <2>1. i \in 1..Len(stack[c]) + 1 /\ Len(stack'[c]) = Len(stack[c]) + 1
        /\ stack'[c][i] = IF i = Len(stack[c]) + 1 THEN g
                          ELSE IF i = Len(stack[c]) THEN f ELSE stack[c][i]
    BY DEF Nests
  <2>2. CASE i = Len(stack[c]) + 1
    BY <1>2, <2>1, <2>2
  <2>3. CASE i = Len(stack[c])
    <3>1. i # Len(stack[c]) + 1 /\ i < Len(stack'[c])
      BY <1>2, <2>1, <2>3
    <3>2. stack'[c][i] = f
      BY <2>1, <2>3, <3>1
    <3>3. QED
      BY <3>1, <3>2
  <2>4. CASE i # Len(stack[c]) + 1 /\ i # Len(stack[c])
    <3>1. i < Len(stack'[c]) /\ i < Len(stack[c]) /\ i \in 1..Len(stack[c])
      BY <1>2, <2>1, <2>4
    <3>2. stack'[c][i] = stack[c][i]
      BY <2>1, <2>4
    <3>3. QED
      BY <3>1, <3>2 DEF Fits
  <2>5. QED
    BY <2>2, <2>3, <2>4
<1>4. QED
  BY <1>3 DEF Fits

LEMMA LeavesFit ==
  ASSUME StackShape, NEW c \in Callers, Fits(c), serial' = serial, Leaves(c)
  PROVE  Fits(c)'
<1>1. PICK A : stack \in Stacks(A)
  BY DEF StackShape
<1>2. stack[c] \in Seq(Frames(A)) /\ Len(stack[c]) \in Nat
  BY <1>1 DEF Stacks
<1>3. ASSUME NEW i \in 1..Len(stack'[c])
      PROVE  /\ i < Len(stack'[c]) <=> stack'[c][i].pc \in Waits
             /\ stack'[c][i].on = "current" => serial' = "open"
  <2>1. i \in 1..Len(stack[c]) - 1 /\ Len(stack'[c]) = Len(stack[c]) - 1
        /\ stack'[c][i] = IF i = Len(stack[c]) - 1 THEN Frame(stack[c][i].cmd, "finally")
                          ELSE stack[c][i]
    BY DEF Leaves
  <2>2. CASE i = Len(stack[c]) - 1
    <3>1. ~(i < Len(stack'[c]))
      BY <1>2, <2>1, <2>2
    <3>2. stack'[c][i].pc = "finally" /\ stack'[c][i].on = "closed"
      BY <2>1, <2>2 DEF Frame
    <3>3. QED
      BY <3>1, <3>2 DEF Waits
  <2>3. CASE i # Len(stack[c]) - 1
    <3>1. i < Len(stack'[c]) /\ i < Len(stack[c]) /\ i \in 1..Len(stack[c])
      BY <1>2, <2>1, <2>3
    <3>2. stack'[c][i] = stack[c][i]
      BY <2>1, <2>3
    <3>3. QED
      BY <3>1, <3>2 DEF Fits
  <2>4. QED
    BY <2>2, <2>3
<1>4. QED
  BY <1>3 DEF Fits

LEMMA KindFits ==
  ASSUME Shape, NEW c \in Callers, \A d \in Callers : Fits(d), Kind(c)
  PROVE  \A d \in Callers : Fits(d)'
<1>1. ASSUME NEW state \in Ports, NEW g, Runs(c, state, g) PROVE \A d \in Callers : Fits(d)'
  <2>1. OthersReplug(c, state) /\ (state = "current" => serial' = serial)
    BY <1>1 DEF Runs, Swaps
  <2>2. Fits(c)'
    BY <1>1, RunsFit DEF Shape
  <2>3. QED
    BY <2>1, <2>2, OthersFit DEF Shape
<1>2. ASSUME serial' = serial, OthersReplug(c, "current"), Fits(c)' PROVE \A d \in Callers : Fits(d)'
  BY <1>2, OthersFit DEF Shape, Ports
<1>3. CASE Goes(c)
  BY <1>1, <1>3 DEF Goes
<1>4. CASE Sends(c)
  BY <1>1, <1>4 DEF Sends, Ports
<1>5. CASE Retried(c) \/ Asks(c)
  <2>1. PICK f, g : /\ Nests(c, f, g) /\ f.pc \in Waits /\ f.on = "closed"
                    /\ g.pc \notin Waits /\ g.on = "closed" /\ serial' = serial
    BY <1>5 DEF Retried, Asks, Calls, Waits
  <2>2. Fits(c)' /\ OthersReplug(c, "current")
    BY <2>1, NestsFit DEF Shape, Nests
  <2>3. QED
    BY <1>2, <2>1, <2>2
<1>6. CASE Goodbye(c)
  <2>1. Fits(c)' /\ OthersReplug(c, "current") /\ serial' = serial
    BY <1>6, LeavesFit DEF Goodbye, Shape, Leaves
  <2>2. QED
    BY <1>2, <2>1
<1>7. QED
  BY <1>3, <1>4, <1>5, <1>6 DEF Kind

(* The retry count stays below what some call may have.                    *)
LEMMA KindCounts ==
  ASSUME Shape, NEW c \in Callers, Flags, Kind(c)
  PROVE  retry_count' = 0 \/ \E r \in Retries : retry_count' \in 1..r - 1
<1>1. CASE retry_count' \in {0, retry_count}
  BY <1>1 DEF Flags
<1>2. CASE retry_count + 1 < now[c].retries /\ retry_count' = retry_count + 1
  <2>1. PICK R : now \in [Callers -> Records(R)]
    BY DEF Shape, NowShape
  <2>2. now[c] \in Records(R)
    BY <2>1
  <2>3. now[c].retries \in Retries \cup {0} /\ retry_count \in Nat
    BY <2>2 DEF Records, Shape
  <2>4. now[c].retries \in Retries /\ now[c].retries \in Nat
    <3>1. now[c].retries # 0
      BY <1>2, <2>3
    <3>2. now[c].retries \in Retries
      BY <2>3, <3>1
    <3>3. QED
      BY <3>2
  <2>5. retry_count + 1 \in 1..now[c].retries - 1
    BY <1>2, <2>3, <2>4
  <2>6. QED
    BY <1>2, <2>4, <2>5
<1>3. QED
  BY <1>1, <1>2 DEF Kind, Goes, Counted, Sends, Retried, Asks, Goodbye

LEMMA StepFlags ==
  ASSUME Flags, Shape, NEW c \in Callers, Step(c)
  PROVE  Flags'
<1>1. Shape' /\ Kind(c)
  BY StepKind
<1>2. retry_count' = 0 \/ \E r \in Retries : retry_count' \in 1..r - 1
  BY <1>1, KindCounts
<1>3. modemCrc' = modemCrc /\ crc' \in {crc, "on", "off"} /\ event' \in {event, TRUE, FALSE}
  BY DEF Step, Spin, Begin, OpenPort, TakeLine, TakeCrc, NoCrc, Drained, Timeout, Broken,
         Finally, Close, Drop, Clear, client, modem
<1>4. QED
  BY <1>1, <1>2, <1>3 DEF Flags, Shape

LEMMA FitsAndFlags == Shape => (TypeOK <=> Flags /\ \A d \in Callers : Fits(d))
<1> SUFFICES ASSUME Shape PROVE TypeOK <=> Flags /\ \A d \in Callers : Fits(d)
  OBVIOUS
<1>1. PICK A : stack \in Stacks(A)
  BY DEF Shape, StackShape
<1>2. ASSUME NEW d \in Callers
      PROVE  /\ DOMAIN stack[d] = 1..Len(stack[d])
             /\ \A i \in 1..Len(stack[d]) :
                   /\ stack[d][i].pc \in {"spin", "scheduled", "drain", "drainCrc", "recv",
                                          "recvCrc", "error", "retry"} \cup Opening \cup Closing
                   /\ stack[d][i].on \in {"current", "replaced", "closed"}
  <2>1. stack[d] \in Seq(Frames(A))
    BY <1>1 DEF Stacks
  <2>2. \A i \in 1..Len(stack[d]) : stack[d][i] \in Frames(A)
    BY <2>1, ElementOfSeq
  <2>3. QED
    BY <2>1, <2>2 DEF Frames, Stages, Ports, Waits
<1>3. QED
  BY <1>2 DEF TypeOK, Flags, Fits, Waits

(* The types of the attributes, and the form of every stack: all frames    *)
(* but the top one wait for the one above, and a frame that reads from the *)
(* current port reads from one that is open, whatever other calls do.      *)
THEOREM TypeCorrect == Spec => []TypeOK
<1> DEFINE IInv == Flags /\ \A d \in Callers : Fits(d)
<1>1. Init => IInv
  <2> SUFFICES ASSUME Init PROVE IInv
    OBVIOUS
  <2>1. Flags
    BY DEF Init, Flags
  <2>2. \A d \in Callers : Len(stack[d]) = 0
    BY EmptySeq DEF Init
  <2>3. QED
    BY <2>1, <2>2 DEF Fits
<1>2. ASSUME Shape, IInv, [Next]_vars PROVE IInv'
  <2>1. ASSUME NEW c \in Callers, Call(c) PROVE IInv'
    <3>1. Flags'
      BY <1>2, <2>1 DEF Call, Flags, client, modem
    <3>2. Starts(c)
      BY <1>2, <2>1, CallStarts
    <3>3. Fits(c)'
      <4>1. Len(stack'[c]) = 1 /\ stack'[c][1].pc \notin Waits /\ stack'[c][1].on = "closed"
        BY <3>2 DEF Starts, Frame, Waits
      <4>2. QED
        BY <4>1 DEF Fits
    <3>4. \A d \in Callers \ {c} : Fits(d)'
      BY <1>2, <3>2 DEF Starts, Fits, client
    <3>5. QED
      BY <3>1, <3>3, <3>4
  <2>2. ASSUME NEW c \in Callers, Step(c) PROVE IInv'
    <3>1. Flags'
      BY <1>2, <2>2, StepFlags
    <3>2. Kind(c)
      BY <1>2, <2>2, StepKind
    <3>3. \A d \in Callers : Fits(d)'
      BY <1>2, <3>2, KindFits
    <3>4. QED
      BY <3>1, <3>3
  <2>3. CASE ModemAnswers \/ ModemLoses \/ ModemUnsolicited \/ ModemSwitchesCrc \/ UNCHANGED vars
    <3>1. UNCHANGED <<client, stack>>
      BY <2>3, ModemAside
    <3>2. modemCrc' \in BOOLEAN
      BY <1>2, <2>3 DEF Flags, ModemAnswers, ModemLoses, ModemUnsolicited, ModemSwitchesCrc, vars, modem
    <3>3. QED
      BY <1>2, <3>1, <3>2 DEF Flags, Fits, client
  <2>4. QED
    BY <1>2, <2>1, <2>2, <2>3 DEF Next
<1>3. Shape /\ [Next]_vars => Shape'
  BY NextCases
<1>4. Shape /\ IInv => TypeOK
  BY FitsAndFlags
<1>5. QED
  <2> HIDE DEF IInv
  <2>1. QED
    BY InitShape, <1>1, <1>2, <1>3, <1>4, PTL DEF Spec

-------------------------------------------------------------------------------
(***************************************************************************)
(* The lines of a response.                                                *)
(***************************************************************************)
LineKinds == {"OK", "ERROR", "code", "crcOK", "crcERROR", "echo", "urc"}

(* The lines that answer the requests of I, and unsolicited ones.          *)
Said(I) == {l \in [k : LineKinds, id : I \cup {NoRequest}, good : BOOLEAN] :
               /\ l.k # "urc" => l.id \in I
               /\ l.k \notin {"crcOK", "crcERROR"} => l.good}

Terminated(ans) == \E j \in 1..Len(ans) : ans[j].k \in {"OK", "ERROR"}

(* A response to the request own, whatever else is in it.                  *)
Answers(ans, own) == \E j \in 1..Len(ans) : ans[j] \in {Line("OK", own), Line("ERROR", own)}

LEMMA SaidMore ==
  ASSUME NEW I, NEW J, I \subseteq J, NEW s \in Seq(Said(I))
  PROVE  s \in Seq(Said(J))
<1>1. Said(I) \subseteq Said(J)
  BY DEF Said
<1>2. QED
  BY <1>1, SeqMonotonic

LEMMA TerminatedAnswers ==
  ASSUME NEW own, NEW ans \in Seq(Said({own})), Terminated(ans)
  PROVE  Answers(ans, own)
<1>1. PICK j \in 1..Len(ans) : ans[j].k \in {"OK", "ERROR"}
  BY DEF Terminated
<1>2. ans[j] \in Said({own})
  BY <1>1, ElementOfSeq
<1>3. /\ ans[j] \in [k : LineKinds, id : {own} \cup {NoRequest}, good : BOOLEAN]
      /\ ans[j].id = own /\ ans[j].good = TRUE
  BY <1>1, <1>2 DEF Said
<1>4. ans[j] = Line(ans[j].k, own)
  BY <1>3 DEF Line
<1>5. QED
  BY <1>1, <1>4 DEF Answers

(* A line more.                                                            *)
LEMMA OneLineMore ==
  ASSUME NEW S, NEW a \in Seq(S), NEW x \in S
  PROVE  /\ Append(a, x) \in Seq(S) /\ Append(a, x) # <<>>
         /\ \A own : Answers(a, own) => Answers(Append(a, x), own)
<1>1. /\ Append(a, x) \in Seq(S) /\ Len(Append(a, x)) = Len(a) + 1 /\ Len(a) \in Nat
      /\ \A j \in 1..Len(a) : Append(a, x)[j] = a[j]
  OBVIOUS
<1>2. Append(a, x) # <<>>
  OBVIOUS
<1>3. ASSUME NEW own, NEW j \in 1..Len(a), a[j] \in {Line("OK", own), Line("ERROR", own)}
      PROVE  Answers(Append(a, x), own)
  <2>1. j \in 1..Len(Append(a, x)) /\ Append(a, x)[j] = a[j]
    BY <1>1
  <2>2. QED
    BY <1>3, <2>1 DEF Answers
<1>4. QED
  BY <1>1, <1>2, <1>3 DEF Answers

(* A set of numbers has a least one.                                       *)
LEMMA LeastOf ==
  ASSUME NEW S \in SUBSET Nat, S # {}
  PROVE  Min(S) \in S /\ \A y \in S : Min(S) <= y
<1> DEFINE R == OpToRel(<, Nat)
<1>1. \A x, y \in Nat : <<y, x>> \in R <=> y < x
  BY DEF OpToRel
<1>2. \E x \in S : \A y \in S : ~ (<<y, x>> \in R)
  <2> HIDE DEF R
  <2>1. IsWellFoundedOn(R, Nat)
    BY NatLessThanWellFounded DEF R
  <2>2. QED
    BY <2>1, WFMin
<1> HIDE DEF R
<1>3. PICK x \in S : \A y \in S : ~ (y < x)
  BY <1>1, <1>2
<1>4. \A y \in S : x <= y
  BY <1>3
<1>5. QED
  BY <1>4 DEF Min

(* Only an element that equals e goes.                                     *)
LEMMA RemovedFirst ==
  ASSUME NEW S, NEW s \in Seq(S), NEW e
  PROVE  /\ RemoveFirst(s, e) \in Seq(S)
         /\ \A j \in 1..Len(s) : s[j] # e =>
               \E k \in 1..Len(RemoveFirst(s, e)) : RemoveFirst(s, e)[k] = s[j]
<1>1. CASE ~\E i \in 1..Len(s) : s[i] = e
  BY <1>1 DEF RemoveFirst
<1>2. CASE \E i \in 1..Len(s) : s[i] = e
  <2> DEFINE I == {i \in 1..Len(s) : s[i] = e}
             k == Min(I)
             n == Len(s)
             b == SubSeq(s, 1, k - 1)
             t == SubSeq(s, k + 1, n)
  <2>1. RemoveFirst(s, e) = b \o t
    <3>1. SelectInSeq(s, LAMBDA v : v = e) = k
      BY <1>2 DEF SelectInSeq
    <3>2. QED
      BY <1>2, <3>1 DEF RemoveFirst, RemoveAt
  <2>2. I \in SUBSET Nat /\ I # {} /\ n \in Nat
    BY <1>2
  <2>3. k \in I
    <3> HIDE DEF I
    <3>1. QED
      BY <2>2, LeastOf
  <2>4. k \in 1..n /\ s[k] = e
    BY <2>3
  <2> HIDE DEF k, I
  <2>5. \A i \in 1..n : s[i] \in S
    BY ElementOfSeq
  <2>6. b \in Seq(S) /\ Len(b) = k - 1 /\ \A i \in 1..k - 1 : b[i] = s[i]
    <3>1. \A i \in 1..k - 1 : s[i] \in S
      BY <2>2, <2>4, <2>5
    <3>2. 1 \in Int /\ k - 1 \in Nat /\ k - 1 \in Int
      BY <2>4
    <3>3. b \in Seq(S)
      BY <3>1, <3>2, SubSeqProperties
    <3>4. Len(b) = IF 1 <= k - 1 THEN (k - 1) - 1 + 1 ELSE 0
      BY <3>1, <3>2, SubSeqProperties
    <3>5. \A i \in 1..k - 1 : b[i] = s[i]
      BY <3>1, <3>2
    <3> HIDE DEF b
    <3>6. Len(b) = k - 1
      BY <3>2, <3>4
    <3>7. QED
      BY <3>3, <3>5, <3>6
  <2>7. t \in Seq(S) /\ Len(t) = n - k /\ \A i \in 1..n - k : t[i] = s[k + i]
    <3>1. \A i \in k + 1..n : s[i] \in S
      BY <2>2, <2>4, <2>5
    <3>2. k + 1 \in Int /\ n \in Int /\ n - k \in Nat
      BY <2>2, <2>4
    <3>3. t \in Seq(S)
      BY <3>1, <3>2, SubSeqProperties
    <3>4. Len(t) = IF k + 1 <= n THEN n - (k + 1) + 1 ELSE 0
      BY <3>1, <3>2, SubSeqProperties
    <3>5. \A i \in 1..n - k : t[i] = s[k + i]
      <4>1. \A i \in 1..n - (k + 1) + 1 : t[i] = s[k + 1 + i - 1]
        BY <3>1, <3>2, SubSeqProperties
      <4> HIDE DEF t, n
      <4>2. ASSUME NEW i \in 1..n - k PROVE t[i] = s[k + i]
        <5>1. i \in 1..n - (k + 1) + 1 /\ k + 1 + i - 1 = k + i
          BY <2>2, <2>4
        <5>2. QED
          BY <4>1, <5>1
      <4>3. QED
        BY <4>2
    <3> HIDE DEF t, n
    <3>6. Len(t) = n - k
      BY <2>2, <2>4, <3>2, <3>4
    <3>7. QED
      BY <3>3, <3>5, <3>6
  <2> HIDE DEF b, t
  <2>8. b \o t \in Seq(S) /\ Len(b \o t) = (k - 1) + (n - k)
    <3>1. b \o t \in Seq(S) /\ Len(b \o t) = Len(b) + Len(t)
      BY <2>6, <2>7, ConcatProperties
    <3>2. QED
      BY <2>6, <2>7, <3>1
  <2> HIDE DEF n
  <2>9. ASSUME NEW j \in 1..n, s[j] # e PROVE \E i \in 1..Len(b \o t) : (b \o t)[i] = s[j]
    <3>1. CASE j < k
      <4>1. j \in 1..k - 1 /\ j \in 1..Len(b) /\ j \in 1..Len(b \o t)
        BY <2>2, <2>4, <2>6, <2>8, <3>1
      <4>2. (b \o t)[j] = b[j]
        BY <2>6, <2>7, <4>1
      <4>3. QED
        BY <2>6, <4>1, <4>2
    <3>2. CASE j > k
      <4> DEFINE i == j - 1
      <4>1. i \in 1..Len(b \o t) /\ i > Len(b) /\ i - Len(b) = j - k /\ j - k \in 1..n - k
            /\ k + (j - k) = j
        BY <2>2, <2>4, <2>6, <2>8, <3>2
      <4> HIDE DEF i
      <4>2. (b \o t)[i] = t[i - Len(b)]
        <5>1. i \in 1..Len(b) + Len(t) /\ ~(i <= Len(b))
          BY <2>2, <2>4, <2>6, <2>7, <2>8, <4>1
        <5>2. QED
          BY <2>6, <2>7, <5>1, ConcatProperties
      <4>3. (b \o t)[i] = s[j]
        BY <2>7, <4>1, <4>2
      <4>4. QED
        BY <4>1, <4>3
    <3>3. QED
      BY <2>2, <2>4, <2>9, <3>1, <3>2
  <2>10. QED
    BY <2>1, <2>8, <2>9 DEF n
<1>3. QED
  BY <1>1, <1>2

(* A set of numbers with 0 and the successor of each of its members.       *)
LEMMA SetInduction ==
  ASSUME NEW S \in SUBSET Nat, 0 \in S, \A n \in S : n + 1 \in S
  PROVE  S = Nat
<1> SUFFICES ASSUME Nat \ S # {} PROVE FALSE
  OBVIOUS
<1> DEFINE x == Min(Nat \ S)
<1>1. x \in Nat \ S /\ \A y \in Nat \ S : x <= y
  BY LeastOf
<1> HIDE DEF x
<1>2. x - 1 \in Nat /\ ~ (x <= x - 1) /\ (x - 1) + 1 = x
  BY <1>1
<1>3. x - 1 \in S
  BY <1>1, <1>2
<1>4. QED
  BY <1>1, <1>2, <1>3

-------------------------------------------------------------------------------
(***************************************************************************)
(* What a call that runs alone has read.                                   *)
(***************************************************************************)

(* The requests of the call: ATS80? is not among them while the top frame  *)
(* is one for the command itself.                                          *)
Ids(c) == IF Top(c).cmd = "own" THEN {Request(c, "own")}
          ELSE {Request(c, "own"), Request(c, "S80")}

(* Frame f of the call, as the one below the frame `above' or on top.  A   *)
(* frame for the command has read nothing but answers to it.               *)
ReadOwn(c, f, I) ==
    /\ f.ans \in Seq(Said(I))
    /\ f.cmd = "own" => f.ans \in Seq(Said({Request(c, "own")}))
    /\ f.pc \in {"drainCrc", "recvCrc", "error"} => Terminated(f.ans)

Linked(f, above) == f.pc = "retry" => above.cmd = f.cmd

FramesOwn(c) ==
    /\ stack[c][1].cmd = "own"
    /\ \A i \in 1..Len(stack[c]) : ReadOwn(c, stack[c][i], Ids(c))
    /\ \A i \in 1..Len(stack[c]) - 1 : Linked(stack[c][i], stack[c][i + 1])

(* How the response grows from the top frame, n, down to the bottom.       *)
ResponseStep(s, g, i) ==
    IF s[i].pc = "error" THEN Append(s[i].ans, g[i + 1][1]) ELSE g[i + 1]

Responses(g, s, ans) ==
    g = [i \in 1..Len(s) |-> IF i = Len(s) THEN ans ELSE ResponseStep(s, g, i)]

(* There is a function that gives it.                                      *)
LEMMA ResponseExists ==
  ASSUME NEW A, NEW s \in Seq(Frames(A)), s # <<>>, NEW I,
         \A i \in 1..Len(s) : s[i].ans \in Seq(Said(I)),
         NEW ans \in Seq(Said(I)), ans # <<>>
  PROVE  \E g : Responses(g, s, ans)
<1> DEFINE n == Len(s)
           T == {t \in Seq(Said(I)) : t # <<>>}
           From(g, m) == \A i \in m..n : g[i] = IF i = n THEN ans ELSE ResponseStep(s, g, i)
           Possible(k) == \E g \in [n - k..n -> T] : From(g, n - k)
           S == {k \in Nat : k < n => Possible(k)}
<1>1. n \in Nat /\ n # 0
  BY EmptySeq
<1>2. Possible(0)
  <2> DEFINE g == [i \in n..n |-> ans]
  <2>1. g \in [n..n -> T] /\ From(g, n) /\ n - 0 = n
    BY <1>1
  <2>2. QED
    BY <2>1
<1>3. ASSUME NEW k \in Nat, k + 1 < n, Possible(k) PROVE Possible(k + 1)
  <2> DEFINE m == n - (k + 1)
  <2>1. m \in 1..n /\ m # n /\ n - k = m + 1 /\ m \in Nat
    BY <1>1, <1>3
  <2>2. PICK g \in [m + 1..n -> T] : From(g, m + 1)
    BY <1>3, <2>1
  <2> DEFINE first == ResponseStep(s, g, m)
             h == [i \in m..n |-> IF i = m THEN first ELSE g[i]]
  <2> HIDE DEF m
  <2>3. first \in T
    <3>1. m + 1 \in m + 1..n
      BY <1>1, <2>1
    <3>2. g[m + 1] \in T
      BY <2>2, <3>1
    <3>3. g[m + 1][1] \in Said(I)
      <4>1. g[m + 1] \in Seq(Said(I)) /\ Len(g[m + 1]) \in Nat \ {0}
        BY <3>2, EmptySeq
      <4>2. 1 \in 1..Len(g[m + 1])
        BY <4>1
      <4>3. QED
        BY <4>1, <4>2, ElementOfSeq
    <3>4. s[m].ans \in Seq(Said(I))
      BY <2>1
    <3>5. /\ Append(s[m].ans, g[m + 1][1]) \in Seq(Said(I))
          /\ Append(s[m].ans, g[m + 1][1]) # <<>>
      BY <3>3, <3>4, OneLineMore
    <3>6. QED
      BY <3>2, <3>5 DEF ResponseStep
  <2> HIDE DEF T
  <2>4. \A i \in m..n : i # m => i \in m + 1..n
    BY <1>1, <2>1
  <2> HIDE DEF first
  <2>5. h \in [m..n -> T] /\ h[m] = first /\ \A i \in m + 1..n : h[i] = g[i]
    <3>1. h \in [m..n -> T]
      BY <2>2, <2>3, <2>4
    <3>2. m \in m..n /\ \A i \in m + 1..n : i \in m..n /\ i # m
      BY <1>1, <2>1
    <3>3. QED
      BY <3>1, <3>2
  <2> HIDE DEF h
  <2>6. ASSUME NEW i \in m..n PROVE h[i] = IF i = n THEN ans ELSE ResponseStep(s, h, i)
    <3>1. CASE i = m
      <4>1. m + 1 \in m + 1..n
        BY <1>1, <2>1
      <4>2. h[m + 1] = g[m + 1]
        BY <2>5, <4>1
      <4>3. ResponseStep(s, h, m) = first
        BY <4>2 DEF ResponseStep, first
      <4>4. QED
        BY <2>1, <2>5, <3>1, <4>3
    <3>2. CASE i # m
      <4>1. i \in m + 1..n /\ (i # n => i + 1 \in m + 1..n)
        BY <1>1, <2>1, <3>2
      <4>2. h[i] = g[i] /\ (i # n => h[i + 1] = g[i + 1])
        BY <2>5, <4>1
      <4>3. i # n => ResponseStep(s, h, i) = ResponseStep(s, g, i)
        BY <4>2 DEF ResponseStep
      <4>4. g[i] = IF i = n THEN ans ELSE ResponseStep(s, g, i)
        BY <2>2, <4>1
      <4>5. QED
        BY <4>2, <4>3, <4>4
    <3>3. QED
      BY <3>1, <3>2
  <2>7. From(h, m)
    BY <2>6
  <2>8. QED
    BY <2>5, <2>7 DEF m
<1> HIDE DEF Possible
<1>4. S = Nat
  <2>1. S \subseteq Nat /\ 0 \in S
    BY <1>2
  <2>2. ASSUME NEW k \in S PROVE k + 1 \in S
    <3>1. k \in Nat /\ k + 1 \in Nat /\ (k < n => Possible(k))
      OBVIOUS
    <3>2. ASSUME k + 1 < n PROVE Possible(k + 1)
      <4>1. k < n
        BY <1>1, <3>1, <3>2
      <4>2. QED
        BY <1>3, <3>1, <3>2, <4>1
    <3>3. QED
      BY <3>1, <3>2
  <2> HIDE DEF S
  <2>3. QED
    BY <2>1, <2>2, SetInduction
<1>5. Possible(n - 1)
  <2>1. n - 1 \in Nat /\ n - 1 < n
    BY <1>1
  <2>2. QED
    BY <1>4, <2>1
<1>6. n - (n - 1) = 1
  BY <1>1
<1>7. PICK g \in [1..n -> T] : From(g, 1)
  BY <1>5, <1>6 DEF Possible
<1>8. Responses(g, s, ans)
  BY <1>7 DEF Responses
<1>9. QED
  BY <1>8

(* Every value of such a function is the response that a frame returns:    *)
(* lines of the call, and for the command itself an answer to it.          *)
LEMMA ResponseSteps ==
  ASSUME NEW A, stack \in Stacks(A), NEW c \in Callers, stack[c] # <<>>, Fits(c), FramesOwn(c),
         NEW ans \in Seq(Said(Ids(c))), ans # <<>>,
         Top(c).cmd = "own" => Answers(ans, Request(c, "own")),
         NEW g, Responses(g, stack[c], ans)
  PROVE  g[1] \in Seq(Said(Ids(c))) /\ Answers(g[1], Request(c, "own"))
<1> DEFINE n     == Len(stack[c])
           I     == Ids(c)
           own   == Request(c, "own")
           T     == {t \in Seq(Said(I)) : t # <<>>}
           Right(i) == g[i] \in T /\ (stack[c][i].cmd = "own" => Answers(g[i], own))
           S     == {k \in Nat : k < n => Right(n - k)}
<1>1. stack[c] \in Seq(Frames(A)) /\ n \in Nat /\ n # 0 /\ Top(c) = stack[c][n]
  BY EmptySeq DEF Stacks, Top, Last
<1>2. \A i \in 1..n : g[i] = IF i = n THEN ans ELSE ResponseStep(stack[c], g, i)
  BY Zenon DEF Responses
<1>3. Right(n)
  BY <1>1, <1>2
<1>4. ASSUME NEW i \in 1..n, i # n, Right(i + 1) PROVE Right(i)
  <2>1. i \in 1..n - 1 /\ i < n /\ g[i] = ResponseStep(stack[c], g, i)
    BY <1>1, <1>2, <1>4
  <2>2. stack[c][i].pc \in Waits
    BY <2>1 DEF Fits
  <2>3. ReadOwn(c, stack[c][i], I) /\ Linked(stack[c][i], stack[c][i + 1])
    BY <2>1 DEF FramesOwn
  <2>4. g[i + 1] \in T
    BY <1>4
  <2>5. CASE stack[c][i].pc = "error"
    <3> DEFINE a == stack[c][i].ans
               x == g[i + 1][1]
    <3>1. a \in Seq(Said(I)) /\ Terminated(a)
          /\ (stack[c][i].cmd = "own" => a \in Seq(Said({own})))
      BY <2>3, <2>5 DEF ReadOwn
    <3>2. x \in Said(I)
      <4>1. g[i + 1] \in Seq(Said(I)) /\ Len(g[i + 1]) \in Nat \ {0}
        BY <2>4, EmptySeq
      <4>2. 1 \in 1..Len(g[i + 1])
        BY <4>1
      <4>3. QED
        BY <4>1, <4>2, ElementOfSeq
    <3>3. g[i] = Append(a, x)
      BY <2>1, <2>5 DEF ResponseStep
    <3> HIDE DEF a, x, I
    <3>4. g[i] \in Seq(Said(I)) /\ g[i] # <<>>
      BY <3>1, <3>2, <3>3, OneLineMore
    <3>6. stack[c][i].cmd = "own" => Answers(a, own)
      <4> HIDE DEF own
      <4>1. QED
        BY <3>1, TerminatedAnswers
    <3>7. Answers(a, own) => Answers(g[i], own)
      BY <3>1, <3>2, <3>3, OneLineMore
    <3>8. QED
      BY <3>4, <3>6, <3>7
  <2>6. CASE stack[c][i].pc = "retry"
    <3>1. g[i] = g[i + 1] /\ stack[c][i + 1].cmd = stack[c][i].cmd
      BY <2>1, <2>3, <2>6 DEF ResponseStep, Linked
    <3>2. QED
      BY <1>4, <3>1
  <2>7. QED
    BY <2>2, <2>5, <2>6 DEF Waits
<1> HIDE DEF Right
<1>5. S = Nat
  <2>1. S \subseteq Nat /\ 0 \in S
    <3>1. n - 0 = n
      BY <1>1
    <3>2. QED
      BY <1>3, <3>1
  <2>2. ASSUME NEW k \in S PROVE k + 1 \in S
    <3>1. k \in Nat /\ k + 1 \in Nat /\ (k < n => Right(n - k))
      OBVIOUS
    <3>2. ASSUME k + 1 < n PROVE Right(n - (k + 1))
      <4>1. k < n /\ n - (k + 1) \in 1..n /\ n - (k + 1) # n /\ n - (k + 1) + 1 = n - k
        BY <1>1, <3>1, <3>2
      <4>2. Right(n - (k + 1) + 1)
        BY <3>1, <4>1
      <4>3. QED
        BY <1>4, <4>1, <4>2
    <3>3. QED
      BY <3>1, <3>2
  <2> HIDE DEF S
  <2>3. QED
    BY <2>1, <2>2, SetInduction
<1>6. Right(1)
  <2>1. n - 1 \in Nat /\ n - 1 < n /\ n - (n - 1) = 1
    BY <1>1
  <2>2. QED
    BY <1>5, <2>1
<1>7. stack[c][1].cmd = "own"
  BY DEF FramesOwn
<1>8. QED
  BY <1>6, <1>7 DEF Right

(* So what a call returns answers its command.                             *)
LEMMA ResponseOwn ==
  ASSUME NEW A, stack \in Stacks(A), NEW c \in Callers, stack[c] # <<>>, Fits(c), FramesOwn(c),
         NEW ans \in Seq(Said(Ids(c))), ans # <<>>,
         Top(c).cmd = "own" => Answers(ans, Request(c, "own"))
  PROVE  /\ Response(c, ans) \in Seq(Said(Ids(c)))
         /\ Answers(Response(c, ans), Request(c, "own"))
<1>1. stack[c] \in Seq(Frames(A))
  BY DEF Stacks
<1>2. \A i \in 1..Len(stack[c]) : stack[c][i].ans \in Seq(Said(Ids(c)))
  BY DEF FramesOwn, ReadOwn
<1>3. PICK g : Responses(g, stack[c], ans)
  BY <1>1, <1>2, ResponseExists
<1>4. ASSUME NEW h, Responses(h, stack[c], ans)
      PROVE  h[1] \in Seq(Said(Ids(c))) /\ Answers(h[1], Request(c, "own"))
  BY <1>4, ResponseSteps
<1>5. QED
  BY <1>3, <1>4, Zenon DEF Response, Responses, ResponseStep

-------------------------------------------------------------------------------
(***************************************************************************)
(* A call that runs alone on a modem that owes no answer.                  *)
(***************************************************************************)

(* The call still reads, or is to read; nothing of it is settled yet.      *)
Live(c) == stack[c] # <<>> /\ ~Ended(Top(c))

(* All that is under way belongs to the call: the requests that wait, the  *)
(* lines in the buffer once the call has opened the port, and what its     *)
(* frames have read.                                                       *)
OwnWorld(c) ==
    /\ FramesOwn(c) /\ Top(c).on # "replaced"
    /\ work \in Seq([id : Ids(c), crc : BOOLEAN])
    /\ serial = "open" => rx \in Seq(Said(Ids(c)))
    /\ now[c].result.kind = "none"

OwnResult(c) ==
    now[c].result.kind = "answer" =>
        /\ now[c].result.ans \in Seq(Said({Request(c, "own"), Request(c, "S80")}))
        /\ Answers(now[c].result.ans, Request(c, "own"))

AloneOwn(c) ==
    now[c].alone /\ now[c].clean =>
        /\ \A d \in Callers \ {c} : stack[d] = <<>>
        /\ Live(c) => OwnWorld(c)
        /\ OwnResult(c)

(* What a step leaves to be read.                                          *)
OwnModem(c) ==
    /\ work' \in Seq([id : Ids(c), crc : BOOLEAN])
    /\ serial' = "open" => rx' \in Seq(Said(Ids(c)))

(* The requests of a call are those it had.                                *)
LEMMA RequestsKept ==
  ASSUME Kept, NEW c \in Callers, now[c].alone
  PROVE  \A cmd : Request(c, cmd)' = Request(c, cmd)
  BY DEF Kept, Request

LEMMA SwapsOwn ==
  ASSUME NEW A, stack \in Stacks(A), NEW c \in Callers, OwnWorld(c), Kept, now[c].alone,
         now'[c].result = now[c].result, OwnModem(c),
         NEW state \in Ports, NEW g, Swaps(c, state, g),
         g.cmd = Top(c).cmd, ReadOwn(c, g, Ids(c)), g.on # "replaced"
  PROVE  OwnWorld(c)'
<1> DEFINE n == Len(stack[c])
<1>1. stack[c] \in Seq(Frames(A)) /\ n \in Nat /\ n # 0 /\ Top(c) = stack[c][n]
  BY EmptySeq DEF Stacks, Top, Last, Swaps
<1>2. ASSUME NEW i \in 1..n
      PROVE  /\ Replug(stack[c][i], state).cmd = stack[c][i].cmd
             /\ Replug(stack[c][i], state).pc = stack[c][i].pc
             /\ Replug(stack[c][i], state).ans = stack[c][i].ans
  <2>1. stack[c][i] \in Frames(A)
    BY <1>1, ElementOfSeq
  <2>2. QED
    BY <2>1, ReplugFrame
<1>3. Len(stack'[c]) = n /\ \A i \in 1..n : stack'[c][i] = IF i = n THEN g ELSE Replug(stack[c][i], state)
  BY DEF Swaps
<1>4. Top(c)' = g
  BY <1>1, <1>3 DEF Top, Last
<1>5. \A cmd : Request(c, cmd)' = Request(c, cmd)
  BY RequestsKept
<1>6. Ids(c)' = Ids(c)
  BY <1>4, <1>5 DEF Ids
<1>7. \A i \in 1..n : stack'[c][i].cmd = stack[c][i].cmd
  BY <1>1, <1>2, <1>3
<1>8. ASSUME NEW i \in 1..n PROVE ReadOwn(c, stack[c][i], Ids(c))'
  <2>1. ReadOwn(c, stack[c][i], Ids(c))
    BY DEF OwnWorld, FramesOwn
  <2>2. ReadOwn(c, stack'[c][i], Ids(c))
    <3>1. CASE i = n
      BY <1>3, <3>1
    <3>2. CASE i # n
      BY <1>2, <1>3, <2>1, <3>2 DEF ReadOwn
    <3>3. QED
      BY <3>1, <3>2
  <2>3. QED
    BY <1>5, <1>6, <2>2 DEF ReadOwn
<1>9. ASSUME NEW i \in 1..n - 1 PROVE Linked(stack'[c][i], stack'[c][i + 1])
  <2>1. i \in 1..n /\ i + 1 \in 1..n /\ i # n
    BY <1>1
  <2>2. Linked(stack[c][i], stack[c][i + 1])
    BY DEF OwnWorld, FramesOwn
  <2>3. QED
    BY <1>2, <1>3, <1>7, <2>1, <2>2 DEF Linked
<1>10. stack'[c][1].cmd = "own"
  BY <1>1, <1>7 DEF OwnWorld, FramesOwn
<1>11. FramesOwn(c)'
  <2>1. \A i \in 1..n : ReadOwn(c, stack[c][i], Ids(c))'
    BY <1>8
  <2>2. \A i \in 1..n - 1 : Linked(stack[c][i], stack[c][i + 1])'
    BY <1>9 DEF Linked
  <2>3. QED
    BY <1>3, <1>10, <2>1, <2>2 DEF FramesOwn
<1>12. QED
  BY <1>4, <1>6, <1>11 DEF OwnWorld, OwnModem

LEMMA NestsOwn ==
  ASSUME NEW A, stack \in Stacks(A), NEW c \in Callers, OwnWorld(c), Kept, now[c].alone,
         now'[c].result = now[c].result, OwnModem(c),
         NEW f, NEW g, Nests(c, f, g),
         f.cmd = Top(c).cmd, ReadOwn(c, f, Ids(c)),
         g.cmd = f.cmd \/ (g.cmd = "S80" /\ f.pc # "retry"),
         g.ans = <<>>, g.pc \in {"spin", "begin"}, g.on # "replaced"
  PROVE  OwnWorld(c)'
<1> DEFINE n == Len(stack[c])
<1>1. stack[c] \in Seq(Frames(A)) /\ n \in Nat /\ n # 0 /\ Top(c) = stack[c][n]
  BY EmptySeq DEF Stacks, Top, Last, Nests
<1>3. /\ Len(stack'[c]) = n + 1
      /\ \A i \in 1..n + 1 : stack'[c][i] = IF i = n + 1 THEN g
                                           ELSE IF i = n THEN f ELSE stack[c][i]
  BY DEF Nests
<1>4. stack'[c][n + 1] = g /\ stack'[c][n] = f
      /\ \A i \in 1..n - 1 : stack'[c][i] = stack[c][i]
  <2> HIDE DEF n
  <2>1. n + 1 \in 1..n + 1 /\ n \in 1..n + 1 /\ n # n + 1
        /\ \A i \in 1..n - 1 : i \in 1..n + 1 /\ i # n + 1 /\ i # n
    BY <1>1
  <2>2. QED
    BY <1>3, <2>1
<1>5. Top(c)' = g
  BY <1>3, <1>4 DEF Top, Last
<1>6. \A cmd : Request(c, cmd)' = Request(c, cmd)
  BY RequestsKept
<1>7. Ids(c) \subseteq Ids(c)'
  BY <1>5, <1>6 DEF Ids
<1>8. \A i \in 1..n : stack'[c][i].cmd = stack[c][i].cmd
  <2> HIDE DEF n
  <2>1. \A i \in 1..n : i # n => i \in 1..n - 1
    BY <1>1
  <2>2. QED
    BY <1>1, <1>4, <2>1
<1>9. ASSUME NEW i \in 1..n + 1 PROVE ReadOwn(c, stack[c][i], Ids(c))'
  <2>1. CASE i = n + 1
    <3>1. \A I : <<>> \in Seq(Said(I))
      BY EmptySeq
    <3>2. stack'[c][i] = g
      BY <1>4, <2>1
    <3>3. QED
      BY <3>1, <3>2 DEF ReadOwn
  <2>2. CASE i # n + 1
    <3>1. i \in 1..n /\ (i # n => i \in 1..n - 1)
      BY <1>1, <2>2
    <3>2. ReadOwn(c, stack[c][i], Ids(c))
      BY <3>1 DEF OwnWorld, FramesOwn
    <3>3. ReadOwn(c, stack'[c][i], Ids(c))
      BY <1>4, <3>1, <3>2
    <3>4. stack'[c][i].ans \in Seq(Said(Ids(c)'))
      BY <1>7, <3>3, SaidMore DEF ReadOwn
    <3>5. QED
      BY <1>6, <3>3, <3>4 DEF ReadOwn
  <2>3. QED
    BY <2>1, <2>2
<1>10. ASSUME NEW i \in 1..n PROVE Linked(stack'[c][i], stack'[c][i + 1])
  <2>1. CASE i = n
    BY <1>4, <2>1 DEF Linked
  <2>2. CASE i # n
    <3>1. i \in 1..n - 1 /\ i \in 1..n /\ i + 1 \in 1..n
      BY <1>1, <2>2
    <3>2. Linked(stack[c][i], stack[c][i + 1])
      BY <3>1 DEF OwnWorld, FramesOwn
    <3>3. QED
      BY <1>4, <1>8, <3>1, <3>2 DEF Linked
  <2>3. QED
    BY <2>1, <2>2
<1>11. stack'[c][1].cmd = "own"
  BY <1>1, <1>8 DEF OwnWorld, FramesOwn
<1>12. FramesOwn(c)'
  <2>1. \A i \in 1..n + 1 : ReadOwn(c, stack[c][i], Ids(c))'
    BY <1>9
  <2>2. \A i \in 1..n : Linked(stack[c][i], stack[c][i + 1])'
    BY <1>10 DEF Linked
  <2>3. Len(stack'[c]) - 1 = n
    BY <1>1, <1>3
  <2>4. QED
    BY <1>3, <1>11, <2>1, <2>2, <2>3 DEF FramesOwn
<1>13. work' \in Seq([id : Ids(c)', crc : BOOLEAN])
  <2>1. [id : Ids(c), crc : BOOLEAN] \subseteq [id : Ids(c)', crc : BOOLEAN]
    BY <1>7
  <2>2. QED
    BY <2>1, SeqMonotonic DEF OwnModem
<1>14. serial' = "open" => rx' \in Seq(Said(Ids(c)'))
  BY <1>7, SaidMore DEF OwnModem
<1>15. QED
  BY <1>5, <1>12, <1>13, <1>14 DEF OwnWorld

(* After a step of the call it goes on among its own, or it is settled and *)
(* its result is its own.                                                  *)
StaysOwn(c) == OwnWorld(c)' \/ (~Live(c)' /\ OwnResult(c)')

(* The end of a call that has not its answer.                              *)
LEMMA RaiseOwn ==
  ASSUME Shape, NEW c \in Callers, stack[c] # <<>>, now[c].alone,
         NEW exception, exception # "answer", NEW rest, Raise(c, exception, rest)
  PROVE  StaysOwn(c)
<1> DEFINE o == [kind |-> exception, ans |-> <<>>]
<1>1. End(c, o, rest) /\ o.kind = exception
  BY DEF Raise
<1> HIDE DEF o
<1>2. Swaps(c, "current", Frame(Top(c).cmd, "finally")) /\ now'[c].result = o
  BY <1>1, EndAt
<1>3. ~Live(c)'
  BY <1>2, SwapsTop DEF Shape, Live, Ended, Frame, Closing
<1>4. QED
  BY <1>1, <1>2, <1>3 DEF StaysOwn, OwnResult

(* A nested command of the call.                                           *)
LEMMA commandOwn ==
  ASSUME Shape, NEW A, <<>> \in A, stack \in Stacks(A), NEW c \in Callers, stack[c] # <<>>,
         OwnWorld(c), now[c].alone,
         NEW B, A \subseteq B, NEW f \in Frames(B), NEW cmd \in {"own", "S80"}, NEW rest,
         command(c, f, cmd, rest),
         f.cmd = Top(c).cmd, ReadOwn(c, f, Ids(c)), cmd = f.cmd \/ (cmd = "S80" /\ f.pc # "retry"),
         UNCHANGED <<work, serial>>, serial = "open" => rest \in Seq(Said(Ids(c)))
  PROVE  StaysOwn(c)
<1> DEFINE h == [f EXCEPT !.on = "closed"]
<1>1. h.cmd = f.cmd /\ h.pc = f.pc /\ h.ans = f.ans
  BY DEF Frames
<1>2. \/ Raise(c, "RecursionError", rest)
      \/ /\ rx' = rest /\ UNCHANGED now
         /\ \E pc \in {"spin", "begin"} : Nests(c, h, Frame(cmd, pc))
  BY commandAt
<1> HIDE DEF h
<1>3. h.cmd = Top(c).cmd /\ ReadOwn(c, h, Ids(c)) /\ (cmd = h.cmd \/ (cmd = "S80" /\ h.pc # "retry"))
  BY <1>1 DEF ReadOwn
<1>4. CASE Raise(c, "RecursionError", rest)
  BY <1>4, RaiseOwn
<1>5. ASSUME rx' = rest, UNCHANGED now, NEW pc \in {"spin", "begin"}, Nests(c, h, Frame(cmd, pc))
      PROVE  OwnWorld(c)'
  <2>1. OwnModem(c) /\ Kept /\ now'[c].result = now[c].result
    BY <1>5, NowKept DEF OwnModem, OwnWorld, Shape
  <2> DEFINE g == Frame(cmd, pc)
  <2>2. g.cmd = cmd /\ g.pc \in {"spin", "begin"} /\ g.ans = <<>> /\ g.on # "replaced" /\ Nests(c, h, g)
    BY <1>5 DEF Frame
  <2> HIDE DEF g
  <2>3. g.cmd = h.cmd \/ (g.cmd = "S80" /\ h.pc # "retry")
    BY <1>3, <2>2
  <2>4. QED
    BY <1>3, <2>1, <2>2, <2>3, NestsOwn
<1>6. QED
  BY <1>2, <1>4, <1>5 DEF StaysOwn

LEMMA SendOwn ==
  ASSUME Shape, NEW c \in Callers, stack[c] # <<>>, now[c].alone,
         OwnWorld(c), NEW believed, NEW rest, Send(c, believed, rest), serial' = serial,
         serial = "open" => rest \in Seq(Said(Ids(c)))
  PROVE  StaysOwn(c)
<1>0. PICK A : <<>> \in A /\ stack \in Stacks(A)
  BY DEF Shape, StackShape
<1>1. Top(c) \in Frames(A)
  BY <1>0, TopShape
<1> DEFINE g   == Sent(Top(c).cmd)
           own == Top(c).cmd = "own"
<1>2. CASE Raise(c, "broken", rest)
  BY <1>2, RaiseOwn
<1>3. CASE Sending(c, believed, rest)
  <2> DEFINE new == [id |-> Request(c, Top(c).cmd), crc |-> believed = "on"]
  <2>1. /\ serial = "open" /\ Swaps(c, "current", g) /\ rx' = rest /\ work' = Append(work, new)
        /\ now' = [now EXCEPT ![c].sends = IF own /\ now[c].alone THEN @ + 1 ELSE @]
    BY <1>3 DEF Sending
  <2>2. own \in BOOLEAN
    OBVIOUS
  <2>3. Kept /\ now'[c].result = now[c].result
    <3> HIDE DEF own
    <3>1. QED
      BY <2>1, <2>2, SendsSet DEF Shape
  <2>4. OwnModem(c)
    <3>1. Request(c, Top(c).cmd) \in Ids(c)
      BY <1>1 DEF Ids, Frames
    <3>2. new \in [id : Ids(c), crc : BOOLEAN]
      BY <3>1
    <3>3. work' \in Seq([id : Ids(c), crc : BOOLEAN])
      BY <2>1, <3>2, AppendProperties DEF OwnWorld
    <3>4. QED
      BY <2>1, <3>3 DEF OwnModem
  <2>5. g.cmd = Top(c).cmd /\ g.on # "replaced" /\ g.ans = <<>> /\ g.pc = "recv"
    BY SendAt
  <2> HIDE DEF g
  <2>6. ReadOwn(c, g, Ids(c))
    <3>1. \A I : <<>> \in Seq(Said(I))
      BY EmptySeq
    <3>2. QED
      BY <2>5, <3>1 DEF ReadOwn
  <2> DEFINE state == "current"
  <2>7. Swaps(c, state, g) /\ state \in Ports
    BY <2>1 DEF Ports
  <2> HIDE DEF state
  <2>8. OwnWorld(c)'
    BY <1>0, <2>3, <2>4, <2>5, <2>6, <2>7, SwapsOwn
  <2>9. QED
    BY <2>8 DEF StaysOwn
<1>4. QED
  BY <1>2, <1>3, SendAt

LEMMA CrcErrorOwn ==
  ASSUME Shape, NEW c \in Callers, stack[c] # <<>>, now[c].alone, OwnWorld(c),
         NEW rest, CrcError(c, rest), UNCHANGED <<work, serial>>,
         ReadOwn(c, Top(c), Ids(c)), serial = "open" => rest \in Seq(Said(Ids(c)))
  PROVE  StaysOwn(c)
<1>0. PICK A : <<>> \in A /\ stack \in Stacks(A)
  BY DEF Shape, StackShape
<1>1. Top(c) \in Frames(A)
  BY <1>0, TopShape
<1> DEFINE f   == Again(c)
           cmd == Top(c).cmd
<1>2. f \in Frames(A) /\ cmd \in {"own", "S80"} /\ f.cmd = cmd /\ f.ans = Top(c).ans /\ f.pc = "retry"
  BY <1>1 DEF Again, Frames, Stages, Waits
<1>3. f.cmd = Top(c).cmd
  BY <1>2
<1>4. command(c, f, cmd, rest) \/ Raise(c, "AtException", rest)
  BY DEF CrcError, Again
<1> HIDE DEF f, cmd
<1>5. ReadOwn(c, f, Ids(c))
  BY <1>2, <1>3 DEF ReadOwn
<1>6. CASE command(c, f, cmd, rest)
  BY <1>0, <1>2, <1>3, <1>5, <1>6, commandOwn
<1>7. QED
  BY <1>4, <1>6, RaiseOwn

LEMMA ReceivedOwn ==
  ASSUME Shape, NEW c \in Callers, stack[c] # <<>>, now[c].alone, Fits(c), OwnWorld(c),
         NEW rest, Received(c, rest), UNCHANGED <<work, serial>>,
         ReadOwn(c, Top(c), Ids(c)), Terminated(Top(c).ans),
         serial = "open" => rest \in Seq(Said(Ids(c)))
  PROVE  StaysOwn(c)
<1>0. PICK A : <<>> \in A /\ stack \in Stacks(A)
  BY DEF Shape, StackShape
<1> DEFINE e   == Line("echo", Request(c, Top(c).cmd))
           ans == RemoveFirst(Top(c).ans, e)
           own == Request(c, "own")
           B   == A \cup {ans}
<1>1. Top(c) \in Frames(A)
  BY <1>0, TopShape
<1>2. /\ Erred(c).ans = ans /\ Erred(c).cmd = Top(c).cmd /\ Erred(c).pc = "error"
      /\ Erred(c) \in Frames(B)
  BY <1>1 DEF Erred, Frames, Stages, Waits
<1>3. Top(c).ans \in Seq(Said(Ids(c))) /\ (Top(c).cmd = "own" => Top(c).ans \in Seq(Said({own})))
  BY DEF ReadOwn
<1>4. ans \in Seq(Said(Ids(c))) /\ (Top(c).cmd = "own" => ans \in Seq(Said({own})))
  BY <1>3, RemovedFirst
<1>5. Terminated(ans)
  <2>1. PICK j \in 1..Len(Top(c).ans) : Top(c).ans[j].k \in {"OK", "ERROR"}
    BY DEF Terminated
  <2>2. Top(c).ans[j] # e
    BY <2>1 DEF Line
  <2>3. PICK k \in 1..Len(ans) : ans[k] = Top(c).ans[j]
    BY <1>3, <2>2, RemovedFirst
  <2>4. QED
    BY <2>1, <2>3 DEF Terminated
<1>6. \/ command(c, Erred(c), "S80", rest)
      \/ End(c, [kind |-> "answer", ans |-> Response(c, ans)], rest)
  BY DEF Received, Erred
<1>7. A \subseteq B
  OBVIOUS
<1> HIDE DEF ans, e, B
<1>8. ans # <<>>
  BY <1>5, EmptySeq DEF Terminated
<1>9. ReadOwn(c, Erred(c), Ids(c))
  BY <1>2, <1>4, <1>5 DEF ReadOwn
<1>10. CASE command(c, Erred(c), "S80", rest)
  <2> DEFINE f   == Erred(c)
             cmd == "S80"
  <2>1. /\ f \in Frames(B) /\ cmd \in {"own", "S80"} /\ command(c, f, cmd, rest)
        /\ f.cmd = Top(c).cmd /\ ReadOwn(c, f, Ids(c)) /\ cmd = "S80" /\ f.pc # "retry"
    BY <1>2, <1>9, <1>10
  <2> HIDE DEF f, cmd
  <2>2. QED
    BY <1>0, <1>7, <2>1, commandOwn
<1>11. CASE End(c, [kind |-> "answer", ans |-> Response(c, ans)], rest)
  <2>1. Top(c).cmd = "own" => Answers(ans, own)
    BY <1>4, <1>5, TerminatedAnswers
  <2>2. Response(c, ans) \in Seq(Said(Ids(c))) /\ Answers(Response(c, ans), own)
    BY <1>0, <1>4, <1>8, <2>1, ResponseOwn DEF OwnWorld
  <2> DEFINE o == [kind |-> "answer", ans |-> Response(c, ans)]
  <2>3. End(c, o, rest) /\ o.ans = Response(c, ans)
    BY <1>11
  <2> HIDE DEF o
  <2>4. Swaps(c, "current", Frame(Top(c).cmd, "finally")) /\ now'[c].result = o /\ HistoryKept
    BY <2>3, EndAt
  <2>5. ~Live(c)'
    BY <2>4, SwapsTop DEF Shape, Live, Ended, Frame, Closing
  <2>6. \A cmd : Request(c, cmd)' = Request(c, cmd)
    BY <2>4, RequestsKept DEF HistoryKept
  <2>7. Ids(c) \subseteq {own, Request(c, "S80")}
    BY DEF Ids
  <2>8. o.ans \in Seq(Said({own, Request(c, "S80")}))
    BY <2>2, <2>3, <2>7, SaidMore
  <2>9. OwnResult(c)'
    BY <2>2, <2>3, <2>4, <2>6, <2>8 DEF OwnResult
  <2>10. QED
    BY <2>5, <2>9 DEF StaysOwn
<1>12. QED
  BY <1>6, <1>10, <1>11

(* What is known of the top frame.                                         *)
LEMMA TopOwn ==
  ASSUME NEW A, stack \in Stacks(A), NEW c \in Callers, stack[c] # <<>>, Fits(c), OwnWorld(c)
  PROVE  /\ Top(c) \in Frames(A) /\ ReadOwn(c, Top(c), Ids(c))
         /\ Top(c).on # "closed" => serial = "open"
<1>1. stack[c] \in Seq(Frames(A)) /\ Len(stack[c]) \in 1..Len(stack[c])
      /\ Top(c) = stack[c][Len(stack[c])]
  BY EmptySeq DEF Stacks, Top, Last
<1>2. Top(c) \in Frames(A)
  BY TopShape
<1>3. ReadOwn(c, Top(c), Ids(c)) /\ Top(c).on # "replaced" /\ (Top(c).on = "current" => serial = "open")
  BY <1>1 DEF OwnWorld, FramesOwn, Fits
<1>4. QED
  BY <1>2, <1>3 DEF Frames, Ports

(* A line of the response.                                                 *)
LEMMA TakenOwn ==
  ASSUME Shape, NEW c \in Callers, Fits(c), OwnWorld(c), TakeLine(c)
  PROVE  ReadOwn(c, ReadNext(Taken(c)), Ids(c))
<1>0. PICK A : stack \in Stacks(A)
  BY DEF Shape, StackShape
<1> DEFINE own  == Request(c, "own")
           l    == Head(rx)
           ends == l.k \in {"OK", "ERROR"}
           a    == Top(c).ans
           g    == ReadNext(Taken(c))
<1>1. /\ stack[c] # <<>> /\ Top(c).pc \in {"drain", "recv"} /\ Top(c).on # "closed" /\ rx # <<>>
      /\ g.cmd = Top(c).cmd
      /\ g.pc = IF ~ends THEN Top(c).pc ELSE IF Top(c).pc = "drain" THEN "drainCrc" ELSE "recvCrc"
      /\ g.ans = IF l = Line("echo", pending) THEN a ELSE Append(a, l)
  BY TakeLineAt
<1>2. ReadOwn(c, Top(c), Ids(c)) /\ serial = "open"
  BY <1>0, <1>1, TopOwn
<1>3. rx \in Seq(Said(Ids(c)))
  BY <1>2 DEF OwnWorld
<1>4. l \in Said(Ids(c))
  BY <1>1, <1>3, HeadTailProperties
<1>5. l = Line("echo", pending) => ~ends
  BY DEF Line
<1>6. a \in Seq(Said(Ids(c))) /\ (Top(c).cmd = "own" => a \in Seq(Said({own})) /\ Ids(c) = {own})
  BY <1>2 DEF ReadOwn, Ids
<1>7. ASSUME NEW I, a \in Seq(Said(I)), l \in Said(I)
      PROVE  /\ Append(a, l) \in Seq(Said(I))
             /\ ends => Terminated(Append(a, l))
  <2> HIDE DEF a, l, ends
  <2>1. /\ Append(a, l) \in Seq(Said(I)) /\ Len(Append(a, l)) = Len(a) + 1 /\ Len(a) \in Nat
        /\ Append(a, l)[Len(a) + 1] = l
    BY <1>7
  <2>2. Len(a) + 1 \in 1..Len(Append(a, l))
    BY <2>1
  <2>3. QED
    BY <2>1, <2>2 DEF Terminated, ends
<1> HIDE DEF ends, l, a, g
<1>8. g.ans \in Seq(Said(Ids(c))) /\ (ends => Terminated(g.ans))
  BY <1>1, <1>4, <1>5, <1>6, <1>7
<1>9. Top(c).cmd = "own" => g.ans \in Seq(Said({own}))
  BY <1>6, <1>8
<1>10. g.pc \in {"drainCrc", "recvCrc", "error"} => ends
  BY <1>1
<1>11. QED
  BY <1>1, <1>8, <1>9, <1>10 DEF ReadOwn, g

(* The top frame starts afresh, having read nothing.                       *)
LEMMA FreshOwn ==
  ASSUME NEW c \in Callers, NEW g, g.ans = <<>>, g.pc \notin {"drainCrc", "recvCrc", "error"}
  PROVE  ReadOwn(c, g, Ids(c))
<1>1. \A I : <<>> \in Seq(Said(I))
  BY EmptySeq
<1>2. QED
  BY <1>1 DEF ReadOwn

LEMMA GotoOwn ==
  ASSUME Shape, NEW c \in Callers, stack[c] # <<>>, now[c].alone, OwnWorld(c),
         NEW pc \in {"scheduled", "open"}, stack' = Goto(stack, c, pc),
         UNCHANGED <<serial, now, work, rx>>
  PROVE  OwnWorld(c)'
<1>0. PICK A : stack \in Stacks(A)
  BY DEF Shape, StackShape
<1> DEFINE state == "current"
           g     == Frame(Top(c).cmd, pc)
<1>1. Swaps(c, state, g) /\ state \in Ports
  BY GotoSame DEF Shape, Stages, Opening, Ports
<1>2. g.cmd = Top(c).cmd /\ g.pc = pc /\ g.ans = <<>> /\ g.on # "replaced"
  BY DEF Frame
<1>3. OwnModem(c) /\ Kept /\ now'[c].result = now[c].result
  BY NowKept DEF OwnModem, OwnWorld, Shape
<1> HIDE DEF state, g
<1>4. ReadOwn(c, g, Ids(c))
  BY <1>2, FreshOwn
<1>5. QED
  BY <1>0, <1>1, <1>2, <1>3, <1>4, SwapsOwn

LEMMA OpenPortOwn ==
  ASSUME Shape, NEW c \in Callers, now[c].alone, OwnWorld(c), OpenPort(c)
  PROVE  OwnWorld(c)'
<1>0. PICK A : stack \in Stacks(A)
  BY DEF Shape, StackShape
<1> DEFINE g == Opened(Top(c).cmd)
<1>1. /\ g.cmd = Top(c).cmd /\ g.pc = "drain" /\ g.ans = <<>> /\ g.on # "replaced"
      /\ \/ Swaps(c, "replaced", g) /\ rx' = <<>>
         \/ Swaps(c, "current", g) /\ serial' = serial /\ rx' = rx
  BY OpenPortAt
<1>2. UNCHANGED <<now, work>>
  BY DEF OpenPort
<1>3. <<>> \in Seq(Said(Ids(c)))
  BY EmptySeq
<1>4. OwnModem(c) /\ Kept /\ now'[c].result = now[c].result
  BY <1>1, <1>2, <1>3, NowKept DEF OwnModem, OwnWorld, Shape
<1> HIDE DEF g
<1>5. ReadOwn(c, g, Ids(c))
  BY <1>1, FreshOwn
<1>6. PICK state \in Ports : Swaps(c, state, g)
  BY <1>1 DEF Ports
<1>7. QED
  BY <1>0, <1>1, <1>4, <1>5, <1>6, SwapsOwn

LEMMA TakeLineOwn ==
  ASSUME Shape, NEW c \in Callers, now[c].alone, Fits(c), OwnWorld(c), TakeLine(c)
  PROVE  OwnWorld(c)'
<1>0. PICK A : stack \in Stacks(A)
  BY DEF Shape, StackShape
<1> DEFINE g     == ReadNext(Taken(c))
           state == "current"
<1>1. Swaps(c, state, g) /\ g.cmd = Top(c).cmd /\ g.on # "replaced" /\ rx # <<>> /\ state \in Ports
  BY TakeLineAt DEF Ports
<1>2. ReadOwn(c, g, Ids(c))
  BY TakenOwn
<1>3. UNCHANGED <<serial, work, now>> /\ rx' = Tail(rx)
  BY DEF TakeLine, client
<1> HIDE DEF g, state
<1>4. \A s \in Seq(Said(Ids(c))) : s # <<>> => Tail(s) \in Seq(Said(Ids(c)))
  BY HeadTailProperties
<1>5. OwnModem(c) /\ Kept /\ now'[c].result = now[c].result
  BY <1>1, <1>3, <1>4, NowKept DEF OwnModem, OwnWorld, Shape
<1>6. QED
  BY <1>0, <1>1, <1>2, <1>5, SwapsOwn

(* The steps that read, in one.                                            *)
LEMMA ReadsOwn ==
  ASSUME Shape, NEW c \in Callers, now[c].alone, Fits(c), OwnWorld(c),
         TakeCrc(c) \/ NoCrc(c) \/ Drained(c) \/ Timeout(c) \/ Broken(c)
  PROVE  StaysOwn(c)
<1>0. PICK A : stack \in Stacks(A)
  BY DEF Shape, StackShape
<1>1. stack[c] # <<>> /\ serial' = serial
  BY DEF TakeCrc, NoCrc, Drained, Timeout, Broken, At, client
<1>2. ReadOwn(c, Top(c), Ids(c)) /\ (Top(c).on # "closed" => serial = "open")
  BY <1>0, <1>1, TopOwn
<1>3. /\ serial = "open" => rx \in Seq(Said(Ids(c)))
      /\ serial = "open" /\ rx # <<>> => Tail(rx) \in Seq(Said(Ids(c)))
  <2>1. \A s \in Seq(Said(Ids(c))) : s # <<>> => Tail(s) \in Seq(Said(Ids(c)))
    BY HeadTailProperties
  <2>2. QED
    BY <2>1 DEF OwnWorld
<1>4. Top(c).pc \in {"drainCrc", "recvCrc"} => Terminated(Top(c).ans)
  BY <1>2 DEF ReadOwn
<1>5. ASSUME NEW rest, serial = "open" => rest \in Seq(Said(Ids(c))), Terminated(Top(c).ans),
             work' = work, Received(c, rest)
      PROVE  StaysOwn(c)
  BY <1>1, <1>2, <1>5, ReceivedOwn
<1>6. ASSUME NEW rest, serial = "open" => rest \in Seq(Said(Ids(c))), NEW believed,
             Send(c, believed, rest)
      PROVE  StaysOwn(c)
  BY <1>1, <1>6, SendOwn
<1>7. CASE TakeCrc(c)
  <2>1. Top(c).on # "closed" /\ rx # <<>> /\ Terminated(Top(c).ans)
    BY <1>4, <1>7 DEF TakeCrc, At
  <2>2. serial = "open" => Tail(rx) \in Seq(Said(Ids(c)))
    BY <1>3, <2>1
  <2>3. CASE CrcError(c, Tail(rx)) /\ UNCHANGED work
    BY <1>1, <1>2, <2>2, <2>3, CrcErrorOwn
  <2>4. CASE Send(c, "on", Tail(rx))
    BY <1>6, <2>2, <2>4
  <2>5. CASE Received(c, Tail(rx)) /\ UNCHANGED work
    BY <1>5, <2>1, <2>2, <2>5
  <2>6. QED
    BY <1>7, <2>3, <2>4, <2>5 DEF TakeCrc
<1>8. CASE NoCrc(c)
  <2>1. Terminated(Top(c).ans)
    BY <1>4, <1>8 DEF NoCrc, At
  <2>2. CASE Raise(c, "AtCrcConfigError", rx)
    BY <1>1, <2>2, RaiseOwn
  <2>3. CASE Send(c, "off", rx)
    BY <1>3, <1>6, <2>3
  <2>4. CASE Received(c, rx) /\ UNCHANGED work
    BY <1>3, <1>5, <2>1, <2>4
  <2>5. QED
    BY <1>8, <2>2, <2>3, <2>4 DEF NoCrc
<1>9. CASE Drained(c)
  BY <1>3, <1>6, <1>9 DEF Drained
<1>10. CASE Timeout(c)
  BY <1>1, <1>10, RaiseOwn DEF Timeout
<1>11. CASE Broken(c)
  BY <1>1, <1>11, RaiseOwn DEF Broken
<1>12. QED
  BY <1>7, <1>8, <1>9, <1>10, <1>11

LEMMA NotLive ==
  ASSUME NEW c \in Callers, Top(c)'.pc \in {"finally", "close", "drop", "clear"}
  PROVE  ~Live(c)'
  BY DEF Live, Ended, Closing

(* The steps of the `finally' keep the result, or raise.                   *)
LEMMA EndedOwn ==
  ASSUME Shape, NEW c \in Callers, now[c].alone, OwnResult(c),
         Finally(c) \/ Close(c) \/ Drop(c) \/ Clear(c)
  PROVE  ~Live(c)' /\ OwnResult(c)'
<1>1. \/ UNCHANGED now
      \/ now' = Noted(c, [kind |-> "broken", ans |-> <<>>])
  BY DEF Finally, Close, Drop, Clear
<1>2. OwnResult(c)'
  <2>1. CASE UNCHANGED now
    BY <2>1 DEF OwnResult, Request
  <2>2. CASE now' = Noted(c, [kind |-> "broken", ans |-> <<>>])
    BY <2>2, NotedKept DEF Shape, OwnResult
  <2>3. QED
    BY <1>1, <2>1, <2>2
<1> SUFFICES ~Live(c)'
  BY <1>2
<1>3. ASSUME Leaves(c) PROVE ~Live(c)'
  BY <1>3, LeavesTop DEF Shape, Live, Ended, Frame, Closing
<1>4. CASE Finally(c)
  <2>1. Top(c)'.pc \in {"close", "clear"}
    BY <1>4, FinallyKind DEF Turns
  <2>2. QED
    BY <2>1, NotLive
<1>5. CASE Close(c)
  <2>1. CASE /\ serial' = "closed" /\ stack' = Goto(Currents(stack, "closed"), c, "drop")
             /\ UNCHANGED <<retry_count, now>>
    <3> DEFINE state == "closed"
               pc    == "drop"
    <3>1. /\ stack[c] # <<>> /\ state \in {"replaced", "closed"} /\ pc \in {"drop", "clear"}
          /\ stack' = Goto(Currents(stack, state), c, pc)
      BY <1>5, <2>1 DEF Close, At
    <3>2. pc = "drop"
      OBVIOUS
    <3> HIDE DEF state, pc
    <3>3. Top(c)'.pc = pc
      BY <2>1, <3>1, GivesUp
    <3>4. QED
      BY <3>2, <3>3, NotLive
  <2>2. CASE stack' = Left(c)
    <3>1. PICK A : <<>> \in A /\ stack \in Stacks(A)
      BY DEF Shape, StackShape
    <3>2. stack[c] # <<>>
      BY <1>5 DEF Close, At
    <3>3. Leaves(c)
      BY <2>2, <3>1, <3>2, LeavesAt
    <3>4. QED
      BY <1>3, <3>3
  <2>3. UNCHANGED retry_count
    BY <1>5 DEF Close
  <2>4. QED
    BY <1>5, <2>1, <2>2, <2>3 DEF Close
<1>6. CASE Drop(c)
  <2>1. Top(c)'.pc = "clear"
    BY <1>6, DropKind DEF Drops
  <2>2. QED
    BY <2>1, NotLive
<1>7. CASE Clear(c)
  BY <1>3, <1>7, ClearKind DEF Goodbye
<1>8. QED
  BY <1>4, <1>5, <1>6, <1>7

LEMMA StepOwn ==
  ASSUME Shape, NEW c \in Callers, now[c].alone, Fits(c), Live(c) => OwnWorld(c), OwnResult(c), Step(c)
  PROVE  StaysOwn(c)
<1>1. CASE Finally(c) \/ Close(c) \/ Drop(c) \/ Clear(c)
  BY <1>1, EndedOwn DEF StaysOwn
<1>2. ASSUME NEW pcs, At(c, pcs), pcs \cap Closing = {} PROVE OwnWorld(c)
  BY <1>2 DEF At, Live, Ended
<1>3. CASE Spin(c)
  <2>1. OwnWorld(c) /\ stack[c] # <<>>
    BY <1>2, <1>3 DEF Spin, Closing, At
  <2>2. OwnWorld(c)'
    BY <1>3, <2>1, GotoOwn DEF Spin, client, modem
  <2>3. QED
    BY <2>2 DEF StaysOwn
<1>4. CASE Begin(c)
  <2>1. OwnWorld(c) /\ stack[c] # <<>>
    BY <1>2, <1>4 DEF Begin, Closing, At
  <2>2. OwnWorld(c)'
    BY <1>4, <2>1, GotoOwn DEF Begin, modem
  <2>3. QED
    BY <2>2 DEF StaysOwn
<1>5. CASE OpenPort(c)
  <2>1. OwnWorld(c)
    BY <1>2, <1>5 DEF OpenPort, Closing
  <2>2. QED
    BY <1>5, <2>1, OpenPortOwn DEF StaysOwn
<1>6. CASE TakeLine(c)
  <2>1. OwnWorld(c)
    BY <1>2, <1>6 DEF TakeLine, Closing
  <2>2. QED
    BY <1>6, <2>1, TakeLineOwn DEF StaysOwn
<1>7. CASE TakeCrc(c) \/ NoCrc(c) \/ Drained(c) \/ Timeout(c) \/ Broken(c)
  <2>1. OwnWorld(c)
    BY <1>2, <1>7 DEF TakeCrc, NoCrc, Drained, Timeout, Broken, Closing
  <2>2. QED
    BY <1>7, <2>1, ReadsOwn
<1>8. QED
  BY <1>1, <1>3, <1>4, <1>5, <1>6, <1>7 DEF Step

(* A call that starts alone on a modem that owes no answer.                *)
LEMMA CallOwn ==
  ASSUME Shape, Shape', IdleIsClean, NEW c \in Callers, Starts(c)
  PROVE  AloneOwn(c)'
<1> SUFFICES ASSUME now'[c].alone, now'[c].clean
             PROVE  (\A d \in Callers \ {c} : stack'[d] = <<>>) /\ OwnWorld(c)' /\ OwnResult(c)'
  BY DEF AloneOwn
<1> DEFINE f == Frame("own", IF c \in Main THEN "scheduled" ELSE "spin")
<1>1. /\ \A d \in Callers : stack[d] = <<>>
      /\ work' = <<>> /\ now'[c].result = NoResult /\ serial' = serial
      /\ \A d \in Callers \ {c} : stack'[d] = stack[d]
      /\ Len(stack'[c]) = 1 /\ stack'[c][1] = f
  BY DEF Starts, client, modem
<1>2. serial' = "none"
  BY <1>1 DEF IdleIsClean
<1>3. f.cmd = "own" /\ f.pc \in {"scheduled", "spin"} /\ f.ans = <<>> /\ f.on = "closed"
  BY DEF Frame
<1> HIDE DEF f
<1>4. Top(c)' = f
  BY <1>1 DEF Top, Last
<1>5. \A S : <<>> \in Seq(S)
  BY EmptySeq
<1>6. FramesOwn(c)'
  <2>1. \A i \in 1..Len(stack'[c]) : stack'[c][i] = f
    BY <1>1
  <2>2. ASSUME NEW i \in 1..Len(stack'[c]) PROVE ReadOwn(c, stack[c][i], Ids(c))'
    BY <1>3, <1>5, <2>1 DEF ReadOwn
  <2>3. QED
    BY <1>1, <1>3, <2>2 DEF FramesOwn
<1>7. now'[c].result.kind = "none"
  BY <1>1 DEF NoResult
<1>8. work' \in Seq([id : Ids(c)', crc : BOOLEAN])
  BY <1>1, <1>5
<1>9. OwnWorld(c)'
  BY <1>2, <1>3, <1>4, <1>6, <1>7, <1>8 DEF OwnWorld
<1>10. OwnResult(c)'
  BY <1>7 DEF OwnResult
<1>11. QED
  BY <1>1, <1>9, <1>10

LEMMA SpokenOwn ==
  ASSUME NEW I, NEW id \in I, NEW k \in {"OK", "ERROR"}, NEW good \in BOOLEAN, NEW s \in Seq(Said(I))
  PROVE  s \o <<Line("echo", id)>> \o Body(k, id)
           \o (IF modemCrc THEN <<[Line(CrcOf[k], id) EXCEPT !.good = good]>> ELSE <<>>)
           \in Seq(Said(I))
<1> DEFINE e == <<Line("echo", id)>>
           x == IF k = "OK" /\ id[3] = "S80" THEN <<Line("code", id)>> ELSE <<>>
           y == <<Line(k, id)>>
           z == IF modemCrc THEN <<[Line(CrcOf[k], id) EXCEPT !.good = good]>> ELSE <<>>
<1>1. /\ Line("echo", id) \in Said(I) /\ Line("code", id) \in Said(I) /\ Line(k, id) \in Said(I)
      /\ [Line(CrcOf[k], id) EXCEPT !.good = good] \in Said(I)
  BY DEF Line, Said, LineKinds, CrcOf
<1>2. \A l \in Said(I) : <<l>> \in Seq(Said(I))
  OBVIOUS
<1>3. <<>> \in Seq(Said(I))
  BY EmptySeq
<1>4. e \in Seq(Said(I)) /\ x \in Seq(Said(I)) /\ y \in Seq(Said(I)) /\ z \in Seq(Said(I))
  BY <1>1, <1>2, <1>3
<1>5. Body(k, id) = x \o y
  BY DEF Body
<1> HIDE DEF e, x, y, z
<1>6. x \o y \in Seq(Said(I)) /\ s \o e \in Seq(Said(I))
  BY <1>4, ConcatProperties
<1>7. (s \o e) \o (x \o y) \in Seq(Said(I))
  BY <1>6, ConcatProperties
<1>8. ((s \o e) \o (x \o y)) \o z \in Seq(Said(I))
  BY <1>4, <1>7, ConcatProperties
<1>9. QED
  BY <1>5, <1>8 DEF e, z

(* The modem has only answers to give to the call.                         *)
LEMMA ModemOwn ==
  ASSUME NEW c \in Callers, OwnWorld(c),
         ModemAnswers \/ ModemLoses \/ ModemUnsolicited \/ ModemSwitchesCrc \/ UNCHANGED vars
  PROVE  OwnWorld(c)'
<1> DEFINE I == Ids(c)
           W == [id : I, crc : BOOLEAN]
<1>1. UNCHANGED <<client, stack, now>> /\ serial' = serial
  BY ModemAside DEF client
<1>2. Ids(c)' = I /\ FramesOwn(c)' = FramesOwn(c) /\ Top(c)' = Top(c) /\ now' = now
  BY <1>1 DEF Ids, Top, Request, FramesOwn, ReadOwn
<1>3. work \in Seq(W) /\ (serial = "open" => rx \in Seq(Said(I)))
  BY DEF OwnWorld
<1>4. work' \in Seq(W)
  <2>1. work # <<>> => Tail(work) \in Seq(W)
    BY <1>3, HeadTailProperties
  <2>2. QED
    BY <1>3, <2>1 DEF ModemAnswers, ModemLoses, ModemUnsolicited, ModemSwitchesCrc, vars, modem
<1>5. ASSUME serial = "open" PROVE rx' \in Seq(Said(I))
  <2>1. rx \in Seq(Said(I))
    BY <1>3, <1>5
  <2>2. CASE ModemAnswers
    <3> DEFINE id == Head(work).id
    <3>1. PICK k \in {"OK", "ERROR"}, good \in BOOLEAN :
             rx' = rx \o <<Line("echo", id)>> \o Body(k, id)
                      \o (IF modemCrc THEN <<[Line(CrcOf[k], id) EXCEPT !.good = good]>> ELSE <<>>)
      BY <2>2 DEF ModemAnswers
    <3>2. id \in I
      <4>1. work # <<>>
        BY <2>2 DEF ModemAnswers
      <4>2. Head(work) \in W
        BY <1>3, <4>1, HeadTailProperties
      <4>3. QED
        BY <4>2
    <3> HIDE DEF id, I
    <3>3. QED
      BY <2>1, <3>1, <3>2, SpokenOwn
  <2>3. CASE ModemUnsolicited
    <3>1. Line("urc", NoRequest) \in Said(I)
      BY DEF Line, Said, LineKinds
    <3>2. rx' = Append(rx, Line("urc", NoRequest))
      BY <2>3 DEF ModemUnsolicited
    <3>3. QED
      BY <2>1, <3>1, <3>2, AppendProperties
  <2>4. CASE ModemLoses \/ ModemSwitchesCrc \/ UNCHANGED vars
    BY <2>1, <2>4 DEF ModemLoses, ModemSwitchesCrc, vars, modem
  <2>5. QED
    BY <2>2, <2>3, <2>4
<1>6. QED
  BY <1>1, <1>2, <1>4, <1>5 DEF OwnWorld

(* Every call that runs alone keeps to its own.                            *)
Own == \A c \in Callers : AloneOwn(c)

LEMMA AlwaysOwn == Spec => []Own
<1>1. Init => Own
  BY DEF Init, NoCall, AloneOwn, Own
<1>2. ASSUME Shape, Shape', TypeOK, IdleIsClean, Own, [Next]_vars PROVE Own'
  <2>1. \A d \in Callers : Fits(d)
    BY <1>2, FitsAndFlags
  <2>2. ASSUME NEW c \in Callers, Call(c) PROVE Own'
    <3>1. Starts(c)
      BY <1>2, <2>2, CallStarts
    <3>2. AloneOwn(c)' /\ \A d \in Callers \ {c} : ~now'[d].alone
      BY <1>2, <3>1, CallOwn DEF Starts
    <3>3. QED
      BY <3>2 DEF Own, AloneOwn
  <2>3. ASSUME NEW c \in Callers, Step(c) PROVE Own'
    <3>1. stack[c] # <<>> /\ Kind(c)
      BY <1>2, <2>3, StepKind
    <3>2. Kept
      BY <3>1, KindKept
    <3>3. ASSUME NEW d \in Callers \ {c} PROVE AloneOwn(d)'
      BY <1>2, <3>1, <3>2, KindOthers DEF Own, AloneOwn, Kept
    <3>4. AloneOwn(c)'
      <4>1. ASSUME now[c].alone, now[c].clean
            PROVE  /\ \A d \in Callers \ {c} : stack'[d] = <<>>
                   /\ Live(c)' => OwnWorld(c)'
                   /\ OwnResult(c)'
        <5>1. /\ \A d \in Callers \ {c} : stack[d] = <<>>
              /\ Live(c) => OwnWorld(c)
              /\ OwnResult(c)
          BY <1>2, <4>1 DEF Own, AloneOwn
        <5>2. \A d \in Callers \ {c} : stack'[d] = <<>>
          BY <1>2, <3>1, <5>1, KindOthers
        <5>3. StaysOwn(c)
          BY <1>2, <2>1, <2>3, <4>1, <5>1, StepOwn
        <5>4. OwnWorld(c)' => OwnResult(c)'
          BY DEF OwnWorld, OwnResult
        <5>5. QED
          BY <5>2, <5>3, <5>4 DEF StaysOwn
      <4>2. QED
        BY <3>2, <4>1 DEF AloneOwn, Kept
    <3>5. QED
      BY <3>3, <3>4 DEF Own
  <2>4. CASE ModemAnswers \/ ModemLoses \/ ModemUnsolicited \/ ModemSwitchesCrc \/ UNCHANGED vars
    <3>1. UNCHANGED <<stack, now>>
      BY <2>4, ModemAside
    <3>2. ASSUME NEW c \in Callers, OwnWorld(c) PROVE OwnWorld(c)'
      BY <2>4, <3>2, ModemOwn
    <3>3. \A c \in Callers : Live(c)' <=> Live(c)
      BY <3>1 DEF Live, Top
    <3>4. \A c \in Callers : OwnResult(c)' <=> OwnResult(c)
      BY <3>1 DEF OwnResult, Request
    <3>5. QED
      BY <1>2, <3>1, <3>2, <3>3, <3>4 DEF Own, AloneOwn
  <2>5. QED
    BY <1>2, <2>2, <2>3, <2>4 DEF Next
<1>3. Shape /\ [Next]_vars => Shape'
  BY NextCases
<1>4. QED
  BY InitShape, TypeCorrect, IdleClientIsClean, <1>1, <1>2, <1>3, PTL DEF Spec

(* A call that runs alone on a modem that owes no answer returns the       *)
(* response to its own command, with the error code of that command: the   *)
(* lines that earlier calls and faults left are flushed when it opens the  *)
(* port, so that all it reads, in however many nested frames, answers it.  *)
THEOREM AloneAnswerIsOwn == Spec => []AloneOwnAnswer
<1>1. Own => AloneOwnAnswer
  <2> SUFFICES ASSUME Own, NEW c \in Callers, now[c].alone, now[c].clean, now[c].result.kind = "answer"
               PROVE  /\ \E i \in DOMAIN now[c].result.ans :
                            now[c].result.ans[i] \in {Line("OK", Request(c, "own")),
                                                      Line("ERROR", Request(c, "own"))}
                      /\ \A i \in DOMAIN now[c].result.ans :
                            \/ now[c].result.ans[i].k = "urc"
                            \/ now[c].result.ans[i].id \in {Request(c, "own"), Request(c, "S80")}
    BY DEF AloneOwnAnswer
  <2> DEFINE ans == now[c].result.ans
             I   == {Request(c, "own"), Request(c, "S80")}
  <2>1. ans \in Seq(Said(I)) /\ Answers(ans, Request(c, "own"))
    BY DEF Own, AloneOwn, OwnResult
  <2> HIDE DEF ans
  <2>2. DOMAIN ans = 1..Len(ans) /\ \A i \in 1..Len(ans) : ans[i] \in Said(I)
    BY <2>1, ElementOfSeq
  <2> HIDE DEF I
  <2>3. \A i \in 1..Len(ans) : ans[i].k = "urc" \/ ans[i].id \in I
    BY <2>2 DEF Said
  <2>4. QED
    BY <2>1, <2>2, <2>3 DEF Answers, ans, I
<1>2. QED
  BY AlwaysOwn, <1>1, PTL

-------------------------------------------------------------------------------
(***************************************************************************)
(* A call that runs alone after the last fault, on a modem that owes no    *)
(* answer: what is to come is certain.                                     *)
(***************************************************************************)

(* The modem refuses a request without the CRC it expects, and no other.   *)
Verdict == IF modemCrc /\ crc # "on" THEN "ERROR" ELSE "OK"

(* The CRC of its answer to a request.                                     *)
Crcs(id) == IF modemCrc THEN <<Line(CrcOf[Verdict], id)>> ELSE <<>>

(* The top frame f waits to start, drains an empty buffer, waits for the   *)
(* modem, has its answer to read, or the CRC.                              *)
Waiting(f)    == f.pc \in {"spin", "scheduled"} \cup Opening /\ work = <<>>
Draining(f)   == f.pc = "drain" /\ f.on = "current" /\ work = <<>> /\ rx = <<>>
Asking(f, id) == /\ f.pc = "recv" /\ f.on = "current" /\ f.ans = <<>> /\ pending = id
                 /\ work = <<[id |-> id, crc |-> crc = "on"]>> /\ rx = <<>>
Unheard(f, id) == /\ f.ans = <<>>
                  /\ \/ rx = <<Line("echo", id)>> \o (Body(Verdict, id) \o Crcs(id))
                     \/ rx = Body(Verdict, id) \o Crcs(id)
Coded(f, id)   == /\ Body(Verdict, id) = <<Line("code", id)>> \o <<Line(Verdict, id)>>
                  /\ f.ans = <<Line("code", id)>> /\ rx = <<Line(Verdict, id)>> \o Crcs(id)
Hearing(f, id) ==
    /\ f.pc = "recv" /\ f.on = "current" /\ pending = id /\ work = <<>>
    /\ Unheard(f, id) \/ Coded(f, id)
Finishing(f, id) ==
    /\ f.pc = "recvCrc" /\ f.on = "current" /\ work = <<>>
    /\ f.ans = Body(Verdict, id) /\ rx = Crcs(id)

(* Only the error code of a refused command takes a second frame, and by   *)
(* then the client knows that the modem expects CRCs.                      *)
CalmDepth(c) == \/ Len(stack[c]) = 1 /\ Top(c).cmd = "own"
                \/ Len(stack[c]) = 2 /\ Top(c).cmd = "S80" /\ crc = "on"

CalmStage(f, id) ==
    Waiting(f) \/ Draining(f) \/ Asking(f, id) \/ Hearing(f, id) \/ Finishing(f, id)

CalmWorld(c) ==
    /\ faults = MaxFaults /\ (crc = "on" => modemCrc)
    /\ CalmDepth(c) /\ CalmStage(Top(c), Request(c, Top(c).cmd))

(* Once the call is settled it has its answer, and its `finally' finds the *)
(* port it has to close.                                                   *)
AloneCalm(c) ==
    now[c].alone /\ now[c].clean /\ now[c].calm =>
        /\ Live(c) => CalmWorld(c)
        /\ ~Live(c) => now[c].result.kind = "answer"
        /\ At(c, {"close"}) => serial # "none"

(* After the last fault there is no other.                                 *)
LEMMA NoFault == faults = MaxFaults => ~Fault
  BY DepthAssumption DEF DepthAssumption, Fault

(* The stage of a frame at a given stage.                                  *)
LEMMA StageAt ==
  ASSUME NEW f, NEW id, CalmStage(f, id)
  PROVE  /\ f.pc \in {"spin", "scheduled"} \cup Opening => Waiting(f)
         /\ f.pc = "drain" => Draining(f)
         /\ f.pc = "recv" => Asking(f, id) \/ Hearing(f, id)
         /\ f.pc = "recvCrc" => Finishing(f, id)
         /\ f.pc # "drainCrc" /\ f.pc \notin Closing
         /\ f.pc \notin {"spin", "scheduled"} \cup Opening => f.on = "current"
  BY DEF CalmStage, Waiting, Draining, Asking, Hearing, Finishing, Opening, Closing

LEMMA CalmLive ==
  ASSUME NEW c \in Callers, CalmWorld(c)'
  PROVE  Live(c)' /\ ~At(c, {"close"})'
<1>1. stack'[c] # <<>>
  <2>1. Len(stack'[c]) # 0
    BY DEF CalmWorld, CalmDepth
  <2>2. QED
    BY <2>1, EmptySeq
<1>2. Top(c)'.pc \notin Closing
  BY DEF CalmWorld, CalmStage, Waiting, Draining, Asking, Hearing, Finishing, Opening, Closing
<1>3. QED
  BY <1>1, <1>2 DEF Live, Ended, At, Closing

(* The top frame goes on in the same call.                                 *)
LEMMA CalmGoesOn ==
  ASSUME Shape, NEW c \in Callers, now[c].alone, CalmWorld(c), Kept,
         UNCHANGED <<faults, crc, modemCrc>>,
         NEW state, NEW g, Swaps(c, state, g), g.cmd = Top(c).cmd
  PROVE  /\ Top(c)' = g /\ Request(c, Top(c).cmd)' = Request(c, Top(c).cmd)
         /\ CalmStage(Top(c), Request(c, Top(c).cmd))' => CalmWorld(c)'
<1>1. Top(c)' = g /\ Len(stack'[c]) = Len(stack[c])
  BY SwapsTop DEF Swaps, Shape
<1>2. CalmDepth(c)'
  BY <1>1 DEF CalmWorld, CalmDepth
<1>3. Request(c, Top(c).cmd)' = Request(c, Top(c).cmd)
  BY <1>1 DEF Kept, Request
<1>4. QED
  BY <1>1, <1>2, <1>3 DEF CalmWorld

LEMMA WaitCalm ==
  ASSUME Shape, NEW c \in Callers, now[c].alone, CalmWorld(c),
         stack[c] # <<>>, Top(c).pc \in {"spin", "scheduled"} \cup Opening,
         NEW pc \in {"scheduled", "open"}, stack' = Goto(stack, c, pc),
         UNCHANGED <<now, work, crc, modemCrc, faults>>
  PROVE  CalmWorld(c)'
<1> DEFINE state == "current"
           g     == Frame(Top(c).cmd, pc)
<1>1. Swaps(c, state, g)
  BY GotoSame DEF Shape, Stages, Opening
<1>2. g.cmd = Top(c).cmd /\ g.pc = pc
  BY DEF Frame
<1>3. work = <<>>
  BY StageAt DEF CalmWorld, Waiting
<1>4. Kept
  BY NowKept DEF Shape
<1> HIDE DEF g, state
<1>5. Top(c)' = g /\ (CalmStage(Top(c), Request(c, Top(c).cmd))' => CalmWorld(c)')
  BY <1>1, <1>2, <1>4, CalmGoesOn
<1>6. Waiting(Top(c))'
  BY <1>2, <1>3, <1>5 DEF Waiting, Opening
<1>7. QED
  BY <1>5, <1>6 DEF CalmStage

LEMMA OpenPortCalm ==
  ASSUME Shape, NEW c \in Callers, now[c].alone, CalmWorld(c), OpenPort(c)
  PROVE  CalmWorld(c)'
<1> DEFINE g     == Opened(Top(c).cmd)
           state == "replaced"
<1>1. /\ stack[c] # <<>> /\ Top(c).pc = "open"
      /\ g.cmd = Top(c).cmd /\ g.pc = "drain" /\ g.on = IF serial' = "open" THEN "current" ELSE "closed"
      /\ Swaps(c, state, g) /\ serial' = "open" /\ rx' = <<>> /\ faults' = faults
  BY OpenPortAt, NoFault DEF CalmWorld
<1>2. UNCHANGED <<crc, modemCrc, work, now>> /\ Kept
  BY NowKept DEF OpenPort, Shape
<1>3. work = <<>>
  BY <1>1, StageAt DEF CalmWorld, Waiting, Opening
<1> HIDE DEF g, state
<1>4. Top(c)' = g /\ (CalmStage(Top(c), Request(c, Top(c).cmd))' => CalmWorld(c)')
  BY <1>1, <1>2, CalmGoesOn
<1>5. Draining(Top(c))'
  BY <1>1, <1>2, <1>3, <1>4 DEF Draining
<1>6. QED
  BY <1>4, <1>5 DEF CalmStage

(* Send() by a frame that has drained the buffer.                          *)
LEMMA DrainedCalm ==
  ASSUME Shape, NEW c \in Callers, now[c].alone, Fits(c), OwnWorld(c), CalmWorld(c), Drained(c)
  PROVE  CalmWorld(c)'
<1>1. PICK A : <<>> \in A /\ stack \in Stacks(A)
  BY DEF Shape, StackShape
<1>2. stack[c] # <<>> /\ Top(c).pc = "drain"
  BY DEF Drained, At
<1>3. Draining(Top(c))
  BY <1>2, StageAt DEF CalmWorld
<1>4. serial = "open"
  BY <1>1, <1>2, <1>3, TopOwn DEF Draining
<1>5. Send(c, crc, rx) /\ UNCHANGED <<serial, crc, modemCrc, faults>>
  BY DEF Drained
<1> DEFINE g     == Sent(Top(c).cmd)
           id    == Request(c, Top(c).cmd)
           own   == Top(c).cmd = "own"
           state == "current"
<1>6. /\ pending' = id /\ Sending(c, crc, rx)
      /\ g.cmd = Top(c).cmd /\ g.pc = "recv" /\ g.ans = <<>> /\ g.on = "current"
  BY <1>2, <1>4, <1>5, SendAt
<1>7. /\ rx' = rx /\ Swaps(c, state, g)
      /\ work' = Append(work, [id |-> id, crc |-> crc = "on"])
      /\ now' = [now EXCEPT ![c].sends = IF own /\ now[c].alone THEN @ + 1 ELSE @]
  BY <1>6 DEF Sending
<1>8. own \in BOOLEAN
  OBVIOUS
<1> HIDE DEF g, state, own
<1>9. Kept
  BY <1>7, <1>8, SendsSet DEF Shape
<1>10. /\ Top(c)' = g /\ Request(c, Top(c).cmd)' = id
       /\ (CalmStage(Top(c), Request(c, Top(c).cmd))' => CalmWorld(c)')
  BY <1>5, <1>6, <1>7, <1>9, CalmGoesOn
<1>11. work' = <<[id |-> id, crc |-> crc = "on"]>> /\ rx' = <<>>
  BY <1>3, <1>7 DEF Draining
<1>12. Asking(Top(c), Request(c, Top(c).cmd))'
  <2> HIDE DEF id
  <2>1. QED
    BY <1>5, <1>6, <1>10, <1>11 DEF Asking
<1>13. QED
  BY <1>10, <1>12 DEF CalmStage

(* The lines of the answer.                                                *)
LEMMA AnswerLines ==
  ASSUME NEW id
  PROVE  /\ Verdict \in {"OK", "ERROR"}
         /\ Line(Verdict, id).k = Verdict /\ Line(Verdict, id) # Line("echo", id)
         /\ Line("code", id).k = "code" /\ Line("code", id) # Line("echo", id)
         /\ Line("echo", id).k = "echo"
         /\ Crcs(id) \in Seq(Said({id})) /\ Line(Verdict, id) \in Said({id})
         /\ Line("code", id) \in Said({id}) /\ Line("echo", id) \in Said({id})
<1>1. Verdict \in {"OK", "ERROR"}
  BY DEF Verdict
<1>2. \A k \in LineKinds \ {"urc"} : Line(k, id) \in Said({id}) /\ Line(k, id).k = k
  BY DEF Line, Said, LineKinds
<1>3. CrcOf[Verdict] \in LineKinds \ {"urc"}
  BY <1>1 DEF CrcOf, LineKinds
<1>4. Line(CrcOf[Verdict], id) \in Said({id})
  BY <1>2, <1>3
<1>5. Crcs(id) \in Seq(Said({id}))
  <2>1. \A l \in Said({id}) : <<l>> \in Seq(Said({id}))
    OBVIOUS
  <2>2. <<>> \in Seq(Said({id}))
    BY EmptySeq
  <2>3. QED
    BY <1>4, <2>1, <2>2 DEF Crcs
<1>6. "echo" \in LineKinds \ {"urc"} /\ "code" \in LineKinds \ {"urc"} /\ Verdict \in LineKinds \ {"urc"}
      /\ Verdict # "echo"
  BY <1>1 DEF LineKinds
<1>7. QED
  BY <1>1, <1>2, <1>5, <1>6

LEMMA BodyLines ==
  ASSUME NEW id
  PROVE  \/ Body(Verdict, id) = <<Line(Verdict, id)>> /\ ~(Verdict = "OK" /\ id[3] = "S80")
         \/ /\ Body(Verdict, id) = <<Line("code", id)>> \o <<Line(Verdict, id)>>
            /\ Verdict = "OK" /\ id[3] = "S80"
<1> DEFINE v == Line(Verdict, id)
           x == Line("code", id)
<1>1. <<>> \o <<v>> = <<v>>
  OBVIOUS
<1>2. QED
  BY <1>1 DEF Body

(* The first of the lines to be read, and the others.                      *)
LEMMA FirstLine ==
  ASSUME NEW S, NEW l \in S, NEW z \in Seq(S)
  PROVE  Head(<<l>> \o z) = l /\ Tail(<<l>> \o z) = z /\ <<l>> \o z # <<>> /\ <<l>> \o z \in Seq(S)
  OBVIOUS

LEMMA FirstOfTwo ==
  ASSUME NEW S, NEW x \in S, NEW v \in S, NEW z \in Seq(S)
  PROVE  /\ Head((<<x>> \o <<v>>) \o z) = x /\ Tail((<<x>> \o <<v>>) \o z) = <<v>> \o z
         /\ (<<x>> \o <<v>>) \o z \in Seq(S)
<1>1. <<x>> \in Seq(S) /\ <<v>> \in Seq(S)
  OBVIOUS
<1>2. (<<x>> \o <<v>>) \o z = <<x>> \o (<<v>> \o z)
  BY <1>1, ConcatAssociative
<1>3. <<v>> \o z \in Seq(S)
  BY FirstLine
<1>4. QED
  BY <1>2, <1>3, FirstLine

(* What a frame has to read, and what it makes of the next line: the echo, *)
(* the error code, or the verdict.                                         *)
LEMMA NextLine ==
  ASSUME NEW id, NEW f, f.pc = "recv", pending = id, Unheard(f, id) \/ Coded(f, id)
  PROVE  /\ rx # <<>>
         /\ \/ /\ Head(rx) = Line("echo", id) /\ f.ans = <<>>
               /\ Tail(rx) = Body(Verdict, id) \o Crcs(id)
            \/ /\ Head(rx) = Line("code", id) /\ Append(f.ans, Head(rx)) = <<Line("code", id)>>
               /\ Body(Verdict, id) = <<Line("code", id)>> \o <<Line(Verdict, id)>>
               /\ Tail(rx) = <<Line(Verdict, id)>> \o Crcs(id)
            \/ /\ Head(rx) = Line(Verdict, id) /\ Append(f.ans, Head(rx)) = Body(Verdict, id)
               /\ Tail(rx) = Crcs(id)
<1> DEFINE v == Line(Verdict, id)
           x == Line("code", id)
           e == Line("echo", id)
           z == Crcs(id)
           b == Body(Verdict, id)
           S == Said({id})
<1>1. v \in S /\ x \in S /\ e \in S /\ z \in Seq(S)
  BY AnswerLines
<1>2. b = <<v>> \/ b = <<x>> \o <<v>>
  BY BodyLines
<1>3. \/ f.ans = <<>> /\ rx = <<e>> \o (b \o z)
      \/ f.ans = <<>> /\ rx = b \o z
      \/ b = <<x>> \o <<v>> /\ f.ans = <<x>> /\ rx = <<v>> \o z
  BY DEF Unheard, Coded
<1> HIDE DEF v, x, e, z, b, S
<1>4. b \o z \in Seq(S)
  BY <1>1, <1>2, FirstLine, FirstOfTwo
<1>5. Append(<<>>, x) = <<x>> /\ Append(<<>>, v) = <<v>> /\ Append(<<x>>, v) = <<x>> \o <<v>>
  <2>1. <<x>> \in Seq(S)
    BY <1>1
  <2>2. Append(<<x>>, v) = <<x>> \o <<v>>
    BY <1>1, <2>1, AppendIsConcat
  <2>3. Append(<<>>, x) = <<x>> /\ Append(<<>>, v) = <<v>>
    OBVIOUS
  <2>4. QED
    BY <2>2, <2>3
<1>6. CASE f.ans = <<>> /\ rx = <<e>> \o (b \o z)
  <2>1. Head(rx) = e /\ Tail(rx) = b \o z /\ rx # <<>>
    BY <1>1, <1>4, <1>6, FirstLine
  <2>2. QED
    BY <1>6, <2>1 DEF e, b, z
<1>7. CASE f.ans = <<>> /\ rx = b \o z /\ b = <<v>>
  <2>1. Head(rx) = v /\ Tail(rx) = z /\ rx # <<>>
    BY <1>1, <1>7, FirstLine
  <2>2. Append(f.ans, Head(rx)) = b
    BY <1>5, <1>7, <2>1
  <2>3. QED
    BY <2>1, <2>2 DEF v, b, z
<1>8. CASE f.ans = <<>> /\ rx = b \o z /\ b = <<x>> \o <<v>>
  <2>1. Head(rx) = x /\ Tail(rx) = <<v>> \o z
    BY <1>1, <1>8, FirstOfTwo
  <2>2. rx # <<>>
    <3>1. Len((<<x>> \o <<v>>) \o z) # 0
      <4>1. Len(z) \in Nat /\ <<x>> \o <<v>> \in Seq(S) /\ Len(<<x>> \o <<v>>) = 2
        <5>1. <<x>> \in Seq(S) /\ <<v>> \in Seq(S) /\ Len(<<x>>) = 1 /\ Len(<<v>>) = 1 /\ Len(z) \in Nat
          BY <1>1
        <5>2. QED
          BY <5>1, ConcatProperties
      <4>2. Len((<<x>> \o <<v>>) \o z) = 2 + Len(z)
        BY <1>1, <4>1, ConcatProperties
      <4>3. QED
        BY <4>1, <4>2
    <3>2. QED
      BY <1>8, <3>1, EmptySeq
  <2>3. Append(f.ans, Head(rx)) = <<x>>
    BY <1>5, <1>8, <2>1
  <2>4. QED
    BY <1>8, <2>1, <2>2, <2>3 DEF v, x, b, z
<1>9. CASE b = <<x>> \o <<v>> /\ f.ans = <<x>> /\ rx = <<v>> \o z
  <2>1. Head(rx) = v /\ Tail(rx) = z /\ rx # <<>>
    BY <1>1, <1>9, FirstLine
  <2>2. Append(f.ans, Head(rx)) = b
    BY <1>5, <1>9, <2>1
  <2>3. QED
    BY <2>1, <2>2 DEF v, b, z
<1>10. QED
  BY <1>2, <1>3, <1>6, <1>7, <1>8, <1>9

(* A line of the answer.                                                   *)
LEMMA TakeLineCalm ==
  ASSUME Shape, NEW c \in Callers, now[c].alone, Fits(c), OwnWorld(c), CalmWorld(c), TakeLine(c)
  PROVE  CalmWorld(c)'
<1>1. PICK A : <<>> \in A /\ stack \in Stacks(A)
  BY DEF Shape, StackShape
<1> DEFINE id    == Request(c, Top(c).cmd)
           f     == Top(c)
           g     == ReadNext(Taken(c))
           state == "current"
<1>2. /\ stack[c] # <<>> /\ f.pc \in {"drain", "recv"} /\ rx # <<>> /\ Swaps(c, state, g)
      /\ g.cmd = f.cmd
      /\ g.pc = IF Head(rx).k \notin {"OK", "ERROR"} THEN f.pc
                ELSE IF f.pc = "drain" THEN "drainCrc" ELSE "recvCrc"
      /\ g.ans = IF Head(rx) = Line("echo", pending) THEN f.ans ELSE Append(f.ans, Head(rx))
      /\ g.on = IF serial = "open" THEN "current" ELSE "closed"
  BY TakeLineAt
<1>3. f.pc = "recv" /\ Hearing(f, id)
  BY <1>2, StageAt DEF CalmWorld, Draining, Asking
<1>4. serial = "open"
  BY <1>1, <1>2, <1>3, TopOwn DEF Hearing
<1>5. /\ UNCHANGED <<serial, pending, crc, modemCrc, faults, work, now>> /\ rx' = Tail(rx)
  BY DEF TakeLine, client
<1>6. Kept /\ Verdict' = Verdict /\ \A y : Crcs(y)' = Crcs(y)
  BY <1>5, NowKept DEF Verdict, Crcs, Shape
<1> HIDE DEF state, g
<1>7. /\ Top(c)' = g /\ Request(c, Top(c).cmd)' = id
      /\ CalmStage(Top(c), Request(c, Top(c).cmd))' => CalmWorld(c)'
  BY <1>2, <1>5, <1>6, CalmGoesOn
<1>8. pending = id /\ work = <<>> /\ (Unheard(f, id) \/ Coded(f, id))
  BY <1>3 DEF Hearing
<1> HIDE DEF id, f
<1>9. /\ Line(Verdict, id).k \in {"OK", "ERROR"} /\ Line(Verdict, id) # Line("echo", id)
      /\ Line("code", id).k = "code" /\ Line("code", id) # Line("echo", id) /\ Line("echo", id).k = "echo"
  BY AnswerLines
<1>10. \A k, y : Body(k, y)' = Body(k, y) /\ Line(k, y)' = Line(k, y)
  BY DEF Body, Line
<1>11. g.on = "current" /\ pending' = id /\ work' = <<>>
  BY <1>2, <1>4, <1>5, <1>8
<1>12. CASE /\ Head(rx) = Line("echo", id) /\ f.ans = <<>>
            /\ Tail(rx) = Body(Verdict, id) \o Crcs(id)
  <2>1. g.pc = "recv" /\ g.ans = <<>> /\ rx' = Body(Verdict, id) \o Crcs(id)
    BY <1>2, <1>3, <1>5, <1>8, <1>9, <1>12
  <2>2. Unheard(Top(c), Request(c, Top(c).cmd))'
    BY <1>6, <1>7, <1>10, <2>1 DEF Unheard
  <2>3. Hearing(Top(c), Request(c, Top(c).cmd))'
    BY <1>7, <1>11, <2>1, <2>2 DEF Hearing
  <2>4. QED
    BY <1>7, <2>3 DEF CalmStage
<1>13. CASE /\ Head(rx) = Line("code", id) /\ Append(f.ans, Head(rx)) = <<Line("code", id)>>
            /\ Body(Verdict, id) = <<Line("code", id)>> \o <<Line(Verdict, id)>>
            /\ Tail(rx) = <<Line(Verdict, id)>> \o Crcs(id)
  <2>1. g.pc = "recv" /\ g.ans = <<Line("code", id)>> /\ rx' = <<Line(Verdict, id)>> \o Crcs(id)
    BY <1>2, <1>3, <1>5, <1>8, <1>9, <1>13
  <2>2. Coded(Top(c), Request(c, Top(c).cmd))'
    BY <1>6, <1>7, <1>10, <1>13, <2>1 DEF Coded
  <2>3. Hearing(Top(c), Request(c, Top(c).cmd))'
    BY <1>7, <1>11, <2>1, <2>2 DEF Hearing
  <2>4. QED
    BY <1>7, <2>3 DEF CalmStage
<1>14. CASE /\ Head(rx) = Line(Verdict, id) /\ Append(f.ans, Head(rx)) = Body(Verdict, id)
            /\ Tail(rx) = Crcs(id)
  <2>1. g.pc = "recvCrc" /\ g.ans = Body(Verdict, id) /\ rx' = Crcs(id)
    BY <1>2, <1>3, <1>5, <1>8, <1>9, <1>14
  <2>2. Finishing(Top(c), Request(c, Top(c).cmd))'
    BY <1>6, <1>7, <1>10, <1>11, <2>1 DEF Finishing
  <2>3. QED
    BY <1>7, <2>2 DEF CalmStage
<1>15. QED
  BY <1>3, <1>8, <1>12, <1>13, <1>14, NextLine

(* What is read of an answer holds no echo, and its first line is ERROR    *)
(* for a refused command only.                                             *)
LEMMA FinishingReads ==
  ASSUME NEW id, NEW f, Finishing(f, id)
  PROVE  /\ RemoveFirst(f.ans, Line("echo", id)) = f.ans
         /\ f.ans[1].k = "ERROR" => Verdict = "ERROR"
<1> DEFINE v == Line(Verdict, id)
           x == Line("code", id)
           e == Line("echo", id)
<1>1. v.k = Verdict /\ x.k = "code" /\ v # e /\ x # e
  BY AnswerLines
<1>2. f.ans = <<v>> \/ f.ans = <<x>> \o <<v>>
  BY BodyLines DEF Finishing
<1> HIDE DEF v, x, e
<1>3. \A i \in 1..Len(f.ans) : f.ans[i] \in {x, v}
  <2>1. CASE f.ans = <<v>>
    BY <2>1
  <2>2. CASE f.ans = <<x>> \o <<v>>
    <3> DEFINE S == {x, v}
    <3>1. <<x>> \in Seq(S) /\ <<v>> \in Seq(S) /\ <<x>>[1] = x /\ Len(<<x>>) = 1 /\ Len(<<v>>) = 1
      OBVIOUS
    <3>2. f.ans \in Seq(S) /\ Len(f.ans) = 2 /\ f.ans[1] = x
      BY <2>2, <3>1, ConcatProperties
    <3>3. \A i \in 1..Len(f.ans) : f.ans[i] \in S
      BY <3>2, ElementOfSeq
    <3>4. QED
      BY <3>3
  <2>3. QED
    BY <1>2, <2>1, <2>2
<1>4. RemoveFirst(f.ans, e) = f.ans
  BY <1>1, <1>3 DEF RemoveFirst
<1>5. f.ans[1] \in {x, v}
  <2>1. Len(f.ans) \in Nat \ {0}
    <3> DEFINE S == {x, v}
    <3>1. <<x>> \in Seq(S) /\ <<v>> \in Seq(S) /\ Len(<<x>>) = 1 /\ Len(<<v>>) = 1
      OBVIOUS
    <3>2. QED
      BY <1>2, <3>1, ConcatProperties
  <2>2. QED
    BY <1>3, <2>1
<1>6. QED
  BY <1>1, <1>4, <1>5 DEF e

(* The call goes on as it must, or has its answer.                         *)
StaysCalm(c) ==
    CalmWorld(c)' \/ (~Live(c)' /\ ~At(c, {"close"})' /\ now'[c].result.kind = "answer")

(* _command() with the answer: ERROR asks for the error code, once.        *)
LEMMA ReceivedCalm ==
  ASSUME Shape, NEW c \in Callers, stack[c] # <<>>, now[c].alone, CalmWorld(c),
         Finishing(Top(c), Request(c, Top(c).cmd)), NEW rest, Received(c, rest),
         UNCHANGED <<work, modemCrc, faults>>, crc' = IF modemCrc THEN "on" ELSE "off"
  PROVE  StaysCalm(c)
<1>1. PICK A : <<>> \in A /\ stack \in Stacks(A)
  BY DEF Shape, StackShape
<1>2. Top(c) \in Frames(A) /\ Top(c).cmd \in {"own", "S80"}
  BY <1>1, TopShape DEF Frames
<1> DEFINE f   == Top(c)
           ans == RemoveFirst(f.ans, Line("echo", Request(c, f.cmd)))
<1>3. ans = f.ans /\ (f.ans[1].k = "ERROR" => Verdict = "ERROR")
  <2> DEFINE id == Request(c, f.cmd)
  <2>1. Finishing(f, id)
    OBVIOUS
  <2> HIDE DEF id, f
  <2>2. RemoveFirst(f.ans, Line("echo", id)) = f.ans /\ (f.ans[1].k = "ERROR" => Verdict = "ERROR")
    BY <2>1, FinishingReads
  <2>3. QED
    BY <2>2 DEF id
<1>4. \/ ans[1].k = "ERROR" /\ command(c, Erred(c), "S80", rest)
      \/ ans[1].k # "ERROR" /\ End(c, [kind |-> "answer", ans |-> Response(c, ans)], rest)
  BY DEF Received, Erred
<1>5. Erred(c) = [f EXCEPT !.ans = ans, !.pc = "error"]
  BY DEF Erred
<1> HIDE DEF ans
<1>6. Erred(c) \in Frames(A)
  <2>1. ans \in A
    BY <1>2, <1>3 DEF Frames
  <2>2. "error" \in Stages
    BY DEF Stages, Waits
  <2>3. QED
    BY <1>2, <1>5, <2>1, <2>2 DEF Frames
<1>7. CASE ans[1].k = "ERROR" /\ command(c, Erred(c), "S80", rest)
  <2>1. Verdict = "ERROR"
    BY <1>3, <1>7
  <2>2. modemCrc /\ crc # "on" /\ Len(stack[c]) = 1
    BY <2>1 DEF CalmWorld, CalmDepth, Verdict
  <2>3. work = <<>> /\ faults = MaxFaults
    BY DEF CalmWorld, Finishing
  <2>4. Len(stack[c]) < MaxDepth
    BY <2>2, DepthAssumption DEF DepthAssumption
  <2> DEFINE h   == [Erred(c) EXCEPT !.on = "closed"]
             cmd == "S80"
  <2>5. PICK pc \in {"spin", "begin"} : Nests(c, h, Frame(cmd, pc))
    <3>1. h \in Frames(A)
      BY <1>6 DEF Frames, Ports
    <3>2. PICK pc \in {"spin", "begin"} : stack' = [stack EXCEPT ![c] = Append(Append(Front(@), h), Frame(cmd, pc))]
      BY <1>7, <2>4 DEF command
    <3>3. Frame(cmd, pc) \in Frames(A)
      BY <1>1, FrameShape DEF Stages, Opening
    <3> HIDE DEF h, cmd
    <3>4. Nests(c, h, Frame(cmd, pc))
      BY <1>1, <3>1, <3>2, <3>3, NestsAt
    <3>5. QED
      BY <3>4
  <2> DEFINE g == Frame(cmd, pc)
  <2>6. g.cmd = "S80" /\ g.pc \in {"spin", "begin"} /\ Nests(c, h, g)
    BY <2>5 DEF Frame
  <2> HIDE DEF g, h
  <2>7. Top(c)' = g /\ Len(stack'[c]) = 2
    <3>1. Len(stack'[c]) = Len(stack[c]) + 1
      BY <2>6 DEF Nests
    <3>2. QED
      BY <2>2, <2>6, <3>1, NestsTop DEF Shape
  <2>8. Waiting(Top(c))'
    BY <2>3, <2>6, <2>7 DEF Waiting, Opening
  <2>9. CalmDepth(c)' /\ faults' = MaxFaults /\ modemCrc'
    BY <2>2, <2>3, <2>6, <2>7 DEF CalmDepth
  <2>10. CalmWorld(c)'
    BY <2>8, <2>9 DEF CalmWorld, CalmStage
  <2>11. QED
    BY <2>10 DEF StaysCalm
<1>8. CASE End(c, [kind |-> "answer", ans |-> Response(c, ans)], rest)
  <2> DEFINE o == [kind |-> "answer", ans |-> Response(c, ans)]
             g == Frame(Top(c).cmd, "finally")
  <2>1. End(c, o, rest) /\ o.kind = "answer"
    BY <1>8
  <2> HIDE DEF o
  <2>2. Swaps(c, "current", g) /\ now'[c].result = o
    BY <2>1, EndAt
  <2>3. Top(c)' = g /\ g.pc = "finally"
    BY <2>2, SwapsTop DEF Shape, Frame
  <2>4. QED
    BY <2>1, <2>2, <2>3 DEF StaysCalm, Live, Ended, At, Closing
<1>9. QED
  BY <1>4, <1>7, <1>8

(* A CRC that is there is the one of what has been read.                   *)
LEMMA FinishingCrc ==
  ASSUME NEW id, NEW f, Finishing(f, id), rx # <<>>
  PROVE  modemCrc /\ ValidCrc(f, Head(rx))
<1> DEFINE l == Line(CrcOf[Verdict], id)
<1>1. modemCrc /\ rx = <<l>>
  BY DEF Finishing, Crcs
<1>2. l.k = CrcOf[Verdict] /\ l.id = id /\ l.good /\ Verdict \in {"OK", "ERROR"}
  BY DEF Line, Verdict
<1> HIDE DEF l
<1>3. Head(rx) = l
  BY <1>1
<1>4. SameText(f.ans, Body(Verdict, l.id))
  BY <1>2 DEF SameText, Finishing
<1>5. QED
  BY <1>1, <1>2, <1>3, <1>4 DEF ValidCrc

(* Every step of such a call until it is settled.                          *)
LEMMA LiveCalm ==
  ASSUME Shape, NEW c \in Callers, now[c].alone, Fits(c), OwnWorld(c), CalmWorld(c), Step(c)
  PROVE  StaysCalm(c)
<1> DEFINE f  == Top(c)
           id == Request(c, Top(c).cmd)
<1>1. CalmStage(f, id) /\ faults = MaxFaults /\ (crc = "on" => modemCrc) /\ ~Fault
  BY NoFault DEF CalmWorld
<1>2. Finishing(f, id) => Finishing(Top(c), Request(c, Top(c).cmd))
  OBVIOUS
<1>3. f = Top(c)
  OBVIOUS
<1> HIDE DEF f, id
<1>4. CASE Spin(c) \/ Begin(c)
  BY <1>4, WaitCalm DEF Spin, Begin, At, client, modem, Opening, StaysCalm
<1>5. CASE TakeCrc(c)
  <2>1. stack[c] # <<>> /\ rx # <<>> /\ f.pc = "recvCrc" /\ Finishing(f, id)
    BY <1>1, <1>3, <1>5, StageAt DEF TakeCrc, At
  <2>2. modemCrc /\ ValidCrc(f, Head(rx))
    BY <2>1, FinishingCrc
  <2>3. crc' = "on" /\ Received(c, Tail(rx)) /\ UNCHANGED <<work, modemCrc, faults>>
    BY <1>3, <1>5, <2>1, <2>2 DEF TakeCrc, At
  <2>4. crc' = IF modemCrc THEN "on" ELSE "off"
    BY <2>2, <2>3
  <2>5. QED
    BY <1>2, <2>1, <2>3, <2>4, ReceivedCalm
<1>6. CASE NoCrc(c)
  <2>1. stack[c] # <<>> /\ rx = <<>> /\ f.pc = "recvCrc" /\ Finishing(f, id)
    BY <1>1, <1>3, <1>6, StageAt DEF NoCrc, At
  <2>2. ~modemCrc
    <3>1. \A l : <<l>> # <<>>
      OBVIOUS
    <3>2. QED
      BY <2>1, <3>1 DEF Finishing, Crcs
  <2>3. crc' = "off" /\ Received(c, rx) /\ UNCHANGED <<work, modemCrc, faults>>
    BY <1>1, <1>3, <1>6, <2>1, <2>2 DEF NoCrc, At
  <2>4. crc' = IF modemCrc THEN "on" ELSE "off"
    BY <2>2, <2>3
  <2>5. QED
    BY <1>2, <2>1, <2>3, <2>4, ReceivedCalm
<1>7. ~Timeout(c)
  <2> SUFFICES ASSUME Timeout(c) PROVE FALSE
    OBVIOUS
  <2>1. f.pc = "recv" /\ rx = <<>> /\ work = <<>>
    BY <1>1, <1>3 DEF Timeout, At
  <2>2. Hearing(f, id)
    <3>1. \A r : <<r>> # <<>>
      OBVIOUS
    <3>2. QED
      BY <1>1, <2>1, <3>1, StageAt DEF Asking
  <2>3. QED
    BY <2>1, <2>2, NextLine DEF Hearing
<1>8. ~Broken(c)
  BY <1>1, <1>3, StageAt DEF Broken, At, Opening
<1>9. ~(Finally(c) \/ Close(c) \/ Drop(c) \/ Clear(c))
  BY <1>1, <1>3, StageAt DEF Finally, Close, Drop, Clear, At, Closing
<1>10. CASE OpenPort(c) \/ TakeLine(c) \/ Drained(c)
  BY <1>10, OpenPortCalm, TakeLineCalm, DrainedCalm DEF StaysCalm
<1>11. QED
  BY <1>4, <1>5, <1>6, <1>7, <1>8, <1>9, <1>10 DEF Step

(* Every step of its `finally'.                                            *)
LEMMA EndedCalm ==
  ASSUME Shape, NEW c \in Callers, now[c].result.kind = "answer", At(c, {"close"}) => serial # "none",
         Finally(c) \/ Close(c) \/ Drop(c) \/ Clear(c)
  PROVE  now' = now /\ (At(c, {"close"})' => serial' # "none")
<1>1. CASE Finally(c)
  <2>1. Turns(c) /\ now' = now
    BY <1>1, FinallyKind DEF Finally
  <2>2. QED
    BY <2>1 DEF Turns, At
<1>2. CASE Close(c)
  <2>1. /\ stack[c] # <<>> /\ serial' = "closed"
        /\ stack' = Goto(Currents(stack, "closed"), c, "drop")
        /\ UNCHANGED <<retry_count, now>>
    BY <1>2 DEF Close, At
  <2> DEFINE state == "closed"
             pc    == "drop"
  <2>2. /\ state \in {"replaced", "closed"} /\ pc \in {"drop", "clear"}
        /\ stack' = Goto(Currents(stack, state), c, pc)
    BY <2>1
  <2>3. pc = "drop"
    OBVIOUS
  <2> HIDE DEF state, pc
  <2>4. Top(c)'.pc = pc
    BY <2>1, <2>2, GivesUp
  <2>5. QED
    BY <2>1, <2>3, <2>4 DEF At
<1>3. CASE Drop(c)
  <2>1. Drops(c) /\ now' = now
    BY <1>3, DropKind DEF Drop
  <2>2. QED
    BY <2>1 DEF Drops, At
<1>4. CASE Clear(c)
  <2>1. Leaves(c) /\ now' = now
    BY <1>4, ClearKind DEF Clear, Goodbye
  <2>2. stack'[c] # <<>> => Top(c)'.pc = "finally"
    BY <2>1, LeavesTop DEF Shape, Frame
  <2>3. QED
    BY <2>1, <2>2 DEF At
<1>5. QED
  BY <1>1, <1>2, <1>3, <1>4

(* A call that begins alone after the last fault.                          *)
LEMMA CallCalm ==
  ASSUME Shape, NEW c \in Callers, Starts(c)
  PROVE  AloneCalm(c)'
<1> SUFFICES ASSUME now'[c].alone, now'[c].clean, now'[c].calm
             PROVE  CalmWorld(c)'
  BY CalmLive DEF AloneCalm
<1> DEFINE f == Frame("own", IF c \in Main THEN "scheduled" ELSE "spin")
<1>1. /\ work' = <<>> /\ faults' = MaxFaults /\ (crc' = "on" => modemCrc')
      /\ Len(stack'[c]) = 1 /\ stack'[c][1] = f
  BY DEF Starts, client, modem
<1>2. f.cmd = "own" /\ f.pc \in {"scheduled", "spin"}
  BY DEF Frame
<1> HIDE DEF f
<1>3. Top(c)' = f
  BY <1>1 DEF Top, Last
<1>4. Waiting(Top(c))'
  BY <1>1, <1>2, <1>3 DEF Waiting
<1>5. CalmDepth(c)'
  BY <1>1, <1>2, <1>3 DEF CalmDepth
<1>6. QED
  BY <1>1, <1>4, <1>5 DEF CalmWorld, CalmStage

(* The modem answers as it must, and does nothing else.                    *)
LEMMA ModemAnswersCalm ==
  ASSUME NEW c \in Callers, CalmWorld(c), modemCrc \in BOOLEAN, ModemAnswers
  PROVE  CalmWorld(c)'
<1> DEFINE f  == Top(c)
           id == Request(c, Top(c).cmd)
<1>1. UNCHANGED <<client, stack, now>> /\ UNCHANGED modemCrc
  BY ModemAside DEF ModemAnswers
<1>2. /\ Top(c)' = f /\ Request(c, Top(c).cmd)' = id
      /\ UNCHANGED <<stack, now, serial, crc, pending>>
  BY <1>1 DEF Top, Request, client
<1>3. ~Fault /\ CalmStage(f, id) /\ (crc = "on" => modemCrc) /\ faults = MaxFaults
  BY NoFault DEF CalmWorld
<1>4. CalmDepth(c)'
  BY <1>2 DEF CalmWorld, CalmDepth
<1> HIDE DEF id, f
<1>5. PICK k \in {"OK", "ERROR"}, good \in BOOLEAN :
         LET r == Head(work)
         IN  /\ r.crc # modemCrc => k = "ERROR"
             /\ good \/ modemCrc
             /\ IF good /\ (k = "OK" \/ r.crc # modemCrc) THEN UNCHANGED faults ELSE Fault
             /\ rx' = rx \o <<Line("echo", r.id)>> \o Body(k, r.id)
                         \o (IF modemCrc THEN <<[Line(CrcOf[k], r.id) EXCEPT !.good = good]>> ELSE <<>>)
  BY DEF ModemAnswers
<1>6. work # <<>> /\ work' = Tail(work)
  BY DEF ModemAnswers
<1>7. Asking(f, id)
  BY <1>3, <1>6 DEF CalmStage, Waiting, Draining, Hearing, Finishing
<1>8. Head(work).id = id /\ Head(work).crc = (crc = "on") /\ Tail(work) = <<>> /\ rx = <<>>
  <2> DEFINE r == [id |-> id, crc |-> crc = "on"]
  <2>1. work = <<r>> /\ rx = <<>> /\ r.id = id /\ r.crc = (crc = "on")
    BY <1>7 DEF Asking
  <2> HIDE DEF r
  <2>2. QED
    BY <2>1
<1>9. good = TRUE /\ k = Verdict /\ faults' = faults
  <2>1. good /\ (k = "OK" \/ (crc = "on") # modemCrc) /\ faults' = faults
    BY <1>3, <1>5, <1>8
  <2>2. (crc = "on") # modemCrc => k = "ERROR"
    BY <1>5, <1>8
  <2>3. CASE crc = "on"
    BY <1>3, <2>1, <2>3 DEF Verdict
  <2>4. CASE crc # "on" /\ modemCrc
    <3>1. k = "ERROR"
      BY <2>2, <2>4
    <3>2. QED
      BY <2>1, <2>4, <3>1 DEF Verdict
  <2>5. CASE crc # "on" /\ ~modemCrc
    <3>1. (crc = "on") = modemCrc
      BY <2>5
    <3>2. QED
      BY <2>1, <2>5, <3>1 DEF Verdict
  <2>6. QED
    BY <2>3, <2>4, <2>5
<1>10. [Line(CrcOf[Verdict], id) EXCEPT !.good = TRUE] = Line(CrcOf[Verdict], id)
  <2> DEFINE l == Line(CrcOf[Verdict], id)
  <2>1. l \in [k : {CrcOf[Verdict]}, id : {id}, good : {TRUE}] /\ l.good = TRUE
    BY DEF Line
  <2> HIDE DEF l
  <2>2. [l EXCEPT !.good = TRUE] = l
    BY <2>1
  <2>3. QED
    BY <2>2 DEF l
<1> DEFINE e == <<Line("echo", id)>>
           b == Body(Verdict, id)
           z == Crcs(id)
           S == Said({id})
<1>11. rx' = <<>> \o e \o b \o z
  BY <1>5, <1>8, <1>9, <1>10 DEF Crcs
<1>12. e \in Seq(S) /\ b \in Seq(S) /\ z \in Seq(S)
  <2> DEFINE v == Line(Verdict, id)
             x == Line("code", id)
  <2>1. Line("echo", id) \in S /\ z \in Seq(S) /\ x \in S /\ v \in S
    BY AnswerLines
  <2>2. b = <<v>> \/ b = <<x>> \o <<v>>
    BY BodyLines
  <2> HIDE DEF b, z, S, x, v
  <2>3. \A l \in S : <<l>> \in Seq(S)
    OBVIOUS
  <2>4. <<x>> \o <<v>> \in Seq(S)
    BY <2>1, <2>3, ConcatProperties
  <2>5. QED
    BY <2>1, <2>2, <2>3, <2>4
<1>13. rx' = e \o (b \o z)
  <2> HIDE DEF e, b, z, S
  <2>1. <<>> \o e = e
    BY <1>12, ConcatEmptySeq
  <2>2. (e \o b) \o z = e \o (b \o z)
    BY <1>12, ConcatAssociative
  <2>3. QED
    BY <1>11, <2>1, <2>2
<1>14. Verdict' = Verdict /\ work' = <<>> /\ \A y : Crcs(y)' = Crcs(y)
  BY <1>1, <1>2, <1>6, <1>8 DEF Verdict, Crcs
<1>15. \A j, y : Body(j, y)' = Body(j, y) /\ Line(j, y)' = Line(j, y)
  BY DEF Body, Line
<1>16. Unheard(Top(c), Request(c, Top(c).cmd))'
  BY <1>2, <1>7, <1>13, <1>14, <1>15 DEF Unheard, Asking
<1>17. Hearing(Top(c), Request(c, Top(c).cmd))'
  BY <1>2, <1>7, <1>14, <1>16 DEF Hearing, Asking
<1>18. QED
  BY <1>1, <1>2, <1>3, <1>4, <1>9, <1>17 DEF CalmWorld, CalmStage

LEMMA ModemCalm ==
  ASSUME NEW c \in Callers, CalmWorld(c), modemCrc \in BOOLEAN,
         ModemAnswers \/ ModemLoses \/ ModemUnsolicited \/ ModemSwitchesCrc \/ UNCHANGED vars
  PROVE  CalmWorld(c)'
<1>1. UNCHANGED <<client, stack, now>> /\ ~Fault
  BY ModemAside, NoFault DEF CalmWorld
<1>2. CASE UNCHANGED <<modem, faults>>
  BY <1>1, <1>2
     DEF modem, client, CalmWorld, CalmDepth, CalmStage, Waiting, Draining, Asking, Hearing,
         Unheard, Coded, Finishing, Verdict, Crcs, Body, Line, Top, Request
<1>3. QED
  BY <1>1, <1>2, ModemAnswersCalm DEF ModemLoses, ModemUnsolicited, ModemSwitchesCrc, vars

(* A call that runs alone after the last fault and ends is answered,       *)
(* whatever calls and faults came before it and whatever they left in the  *)
(* attributes, if the modem owes no answer and sends the CRCs that the     *)
(* client expects: it never times out, raises or runs out of stack, and    *)
(* takes a modem that expects CRCs for what it is from its first refusal.  *)
THEOREM AloneCallSucceeds == Spec => []AloneSucceeds
<1> DEFINE Calm == \A c \in Callers : AloneCalm(c)
<1>1. Init => Calm
  BY DEF Init, NoCall, AloneCalm
<1>2. ASSUME Shape, Shape', TypeOK, Own, Calm, [Next]_vars PROVE Calm'
  <2>1. modemCrc \in BOOLEAN /\ \A d \in Callers : Fits(d)
    BY <1>2, FitsAndFlags DEF Flags
  <2>2. ASSUME NEW c \in Callers, Call(c) PROVE Calm'
    <3>1. Starts(c)
      BY <1>2, <2>2, CallStarts
    <3>2. AloneCalm(c)' /\ \A d \in Callers \ {c} : ~now'[d].alone
      BY <1>2, <3>1, CallCalm DEF Starts
    <3>3. QED
      BY <3>2 DEF AloneCalm
  <2>3. ASSUME NEW c \in Callers, Step(c) PROVE Calm'
    <3>1. stack[c] # <<>> /\ Kind(c)
      BY <1>2, <2>3, StepKind
    <3>2. Kept
      BY <3>1, KindKept
    <3>3. ASSUME NEW d \in Callers \ {c} PROVE AloneCalm(d)'
      <4>1. ~(now[d].alone /\ now[d].clean)
        BY <1>2, <3>1 DEF Own, AloneOwn
      <4>2. QED
        BY <3>2, <4>1 DEF AloneCalm, Kept
    <3>4. AloneCalm(c)'
      <4>1. SUFFICES ASSUME now[c].alone, now[c].clean, now[c].calm
                     PROVE  /\ Live(c)' => CalmWorld(c)'
                            /\ ~Live(c)' => now'[c].result.kind = "answer"
                            /\ At(c, {"close"})' => serial' # "none"
        BY <3>2 DEF AloneCalm, Kept
      <4>2. /\ Live(c) => OwnWorld(c) /\ CalmWorld(c)
            /\ ~Live(c) => now[c].result.kind = "answer"
            /\ At(c, {"close"}) => serial # "none"
            /\ OwnResult(c)
        BY <1>2, <4>1 DEF Own, AloneOwn, AloneCalm
      <4>3. CASE Live(c)
        <5>1. StaysCalm(c)
          BY <1>2, <2>1, <2>3, <4>1, <4>2, <4>3, LiveCalm
        <5>2. QED
          BY <5>1, CalmLive DEF StaysCalm
      <4>4. CASE ~Live(c)
        <5>1. Finally(c) \/ Close(c) \/ Drop(c) \/ Clear(c)
          BY <2>3, <3>1, <4>4
             DEF Step, Spin, Begin, OpenPort, TakeLine, TakeCrc, NoCrc, Drained, Timeout, Broken,
                 At, Live, Ended, Closing
        <5>2. ~Live(c)'
          BY <1>2, <4>1, <4>2, <5>1, EndedOwn
        <5>3. now' = now /\ (At(c, {"close"})' => serial' # "none")
          BY <1>2, <4>2, <4>4, <5>1, EndedCalm
        <5>4. QED
          BY <4>2, <4>4, <5>2, <5>3
      <4>5. QED
        BY <4>3, <4>4
    <3>5. QED
      BY <3>3, <3>4
  <2>4. CASE ModemAnswers \/ ModemLoses \/ ModemUnsolicited \/ ModemSwitchesCrc \/ UNCHANGED vars
    <3>1. UNCHANGED <<client, stack, now>>
      BY <2>4, ModemAside
    <3>2. ASSUME NEW c \in Callers, CalmWorld(c) PROVE CalmWorld(c)'
      BY <2>1, <2>4, <3>2, ModemCalm
    <3>3. \A c \in Callers : (Live(c)' <=> Live(c)) /\ (At(c, {"close"})' <=> At(c, {"close"}))
      BY <3>1 DEF Live, At, Top
    <3>4. QED
      BY <1>2, <3>1, <3>2, <3>3 DEF AloneCalm, client
  <2>5. QED
    BY <1>2, <2>2, <2>3, <2>4 DEF Next
<1>3. Shape /\ [Next]_vars => Shape'
  BY NextCases
<1>4. Calm => AloneSucceeds
  BY DEF AloneCalm, AloneSucceeds, Live
<1>5. QED
  <2> HIDE DEF Calm
  <2>1. QED
    BY InitShape, TypeCorrect, AlwaysOwn, <1>1, <1>2, <1>3, <1>4, PTL DEF Spec

================================================================================
