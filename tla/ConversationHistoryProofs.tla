--------------------- MODULE ConversationHistoryProofs ---------------------
(***************************************************************************)
(* Proofs about ConversationHistory.  First what appending and trimming do *)
(* to a list of messages; then, for any coroutines, the types and that the *)
(* history stays whole; last, for a caller who is alone on the session and *)
(* says something in every turn, that requests are the history and that    *)
(* refusals come to an end; and for any number of coroutines that a        *)
(* history of spoken texts is bounded.                                     *)
(***************************************************************************)
EXTENDS ConversationHistory, SequenceTheorems, FiniteSetTheorems, TLAPS

(* How far add_message cuts into a list.                                   *)
Cut(h) == IF Len(h) > Window THEN Len(h) - Window ELSE 0

(* What trimming keeps: all but the first Cut(h) messages.                 *)
LEMMA TrimKeeps ==
    ASSUME NEW h \in Seq(Message), Len(h) > 0
    PROVE  /\ Trim(h) \in Seq(Message)
           /\ Len(Trim(h)) = Len(h) - Cut(h)
           /\ Len(Trim(h)) > 0 /\ Len(Trim(h)) <= Window
           /\ Cut(h) \in Nat
           /\ \A i \in 1..Len(Trim(h)) : Trim(h)[i] = h[i + Cut(h)]
<1>0. Len(h) \in Nat /\ Window \in Nat \ {0}
  BY NumbersAssumption
<1>1. CASE Len(h) > Window
  <2>1. /\ Cut(h) = Len(h) - Window
        /\ Trim(h) = SubSeq(h, Len(h) - Window + 1, Len(h))
    BY <1>1 DEF Trim, Cut
  <2>2. \A i \in (Len(h) - Window + 1)..Len(h) : h[i] \in Message
    BY <1>0, <1>1, ElementOfSeq
  <2>3. /\ Trim(h) \in Seq(Message)
        /\ Len(Trim(h)) = Window
        /\ \A i \in 1..Window : Trim(h)[i] = h[Len(h) - Window + 1 + i - 1]
    <3> DEFINE from == Len(h) - Window + 1
    <3>1. from \in Int /\ Len(h) \in Int /\ from <= Len(h)
          /\ Len(h) - from + 1 = Window
      BY <1>0, <1>1
    <3>2. \A i \in from..Len(h) : h[i] \in Message
      BY <2>2
    <3>3. Trim(h) = SubSeq(h, from, Len(h))
      BY <2>1
    <3> HIDE DEF from
    <3>4. /\ SubSeq(h, from, Len(h)) \in Seq(Message)
          /\ Len(SubSeq(h, from, Len(h))) =
               (IF from <= Len(h) THEN Len(h) - from + 1 ELSE 0)
          /\ \A i \in 1..(Len(h) - from + 1) : SubSeq(h, from, Len(h))[i] = h[from + i - 1]
      BY <3>1, <3>2, SubSeqProperties
    <3>5. QED
      BY <3>1, <3>3, <3>4 DEF from
  <2>4. QED
    BY <1>0, <1>1, <2>1, <2>3
<1>2. CASE ~(Len(h) > Window)
  <2>1. Cut(h) = 0 /\ Trim(h) = h
    BY <1>2 DEF Trim, Cut
  <2>2. QED
    BY <1>0, <1>2, <2>1
<1>3. QED
  BY <1>1, <1>2

(* A suffix of a whole list is whole.                                      *)
LEMMA TrimWhole ==
    ASSUME NEW h \in Seq(Message), Len(h) > 0, Whole(h)
    PROVE  Whole(Trim(h))
<1> DEFINE n == Len(Trim(h))
           d == Cut(h)
<1>1. /\ Len(h) \in Nat /\ n \in Nat /\ d \in Nat /\ n = Len(h) - d /\ n > 0
      /\ \A i \in 1..n : Trim(h)[i] = h[i + d]
  BY TrimKeeps
<1> HIDE DEF n, d
<1>2. \A i \in 1..(n - 1) : Follows(Trim(h)[i], Trim(h)[i + 1])
  <2> SUFFICES ASSUME NEW i \in 1..(n - 1) PROVE Follows(Trim(h)[i], Trim(h)[i + 1])
    OBVIOUS
  <2>1. i \in 1..n /\ i + 1 \in 1..n /\ i + d \in 1..(Len(h) - 1) /\ (i + 1) + d = (i + d) + 1
    BY <1>1
  <2>2. Trim(h)[i] = h[i + d] /\ Trim(h)[i + 1] = h[(i + d) + 1]
    BY <1>1, <2>1
  <2>3. QED
    BY <2>1, <2>2 DEF Whole
<1>3. Trim(h)[n] = h[Len(h)] /\ h[Len(h)].left = 0
  BY <1>1 DEF Whole, Last
<1>4. QED
  BY <1>1, <1>2, <1>3 DEF Whole, Last, n

LEMMA PlainType ==
    ASSUME NEW role \in {"user", "assistant"}
    PROVE  /\ Plain(role) \in Message
           /\ Plain(role).role = role /\ Plain(role).left = 0
BY NumbersAssumption DEF Plain, Message

(* A plain message may follow any whole list.                              *)
LEMMA AppendWhole ==
    ASSUME NEW h \in Seq(Message), Whole(h), NEW role \in {"user", "assistant"}
    PROVE  Whole(Append(h, Plain(role)))
<1> DEFINE g == Append(h, Plain(role))
<1>1. /\ Len(h) \in Nat /\ Len(g) = Len(h) + 1
      /\ \A i \in 1..Len(h) : g[i] = h[i]
      /\ g[Len(h) + 1] = Plain(role)
  OBVIOUS
<1>2. Plain(role).left = 0 /\ Plain(role).role # "tool"
  BY PlainType
<1> HIDE DEF g
<1>3. ASSUME NEW i \in 1..(Len(g) - 1)
      PROVE  Follows(g[i], g[i + 1])
  <2>1. CASE i < Len(h)
    <3>1. i \in 1..(Len(h) - 1) /\ i \in 1..Len(h) /\ i + 1 \in 1..Len(h)
      BY <1>1, <2>1
    <3>2. g[i] = h[i] /\ g[i + 1] = h[i + 1]
      BY <1>1, <3>1
    <3>3. QED
      BY <3>1, <3>2 DEF Whole
  <2>2. CASE i = Len(h)
    <3>1. Len(h) > 0 /\ i \in 1..Len(h)
      BY <1>1, <2>2
    <3>2. g[i] = Last(h) /\ g[i + 1] = Plain(role) /\ Last(h).left = 0
      BY <1>1, <2>2, <3>1 DEF Whole, Last
    <3>3. QED
      BY <1>2, <3>2 DEF Follows
  <2>3. QED
    BY <1>1, <2>1, <2>2
<1>4. Len(g) > 0 /\ Last(g).left = 0
  BY <1>1, <1>2 DEF Last
<1>5. QED
  BY <1>3, <1>4 DEF Whole, g

(* The shape of a block of k tool calls.                                   *)
LEMMA BlockShape ==
    ASSUME NEW k \in 1..MaxTools
    PROVE  /\ Block(k) \in Seq(Message) /\ Len(Block(k)) = k + 1
           /\ Block(k)[1].role = "assistant" /\ Block(k)[1].left = k
           /\ \A i \in 2..(k + 1) : Block(k)[i].role = "tool" /\ Block(k)[i].left = k + 1 - i
           /\ Whole(Block(k))
<1>1. k \in Nat /\ k > 0 /\ k <= MaxTools /\ MaxTools \in Nat
  BY NumbersAssumption
<1>2. /\ \A i \in 1..(k + 1) : Block(k)[i] =
           [role |-> IF i = 1 THEN "assistant" ELSE "tool", left |-> k + 1 - i]
      /\ DOMAIN Block(k) = 1..(k + 1)
      /\ Block(k) = [i \in 1..(k + 1) |-> Block(k)[i]]
  BY DEF Block
<1>3. ASSUME NEW i \in 1..(k + 1)
      PROVE  /\ Block(k)[i] \in Message /\ Block(k)[i].left = k + 1 - i
             /\ Block(k)[i].role = IF i = 1 THEN "assistant" ELSE "tool"
  <2> DEFINE role == IF i = 1 THEN "assistant" ELSE "tool"
             left == k + 1 - i
  <2>1. role \in {"user", "assistant", "tool"} /\ left \in 0..MaxTools
    BY <1>1
  <2>2. Block(k)[i] = [role |-> role, left |-> left]
    BY <1>2
  <2> HIDE DEF role, left
  <2>3. Block(k)[i] \in Message /\ Block(k)[i].left = left /\ Block(k)[i].role = role
    BY <2>1, <2>2 DEF Message
  <2>4. QED
    BY <2>3 DEF role, left
<1>4. Block(k) \in [1..(k + 1) -> Message]
  BY <1>2, <1>3
<1>5. Block(k) \in Seq(Message) /\ Len(Block(k)) = k + 1
  BY <1>1, <1>4
<1>6. Block(k)[1].role = "assistant" /\ Block(k)[1].left = k
  <2>1. 1 \in 1..(k + 1) /\ k + 1 - 1 = k
    BY <1>1
  <2>2. QED
    BY <1>3, <2>1
<1>7. \A i \in 2..(k + 1) : Block(k)[i].role = "tool" /\ Block(k)[i].left = k + 1 - i
  <2>1. \A i \in 2..(k + 1) : i \in 1..(k + 1) /\ i # 1
    BY <1>1
  <2>2. QED
    BY <1>3, <2>1
<1>8. ASSUME NEW i \in 1..(Len(Block(k)) - 1)
      PROVE  Follows(Block(k)[i], Block(k)[i + 1])
  <2>1. i \in 1..k /\ i + 1 \in 2..(k + 1)
    BY <1>1, <1>5
  <2>2. Block(k)[i + 1].role = "tool" /\ Block(k)[i + 1].left = k - i
    BY <1>1, <1>7, <2>1
  <2>3. i \in 1..(k + 1) /\ Block(k)[i].left = k + 1 - i
    BY <1>1, <1>3, <2>1
  <2>4. QED
    BY <1>1, <2>1, <2>2, <2>3 DEF Follows
<1>9. Last(Block(k)).left = 0
  BY <1>1, <1>5, <1>7 DEF Last
<1>10. QED
  BY <1>5, <1>6, <1>7, <1>8, <1>9 DEF Whole

(* A block appended to a list: its elements, and slicing it off again.     *)
LEMMA BlockAppended ==
    ASSUME NEW h \in Seq(Message), NEW k \in 1..MaxTools
    PROVE  /\ h \o Block(k) \in Seq(Message)
           /\ Len(h \o Block(k)) = Len(h) + k + 1
           /\ \A i \in 1..Len(h) : (h \o Block(k))[i] = h[i]
           /\ \A i \in 1..(k + 1) : (h \o Block(k))[Len(h) + i] = Block(k)[i]
           /\ SubSeq(h \o Block(k), 1, Len(h \o Block(k)) - k - 1) = h
<1> DEFINE g == h \o Block(k)
<1>1. k \in Nat /\ Len(h) \in Nat /\ Block(k) \in Seq(Message) /\ Len(Block(k)) = k + 1
  BY BlockShape, NumbersAssumption
<1>2. /\ g \in Seq(Message) /\ Len(g) = Len(h) + k + 1
      /\ \A i \in 1..(Len(h) + k + 1) : g[i] = IF i <= Len(h) THEN h[i] ELSE Block(k)[i - Len(h)]
  <2> DEFINE b == Block(k)
  <2>1. b \in Seq(Message) /\ Len(b) = k + 1
    BY <1>1
  <2> HIDE DEF b
  <2>2. /\ h \o b \in Seq(Message) /\ Len(h \o b) = Len(h) + Len(b)
        /\ \A i \in 1..(Len(h) + Len(b)) : (h \o b)[i] = IF i <= Len(h) THEN h[i] ELSE b[i - Len(h)]
    BY <2>1, ConcatProperties
  <2>3. Len(h) + Len(b) = Len(h) + k + 1
    BY <1>1, <2>1
  <2>4. QED
    BY <2>2, <2>3 DEF b
<1> HIDE DEF g
<1>3. \A i \in 1..Len(h) : g[i] = h[i]
  BY <1>1, <1>2
<1>4. ASSUME NEW i \in 1..(k + 1) PROVE g[Len(h) + i] = Block(k)[i]
  <2>1. Len(h) + i \in 1..(Len(h) + k + 1) /\ ~(Len(h) + i <= Len(h)) /\ Len(h) + i - Len(h) = i
    BY <1>1
  <2>2. QED
    BY <1>2, <2>1
<1>5. SubSeq(g, 1, Len(h)) = h
  <2>1. \A i \in 1..Len(h) : g[i] \in Message
    BY <1>3, ElementOfSeq
  <2>2. /\ SubSeq(g, 1, Len(h)) \in Seq(Message)
        /\ Len(SubSeq(g, 1, Len(h))) = IF 1 <= Len(h) THEN Len(h) - 1 + 1 ELSE 0
        /\ \A i \in 1..(Len(h) - 1 + 1) : SubSeq(g, 1, Len(h))[i] = g[1 + i - 1]
    BY <1>1, <2>1, SubSeqProperties
  <2>3. Len(SubSeq(g, 1, Len(h))) = Len(h)
    BY <1>1, <2>2
  <2>4. \A i \in 1..Len(h) : SubSeq(g, 1, Len(h))[i] = h[i]
    BY <1>1, <1>3, <2>2
  <2>5. QED
    BY <2>2, <2>3, <2>4, SeqEqual
<1>6. Len(g) - k - 1 = Len(h)
  BY <1>1, <1>2
<1>7. QED
  BY <1>2, <1>3, <1>4, <1>5, <1>6 DEF g

(* So the history with a block appended is whole.                          *)
LEMMA BlockWhole ==
    ASSUME NEW h \in Seq(Message), Whole(h), NEW k \in 1..MaxTools
    PROVE  Whole(h \o Block(k))
<1> DEFINE g == h \o Block(k)
           n == Len(h)
<1>1. k \in Nat /\ n \in Nat /\ Len(g) = n + k + 1
      /\ (\A i \in 1..n : g[i] = h[i]) /\ (\A i \in 1..(k + 1) : g[n + i] = Block(k)[i])
  BY BlockAppended, NumbersAssumption
<1>2. Whole(Block(k)) /\ Len(Block(k)) = k + 1 /\ Block(k)[1].role = "assistant"
  BY BlockShape
<1>3. \A i \in 1..(n - 1) : Follows(h[i], h[i + 1])
  BY DEF Whole
<1>4. n > 0 => h[n].left = 0
  BY DEF Whole, Last
<1> HIDE DEF g, n
<1>5. ASSUME NEW i \in 1..(Len(g) - 1) PROVE Follows(g[i], g[i + 1])
  <2>1. CASE i < n
    <3>1. i \in 1..(n - 1) /\ i \in 1..n /\ i + 1 \in 1..n
      BY <1>1, <2>1
    <3>2. QED
      BY <1>1, <1>3, <3>1
  <2>2. CASE i = n
    <3>1. n > 0 /\ i \in 1..n /\ 1 \in 1..(k + 1)
      BY <1>1, <2>2
    <3>2. g[i] = h[n] /\ g[i + 1] = Block(k)[1]
      BY <1>1, <2>2, <3>1
    <3>3. QED
      BY <1>2, <1>4, <3>1, <3>2 DEF Follows
  <2>3. CASE i > n
    <3> DEFINE j == i - n
    <3>1. j \in 1..(Len(Block(k)) - 1) /\ j \in 1..(k + 1) /\ j + 1 \in 1..(k + 1)
          /\ n + j = i /\ n + (j + 1) = i + 1
      BY <1>1, <1>2, <2>3
    <3>2. g[i] = Block(k)[j] /\ g[i + 1] = Block(k)[j + 1]
      BY <1>1, <3>1
    <3> HIDE DEF j
    <3>3. QED
      BY <1>2, <3>1, <3>2 DEF Whole
  <2>4. QED
    BY <1>1, <2>1, <2>2, <2>3
<1>6. Len(g) > 0 /\ Last(g).left = 0
  <2>1. k + 1 \in 1..(k + 1) /\ Last(Block(k)).left = 0
    BY <1>1, <1>2 DEF Whole
  <2>2. g[n + (k + 1)] = Block(k)[k + 1]
    BY <1>1, <2>1
  <2>3. QED
    BY <1>1, <1>2, <2>1, <2>2 DEF Last
<1>7. QED
  BY <1>5, <1>6 DEF Whole, g
-----------------------------------------------------------------------------
(* Any coroutines: the types hold and the history is whole.                *)
Inv == TypeOK /\ BlocksWhole

LEMMA AddKeepsWhole ==
    ASSUME Inv, NEW role \in {"user", "assistant"}, NEW text, AddMessage(role, text)
    PROVE  history' \in Seq(Message) /\ Len(history') > 0 /\ Whole(history')
<1> DEFINE longer == Append(history, Plain(role))
<1>1. history \in Seq(Message) /\ Len(history) > 0 /\ Whole(history)
  BY DEF Inv, TypeOK, BlocksWhole
<1>2. longer \in Seq(Message) /\ Len(longer) > 0 /\ Whole(longer)
  BY <1>1, AppendWhole, PlainType
<1>3. history' = Trim(longer) \/ history' = history
  BY DEF AddMessage
<1> HIDE DEF longer
<1>4. Trim(longer) \in Seq(Message) /\ Len(Trim(longer)) > 0 /\ Whole(Trim(longer))
  BY <1>2, TrimKeeps, TrimWhole
<1>5. QED
  BY <1>1, <1>3, <1>4

Pcs == {"idle", "heard", "model", "tools", "followup", "reply"}

LEMMA AtType ==
    ASSUME NEW pc \in Pcs
    PROVE  /\ At(pc) \in Turn
           /\ At(pc).pc = pc /\ At(pc).request = <<>> /\ At(pc).calls = 0
BY NumbersAssumption DEF At, Turn, Pcs

(* The two turns that wait with something of their own.                    *)
LEMMA SendType ==
    ASSUME NEW pc \in Pcs, NEW q \in Seq(Message)
    PROVE  /\ [At(pc) EXCEPT !.request = q] \in Turn
           /\ [At(pc) EXCEPT !.request = q].pc = pc
           /\ [At(pc) EXCEPT !.request = q].request = q
BY NumbersAssumption DEF At, Turn, Pcs

LEMMA CallsType ==
    ASSUME NEW k \in 1..MaxTools
    PROVE  /\ [At("tools") EXCEPT !.calls = k] \in Turn
           /\ [At("tools") EXCEPT !.calls = k].pc = "tools"
           /\ [At("tools") EXCEPT !.calls = k].calls = k
<1>1. k \in 0..MaxTools /\ <<>> \in Seq(Message)
  BY NumbersAssumption
<1>2. [At("tools") EXCEPT !.calls = k] = [pc |-> "tools", request |-> <<>>, calls |-> k]
  BY DEF At
<1>3. QED
  BY <1>1, <1>2 DEF Turn

LEMMA MoveType ==
    ASSUME TypeOK, NEW t \in Turns, NEW turn \in Turn, Move(t, turn)
    PROVE  /\ turns' \in [Turns -> Turn]
           /\ turns'[t] = turn
BY DEF TypeOK, Move

(* conversation_history[:-1] is a list of messages.                        *)
LEMMA FrontType ==
    ASSUME NEW h \in Seq(Message), Len(h) > 0
    PROVE  /\ Front(h) \in Seq(Message)
           /\ Len(Front(h)) = Len(h) - 1
           /\ \A i \in 1..(Len(h) - 1) : Front(h)[i] = h[i]
<1>1. Len(h) \in Nat /\ Len(h) - 1 \in Int /\ 1 \in Int
  OBVIOUS
<1>2. \A i \in 1..(Len(h) - 1) : h[i] \in Message
  BY <1>1, ElementOfSeq
<1>3. /\ Front(h) \in Seq(Message)
      /\ Len(Front(h)) = IF 1 <= Len(h) - 1 THEN Len(h) - 1 - 1 + 1 ELSE 0
      /\ \A i \in 1..(Len(h) - 1 - 1 + 1) : Front(h)[i] = h[1 + i - 1]
  BY <1>1, <1>2, SubSeqProperties DEF Front
<1>4. \A n \in Nat : n > 0 =>
        /\ n - 1 - 1 + 1 = n - 1
        /\ (IF 1 <= n - 1 THEN n - 1 - 1 + 1 ELSE 0) = n - 1
  OBVIOUS
<1>5. \A i \in 1..(Len(h) - 1) : 1 + i - 1 = i
  OBVIOUS
<1>6. QED
  BY <1>1, <1>3, <1>4, <1>5

(* A turn that ends its tools has a number of calls.                       *)
Calling == \A t \in Turns : turns[t].pc = "tools" => turns[t].calls \in 1..MaxTools

LEMMA StepKeepsInv == Inv /\ Calling /\ [Next]_vars => Inv' /\ Calling'
<1> SUFFICES ASSUME Inv, Calling, [Next]_vars PROVE Inv' /\ Calling'
  OBVIOUS
<1> USE DEF Inv
<1>1. TypeOK /\ BlocksWhole
  OBVIOUS
<1>2. ASSUME NEW t \in Turns, NEW turn \in Turn, Move(t, turn),
             turn.pc = "tools" => turn.calls \in 1..MaxTools
      PROVE  Calling' /\ turns' \in [Turns -> Turn]
  <2>1. turns \in [Turns -> Turn] /\ turns' = [turns EXCEPT ![t] = turn]
    BY <1>1, <1>2 DEF TypeOK, Move
  <2>2. \A s \in Turns : turns'[s] = IF s = t THEN turn ELSE turns[s]
    BY <2>1
  <2>3. QED
    BY <1>2, <2>1, <2>2, Zenon DEF Calling
<1>3. ASSUME NEW t \in Turns, NEW pc \in Pcs, Move(t, At(pc)), pc # "tools"
      PROVE  Calling' /\ turns' \in [Turns -> Turn]
  BY <1>2, <1>3, AtType
<1>4. ASSUME UNCHANGED history PROVE (BlocksWhole /\ history \in Seq(Message) /\ Len(history) > 0)'
  BY <1>1, <1>4 DEF TypeOK, BlocksWhole
<1>5. refusals + 1 \in Nat /\ 0 \in Nat /\ refusals \in Nat /\ turnCount \in 0..MaxTurns
  BY <1>1 DEF TypeOK
<1>6. CASE UNCHANGED vars
  BY <1>1, <1>6 DEF vars, TypeOK, BlocksWhole, Calling
<1>7. ASSUME NEW t \in Turns, Hear(t) PROVE Inv' /\ Calling'
  <2>1. \E text \in Texts : AddMessage("user", text)
    BY <1>7 DEF Hear
  <2>2. history' \in Seq(Message) /\ Len(history') > 0 /\ Whole(history')
    BY <2>1, AddKeepsWhole
  <2>3. turnCount' \in 0..MaxTurns /\ refusals' \in Nat
    BY <1>5, <1>7, NumbersAssumption DEF Hear
  <2>4. Calling' /\ turns' \in [Turns -> Turn]
    BY <1>3, <1>7 DEF Hear, Pcs
  <2>5. QED
    BY <2>2, <2>3, <2>4 DEF TypeOK, BlocksWhole
<1>8. ASSUME NEW t \in Turns, TooLong(t) \/ Reply(t) PROVE Inv' /\ Calling'
  <2>1. \E text \in {"words", "blank"} : AddMessage("assistant", text)
    BY <1>8 DEF TooLong, Reply
  <2>2. history' \in Seq(Message) /\ Len(history') > 0 /\ Whole(history')
    BY <2>1, AddKeepsWhole
  <2>3. turnCount' \in 0..MaxTurns /\ refusals' \in Nat
    BY <1>5, <1>8 DEF TooLong, Reply
  <2>4. Calling' /\ turns' \in [Turns -> Turn]
    BY <1>3, <1>8 DEF TooLong, Reply, Pcs
  <2>5. QED
    BY <2>2, <2>3, <2>4 DEF TypeOK, BlocksWhole
<1>9. ASSUME NEW t \in Turns,
             \/ FastPath(t) \/ ModelFails(t) \/ ModelSpeaks(t) \/ ToolRaises(t)
             \/ FollowUp(t) \/ FollowUpFails(t)
      PROVE  Inv' /\ Calling'
  <2>1. UNCHANGED <<history, turnCount>> /\ \E pc \in {"reply", "idle"} : Move(t, At(pc))
    BY <1>9 DEF FastPath, ModelFails, ModelSpeaks, ToolRaises, FollowUp, FollowUpFails
  <2>2. refusals' \in Nat
    BY <1>5, <1>9 DEF FastPath, ModelFails, ModelSpeaks, ToolRaises, FollowUp, FollowUpFails
  <2>3. Calling' /\ turns' \in [Turns -> Turn]
    BY <1>3, <2>1 DEF Pcs
  <2>4. QED
    BY <1>4, <1>5, <2>1, <2>2, <2>3 DEF TypeOK
<1>10. ASSUME NEW t \in Turns, Ask(t) PROVE Inv' /\ Calling'
  <2> DEFINE q == Append(Front(history), Plain("user"))
  <2>1. q \in Seq(Message)
    BY <1>1, FrontType, PlainType DEF TypeOK
  <2>2. UNCHANGED <<history, turnCount, refusals>> /\ Move(t, [At("model") EXCEPT !.request = q])
    BY <1>10 DEF Ask
  <2> HIDE DEF q
  <2>3. Calling' /\ turns' \in [Turns -> Turn]
    BY <1>2, <2>1, <2>2, SendType DEF Pcs
  <2>4. QED
    BY <1>4, <1>5, <2>2, <2>3 DEF TypeOK
<1>11. ASSUME NEW t \in Turns, ModelCalls(t) PROVE Inv' /\ Calling'
  <2>1. PICK k \in 1..MaxTools : Move(t, [At("tools") EXCEPT !.calls = k])
    BY <1>11 DEF ModelCalls
  <2>2. Calling' /\ turns' \in [Turns -> Turn]
    BY <1>2, <2>1, CallsType
  <2>3. UNCHANGED <<history, turnCount>> /\ refusals' = 0
    BY <1>11 DEF ModelCalls
  <2>4. QED
    BY <1>4, <1>5, <2>2, <2>3 DEF TypeOK
<1>12. ASSUME NEW t \in Turns, Record(t) PROVE Inv' /\ Calling'
  <2> DEFINE k == turns[t].calls
             longer == history \o Block(k)
             q == SubSeq(longer, 1, Len(longer) - k - 1) \o Block(k)
  <2>1. k \in 1..MaxTools
    BY <1>12 DEF Calling, Record
  <2>2. history' = longer /\ UNCHANGED <<turnCount, refusals>>
        /\ Move(t, [At("followup") EXCEPT !.request = q])
    BY <1>12 DEF Record
  <2>3. q = longer
    BY <1>1, <2>1, BlockAppended DEF TypeOK
  <2>4. longer \in Seq(Message) /\ Len(longer) > 0 /\ Whole(longer)
    <3>1. history \in Seq(Message) /\ Whole(history) /\ Len(history) \in Nat
      BY <1>1 DEF TypeOK, BlocksWhole
    <3>2. longer \in Seq(Message) /\ Len(longer) = Len(history) + k + 1 /\ Whole(longer)
      BY <2>1, <3>1, BlockAppended, BlockWhole
    <3>3. QED
      BY <2>1, <3>1, <3>2, NumbersAssumption
  <2> HIDE DEF k, longer, q
  <2>5. Calling' /\ turns' \in [Turns -> Turn]
    BY <1>2, <2>2, <2>3, <2>4, SendType DEF Pcs
  <2>6. QED
    BY <1>5, <2>2, <2>4, <2>5 DEF TypeOK, BlocksWhole
<1>13. QED
  BY <1>6, <1>7, <1>8, <1>9, <1>10, <1>11, <1>12 DEF Next

LEMMA InitHolds == Init => Inv /\ Calling
<1> SUFFICES ASSUME Init PROVE Inv /\ Calling
  OBVIOUS
<1>1. history = <<Plain("assistant")>> /\ Plain("assistant") \in Message /\ Plain("assistant").left = 0
  BY PlainType DEF Init
<1>2. history \in Seq(Message) /\ Len(history) = 1 /\ Last(history).left = 0
  BY <1>1 DEF Last
<1>3. Whole(history)
  BY <1>2 DEF Whole
<1>4. turns \in [Turns -> Turn] /\ \A t \in Turns : turns[t].pc = "idle"
  BY AtType DEF Init, Pcs
<1>5. turnCount \in 0..MaxTurns /\ refusals \in Nat
  BY NumbersAssumption DEF Init
<1>6. QED
  BY <1>2, <1>3, <1>4, <1>5 DEF Inv, TypeOK, BlocksWhole, Calling

(* Every variable keeps its type, whatever coroutines interleave.          *)
THEOREM Typed == Spec => []TypeOK
<1>1. Init => Inv /\ Calling
  BY InitHolds
<1>2. Inv /\ Calling /\ [Next]_vars => Inv' /\ Calling'
  BY StepKeepsInv
<1>3. Inv => TypeOK
  BY DEF Inv
<1>4. QED
  BY <1>1, <1>2, <1>3, PTL DEF Spec

(* add_message and the tool loop never tear a block of tool messages       *)
(* apart, whatever coroutines interleave: only its front may be cut off.   *)
THEOREM NeverTorn == Spec => []BlocksWhole
<1>1. Init => Inv /\ Calling
  BY InitHolds
<1>2. Inv /\ Calling /\ [Next]_vars => Inv' /\ Calling'
  BY StepKeepsInv
<1>3. Inv => BlocksWhole
  BY DEF Inv
<1>4. QED
  BY <1>1, <1>2, <1>3, PTL DEF Spec
-----------------------------------------------------------------------------
(***************************************************************************)
(* A caller alone on the session, who says something in every turn.  The   *)
(* strengthening: how many refusals are still to come is known from how    *)
(* many results of its block the orphan at the front has left.             *)
(***************************************************************************)
Alone == (\A s, t \in Turns : s = t) /\ Texts \subseteq {"words"}

Solid(h) ==
    /\ h \in Seq(Message) /\ Len(h) > 0 /\ Whole(h)
    /\ \A i \in 1..Len(h) : h[i].role = "tool" => h[i].left < MaxTools
    /\ \A i \in 1..(Len(h) - 1) : h[i].role = "tool" /\ h[i].left = 0 => h[i + 1].left = 0
    /\ Orphaned(h) => Len(h) >= Window

\* Between two turns, during one up to the model's answer, before its reply.
Waiting(h, r) == r > 0 =>
    /\ Len(h) <= Window
    /\ IF Orphaned(h) THEN r + h[1].left <= MaxTools ELSE h[1].left = 0
Facing(h, r) ==
    /\ Len(h) <= Window /\ Last(h) = Plain("user")
    /\ Orphaned(h) => r + h[1].left + 1 <= MaxTools
Owed(h, r) == r > 0 => Len(h) <= Window /\ Orphaned(h) /\ r + h[1].left <= MaxTools

Where(u) ==
    /\ u.pc = "idle" => Waiting(history, refusals)
    /\ u.pc \in {"heard", "model"} => Facing(history, refusals)
    /\ u.pc = "model" => u.request = history
    /\ u.pc = "tools" => refusals = 0 /\ ~Orphaned(history) /\ Last(history) = Plain("user")
    /\ u.pc = "followup" => refusals = 0 /\ Accepts(u.request)
    /\ u.pc = "reply" => Owed(history, refusals)

AInv == Inv /\ Calling /\ Solid(history) /\ refusals <= MaxTools /\ \A t \in Turns : Where(turns[t])

(* Saying something: the list stays solid, ends in what was said, is as    *)
(* long as the window at most, and loses no message, or its first one, or  *)
(* was longer than the window before.                                      *)
LEMMA Saying ==
    ASSUME NEW h, Solid(h), NEW role \in {"user", "assistant"},
           NEW g, g = Trim(Append(h, Plain(role)))
    PROVE  /\ Solid(g) /\ Len(g) <= Window /\ Last(g) = Plain(role)
           /\ Len(h) < Window => g[1] = h[1]
           /\ Len(h) = Window => g[1] = IF Len(h) = 1 THEN Plain(role) ELSE h[2]
<1> DEFINE a == Append(h, Plain(role))
           d == Cut(a)
           n == Len(g)
<1>1. /\ h \in Seq(Message) /\ Len(h) \in Nat /\ Len(h) > 0 /\ Whole(h)
      /\ Window \in Nat /\ Window > 0 /\ MaxTools \in Nat /\ MaxTools > 0
  BY NumbersAssumption DEF Solid
<1>2. /\ Plain(role) \in Message /\ Plain(role).left = 0 /\ Plain(role).role # "tool"
  BY PlainType
<1>3. /\ a \in Seq(Message) /\ Len(a) = Len(h) + 1
      /\ \A i \in 1..Len(h) : a[i] = h[i]
      /\ a[Len(h) + 1] = Plain(role)
  BY <1>1, <1>2
<1>4. Whole(a)
  BY <1>1, AppendWhole
<1> HIDE DEF a
<1>5. g = Trim(a)
  BY DEF a
<1>6. d = IF Len(h) + 1 > Window THEN Len(h) + 1 - Window ELSE 0
  BY <1>1, <1>3 DEF Cut, d
<1>7. /\ g \in Seq(Message) /\ n = Len(h) + 1 - d /\ n > 0 /\ n <= Window /\ d \in Nat
      /\ \A i \in 1..n : g[i] = a[i + d]
  BY <1>1, <1>3, <1>5, TrimKeeps
<1>8. Whole(g)
  BY <1>1, <1>3, <1>4, <1>5, TrimWhole
<1> HIDE DEF d, n
<1>9. n \in Nat
  BY <1>1, <1>7
<1>10. g[n] = Plain(role)
  <2>1. n \in 1..n /\ n + d = Len(h) + 1
    BY <1>1, <1>7, <1>9
  <2>2. QED
    BY <1>3, <1>7, <2>1
<1>11. Last(g) = Plain(role)
  BY <1>10 DEF Last, n
<1>12. ASSUME NEW i \in 1..n, i < n PROVE g[i] = h[i + d] /\ i + d \in 1..Len(h)
  <2>1. i + d \in 1..Len(h)
    BY <1>1, <1>7, <1>9, <1>12
  <2>2. QED
    BY <1>3, <1>7, <2>1
<1>13. \A i \in 1..n : g[i].role = "tool" => g[i].left < MaxTools
  <2> SUFFICES ASSUME NEW i \in 1..n, g[i].role = "tool" PROVE g[i].left < MaxTools
    OBVIOUS
  <2>1. i < n
    BY <1>2, <1>9, <1>10
  <2>2. QED
    BY <1>12, <2>1 DEF Solid
<1>14. \A i \in 1..(n - 1) : g[i].role = "tool" /\ g[i].left = 0 => g[i + 1].left = 0
  <2> SUFFICES ASSUME NEW i \in 1..(n - 1), g[i].role = "tool", g[i].left = 0
               PROVE  g[i + 1].left = 0
    OBVIOUS
  <2>1. i \in 1..n /\ i < n /\ i + 1 \in 1..n
    BY <1>9
  <2>2. g[i] = h[i + d] /\ i + d \in 1..Len(h)
    BY <1>12, <2>1
  <2>3. CASE i + 1 = n
    BY <1>2, <1>10, <2>3
  <2>4. CASE i + 1 < n
    <3>1. g[i + 1] = h[(i + 1) + d] /\ (i + 1) + d \in 1..Len(h)
      BY <1>12, <2>1, <2>4
    <3>2. (i + 1) + d = (i + d) + 1 /\ i + d \in 1..(Len(h) - 1)
      BY <1>1, <1>7, <2>2, <3>1
    <3>3. QED
      BY <2>2, <3>1, <3>2 DEF Solid
  <2>5. QED
    BY <1>9, <2>1, <2>3, <2>4
<1>15. Orphaned(g) => n >= Window
  <2>1. CASE Len(h) + 1 > Window
    BY <1>1, <1>6, <1>7, <2>1
  <2>2. CASE ~(Len(h) + 1 > Window)
    <3>1. d = 0 /\ n = Len(h) + 1 /\ 1 \in 1..n /\ 1 < n
      BY <1>1, <1>6, <1>7, <2>2
    <3>2. g[1] = h[1]
      BY <1>12, <3>1
    <3>3. Orphaned(g) => Orphaned(h)
      BY <1>1, <3>2 DEF Orphaned
    <3>4. QED
      BY <1>1, <2>2, <3>3 DEF Solid
  <2>3. QED
    BY <2>1, <2>2
<1>16. Solid(g)
  BY <1>7, <1>8, <1>9, <1>13, <1>14, <1>15 DEF Solid, n
<1>17. Len(h) < Window => g[1] = h[1]
  <2> SUFFICES ASSUME Len(h) < Window PROVE g[1] = h[1]
    OBVIOUS
  <2>1. ~(Len(h) + 1 > Window)
    BY <1>1
  <2>2. d = 0 /\ n = Len(h) + 1
    BY <1>1, <1>6, <1>7, <2>1
  <2>3. 1 \in 1..n /\ 1 < n /\ 1 + d = 1
    BY <1>1, <2>2
  <2>4. QED
    BY <1>12, <2>3
<1>18. Len(h) = Window => g[1] = IF Len(h) = 1 THEN Plain(role) ELSE h[2]
  <2> SUFFICES ASSUME Len(h) = Window PROVE g[1] = IF Len(h) = 1 THEN Plain(role) ELSE h[2]
    OBVIOUS
  <2>1. d = 1 /\ n = Len(h)
    BY <1>1, <1>6, <1>7
  <2>2. CASE Len(h) = 1
    BY <1>10, <2>1, <2>2
  <2>3. CASE Len(h) # 1
    <3>1. 1 \in 1..n /\ 1 < n /\ 1 + d = 2
      BY <1>1, <2>1, <2>3
    <3>2. QED
      BY <1>12, <2>3, <3>1
  <2>4. QED
    BY <2>2, <2>3
<1>19. QED
  BY <1>7, <1>11, <1>16, <1>17, <1>18 DEF n

(* The second message of a solid list, known from the first.               *)
LEMMA SecondMessage ==
    ASSUME NEW h, Solid(h), Len(h) # 1
    PROVE  /\ h[2].role = "tool" <=> h[1].left > 0
           /\ h[2].role = "tool" => h[2].left = h[1].left - 1
           /\ Orphaned(h) /\ h[1].left = 0 => h[2].left = 0
<1> DEFINE n == Len(h)
<1>0. h \in Seq(Message) /\ n \in Nat /\ n > 0 /\ n # 1
  BY DEF Solid
<1> HIDE DEF n
<1>1. n > 1 /\ 1 \in 1..(n - 1) /\ 1 \in 1..n /\ 1 + 1 = 2
  BY <1>0
<1>2. Follows(h[1], h[2])
  BY <1>1 DEF Solid, Whole, n
<1>3. QED
  <2>1. h[1] \in Message
    BY <1>0, <1>1, ElementOfSeq DEF n
  <2>2. h[1].left \in Nat
    BY <2>1, NumbersAssumption DEF Message
  <2>3. h[1].role = "tool" /\ h[1].left = 0 => h[2].left = 0
    BY <1>1 DEF Solid, n
  <2>4. QED
    BY <1>2, <2>2, <2>3 DEF Follows, Orphaned

(* The first message of a list and what is left of its block.              *)
LEMMA FirstMessage ==
    ASSUME NEW h, Solid(h)
    PROVE  /\ h[1] \in Message /\ h[1].left \in 0..MaxTools /\ h[1].left \in Nat
           /\ Orphaned(h) <=> h[1].role = "tool"
           /\ Orphaned(h) => h[1].left + 1 <= MaxTools /\ Len(h) >= Window
           /\ Len(h) = 1 => h[1].left = 0
<1>1. h \in Seq(Message) /\ Len(h) \in Nat /\ Len(h) > 0 /\ 1 \in 1..Len(h)
  BY DEF Solid
<1>2. h[1] \in Message
  BY <1>1, ElementOfSeq
<1>3. h[1].left \in 0..MaxTools /\ MaxTools \in Nat
  BY <1>2, NumbersAssumption DEF Message
<1>4. Len(h) = 1 => h[1].left = 0
  BY <1>1 DEF Solid, Whole, Last
<1>5. Orphaned(h) => h[1].left < MaxTools
  BY <1>1 DEF Solid, Orphaned
<1>6. QED
  BY <1>1, <1>2, <1>3, <1>4, <1>5 DEF Orphaned, Solid

(* What the caller says pushes one orphan out, if there are refusals.      *)
LEMMA HearingFaces ==
    ASSUME NEW h, Solid(h), NEW r \in Nat, Waiting(h, r),
           NEW g, g = Trim(Append(h, Plain("user")))
    PROVE  Facing(g, r)
<1>1. /\ Solid(g) /\ Len(g) <= Window /\ Last(g) = Plain("user")
      /\ Len(h) < Window => g[1] = h[1]
      /\ Len(h) = Window => g[1] = IF Len(h) = 1 THEN Plain("user") ELSE h[2]
  BY Saying
<1>2. /\ h[1].left \in Nat /\ (Orphaned(h) <=> h[1].role = "tool")
      /\ (Orphaned(h) => Len(h) >= Window)
      /\ Len(h) \in Nat /\ Len(h) > 0 /\ Window \in Nat /\ MaxTools \in Nat
  BY FirstMessage, NumbersAssumption DEF Solid
<1>3. /\ g[1].left \in Nat /\ (Orphaned(g) <=> g[1].role = "tool")
      /\ (Orphaned(g) => g[1].left + 1 <= MaxTools)
  BY <1>1, FirstMessage
<1>4. Plain("user").role # "tool"
  BY PlainType
<1>5. Orphaned(g) => r + g[1].left + 1 <= MaxTools
  <2> SUFFICES ASSUME Orphaned(g) PROVE r + g[1].left + 1 <= MaxTools
    OBVIOUS
  <2>1. CASE r = 0
    BY <1>3, <2>1
  <2>2. CASE r > 0
    <3>1. /\ Len(h) <= Window
          /\ IF Orphaned(h) THEN r + h[1].left <= MaxTools ELSE h[1].left = 0
      BY <2>2 DEF Waiting
    <3>2. Len(h) = Window
      BY <1>1, <1>2, <1>3, <3>1
    <3>3. Len(h) # 1 /\ g[1] = h[2]
      BY <1>1, <1>3, <1>4, <3>2
    <3>4. h[1].left > 0 /\ g[1].left = h[1].left - 1
      BY <1>3, <3>3, SecondMessage
    <3>5. QED
      BY <1>2, <1>3, <3>1, <3>4
  <2>3. QED
    BY <2>1, <2>2
<1>6. QED
  BY <1>1, <1>5 DEF Facing

(* And so does the reply.                                                  *)
LEMMA ReplyingWaits ==
    ASSUME NEW h, Solid(h), NEW r \in Nat, Owed(h, r),
           NEW g, g = Trim(Append(h, Plain("assistant")))
    PROVE  Waiting(g, r)
<1>1. /\ Solid(g) /\ Len(g) <= Window
      /\ Len(h) = Window => g[1] = IF Len(h) = 1 THEN Plain("assistant") ELSE h[2]
  BY Saying
<1>2. SUFFICES ASSUME r > 0
               PROVE  IF Orphaned(g) THEN r + g[1].left <= MaxTools ELSE g[1].left = 0
  BY <1>1 DEF Waiting
<1>3. Len(h) <= Window /\ Orphaned(h) /\ r + h[1].left <= MaxTools
  BY <1>2 DEF Owed
<1>4. Len(h) \in Nat /\ Window \in Nat /\ MaxTools \in Nat /\ Len(h) >= Window /\ h[1].left \in Nat
  BY <1>3, FirstMessage, NumbersAssumption DEF Solid
<1>5. Len(h) = Window
  BY <1>3, <1>4
<1>6. Orphaned(g) <=> g[1].role = "tool"
  BY <1>1, FirstMessage
<1>7. CASE Len(h) = 1
  BY <1>1, <1>5, <1>6, <1>7, PlainType
<1>8. CASE Len(h) # 1
  <2>1. /\ g[1] = h[2] /\ (h[2].role = "tool" <=> h[1].left > 0)
        /\ (h[2].role = "tool" => h[2].left = h[1].left - 1)
        /\ (h[1].left = 0 => h[2].left = 0)
    BY <1>1, <1>3, <1>5, <1>8, SecondMessage
  <2>2. QED
    BY <1>3, <1>4, <1>6, <2>1
<1>9. QED
  BY <1>7, <1>8

(* A list that ends in the caller's text, sent without it and with it, is  *)
(* the list.                                                               *)
LEMMA FrontAgain ==
    ASSUME NEW h \in Seq(Message), Len(h) > 0, Last(h) = Plain("user")
    PROVE  Append(Front(h), Plain("user")) = h
<1> DEFINE f == Front(h)
           q == Append(f, Plain("user"))
<1>1. /\ f \in Seq(Message) /\ Len(f) = Len(h) - 1
      /\ \A i \in 1..(Len(h) - 1) : f[i] = h[i]
  BY FrontType
<1>2. Plain("user") \in Message /\ Len(h) \in Nat
  BY PlainType
<1> HIDE DEF f
<1>3. /\ q \in Seq(Message) /\ Len(q) = Len(h)
      /\ \A i \in 1..Len(f) : q[i] = f[i]
      /\ q[Len(f) + 1] = Plain("user")
  BY <1>1, <1>2
<1> HIDE DEF q
<1>4. ASSUME NEW i \in 1..Len(q) PROVE q[i] = h[i]
  <2>1. CASE i = Len(h)
    BY <1>1, <1>2, <1>3, <2>1 DEF Last
  <2>2. CASE i # Len(h)
    <3>1. i \in 1..Len(f) /\ i \in 1..(Len(h) - 1)
      BY <1>1, <1>2, <1>3, <2>2
    <3>2. QED
      BY <1>1, <1>3, <3>1
  <2>3. QED
    BY <2>1, <2>2
<1>5. QED
  BY <1>3, <1>4, SeqEqual DEF q, f

(* A solid list that ends in the caller's text stays solid with a block.   *)
LEMMA SolidBlock ==
    ASSUME NEW h, Solid(h), ~Orphaned(h), Last(h) = Plain("user"), NEW k \in 1..MaxTools
    PROVE  Solid(h \o Block(k)) /\ ~Orphaned(h \o Block(k))
<1> DEFINE g == h \o Block(k)
           n == Len(h)
<1>1. /\ h \in Seq(Message) /\ n \in Nat /\ n > 0 /\ Whole(h) /\ h[n] = Plain("user")
      /\ k \in Nat /\ k > 0 /\ k <= MaxTools /\ MaxTools \in Nat
  BY NumbersAssumption DEF Solid, Last
<1>2. /\ g \in Seq(Message) /\ Len(g) = n + k + 1
      /\ (\A i \in 1..n : g[i] = h[i]) /\ (\A i \in 1..(k + 1) : g[n + i] = Block(k)[i])
  BY <1>1, BlockAppended
<1>3. Whole(g)
  BY <1>1, BlockWhole
<1>4. /\ Block(k)[1].role = "assistant" /\ Block(k)[1].left = k
      /\ \A i \in 2..(k + 1) : Block(k)[i].role = "tool" /\ Block(k)[i].left = k + 1 - i
  BY BlockShape
<1>5. Plain("user").role # "tool"
  BY PlainType
<1>h. /\ \A i \in 1..n : h[i].role = "tool" => h[i].left < MaxTools
      /\ \A i \in 1..(n - 1) : h[i].role = "tool" /\ h[i].left = 0 => h[i + 1].left = 0
  BY DEF Solid
<1> HIDE DEF g, n
<1>6. ASSUME NEW i \in 1..Len(g), i > n
      PROVE  /\ i - n \in 1..(k + 1) /\ g[i] = Block(k)[i - n]
             /\ i - n = 1 => g[i].role # "tool"
             /\ i - n # 1 => g[i].left = k + 1 - (i - n)
  <2>1. i - n \in 1..(k + 1) /\ n + (i - n) = i
    BY <1>1, <1>2, <1>6
  <2>2. g[i] = Block(k)[i - n]
    BY <1>2, <2>1
  <2>3. i - n # 1 => i - n \in 2..(k + 1)
    BY <1>1, <2>1
  <2>4. QED
    BY <1>4, <2>1, <2>2, <2>3
<1>7. \A i \in 1..Len(g) : g[i].role = "tool" => g[i].left < MaxTools
  <2> SUFFICES ASSUME NEW i \in 1..Len(g), g[i].role = "tool" PROVE g[i].left < MaxTools
    OBVIOUS
  <2>1. CASE i <= n
    BY <1>1, <1>2, <1>h, <2>1
  <2>2. CASE i > n
    <3>1. g[i].left = k + 1 - (i - n) /\ i - n \in 1..(k + 1) /\ i - n # 1
      BY <1>6, <2>2
    <3>2. QED
      BY <1>1, <3>1
  <2>3. QED
    BY <1>1, <1>2, <2>1, <2>2
<1>8. \A i \in 1..(Len(g) - 1) : g[i].role = "tool" /\ g[i].left = 0 => g[i + 1].left = 0
  <2> SUFFICES ASSUME NEW i \in 1..(Len(g) - 1), g[i].role = "tool", g[i].left = 0
               PROVE  g[i + 1].left = 0
    OBVIOUS
  <2>0. i \in 1..Len(g)
    BY <1>1, <1>2
  <2>1. CASE i < n
    <3>1. i \in 1..(n - 1) /\ i \in 1..n /\ i + 1 \in 1..n
      BY <1>1, <2>1
    <3>2. QED
      BY <1>2, <1>h, <3>1
  <2>2. CASE i = n
    BY <1>1, <1>2, <1>5, <2>2
  <2>3. CASE i > n
    <3>1. k + 1 - (i - n) = 0
      BY <1>6, <2>0, <2>3
    <3>2. QED
      BY <1>1, <1>2, <2>3, <3>1
  <2>4. QED
    BY <1>1, <1>2, <2>1, <2>2, <2>3
<1>9. ~Orphaned(g)
  <2>1. 1 \in 1..n
    BY <1>1
  <2>2. g[1] = h[1]
    BY <1>2, <2>1
  <2>3. QED
    BY <1>1, <2>2 DEF Orphaned, n
<1>10. Len(g) > 0
  BY <1>1, <1>2
<1>11. QED
  BY <1>2, <1>3, <1>7, <1>8, <1>9, <1>10 DEF Solid, g

LEMMA AloneInit == Alone /\ Init => AInv
<1> SUFFICES ASSUME Init PROVE AInv
  OBVIOUS
<1>1. Inv /\ Calling
  BY InitHolds
<1>2. history = <<Plain("assistant")>> /\ Plain("assistant").role = "assistant"
  BY PlainType DEF Init
<1>3. /\ Len(history) = 1 /\ history \in Seq(Message) /\ history[1].role # "tool"
      /\ Whole(history) /\ ~Orphaned(history)
  BY <1>1, <1>2 DEF Inv, TypeOK, BlocksWhole, Orphaned
<1>4. Solid(history)
  BY <1>3 DEF Solid
<1>5. refusals = 0 /\ MaxTools \in Nat
  BY NumbersAssumption DEF Init
<1>6. Waiting(history, refusals)
  BY <1>5 DEF Waiting
<1>7. ASSUME NEW t \in Turns PROVE Where(turns[t])
  <2>1. turns[t].pc = "idle"
    BY AtType DEF Init, Pcs
  <2>2. QED
    BY <1>6, <2>1 DEF Where
<1>8. QED
  BY <1>1, <1>4, <1>5, <1>7 DEF AInv

LEMMA AloneStep == Alone /\ AInv /\ [Next]_vars => AInv'
<1> SUFFICES ASSUME Alone, AInv, [Next]_vars PROVE AInv'
  OBVIOUS
<1>1. Inv /\ Calling /\ Solid(history) /\ refusals <= MaxTools /\ \A t \in Turns : Where(turns[t])
  BY DEF AInv
<1>2. Inv' /\ Calling'
  BY <1>1, StepKeepsInv
<1>3. /\ TypeOK /\ history \in Seq(Message) /\ Len(history) > 0 /\ Whole(history)
      /\ refusals \in Nat /\ MaxTools \in Nat /\ MaxTools > 0
  BY <1>1, NumbersAssumption DEF Inv, TypeOK, BlocksWhole
<1>4. ASSUME NEW t \in Turns, NEW turn \in Turn, Move(t, turn), Where(turn)',
             Solid(history)', (refusals <= MaxTools)'
      PROVE  AInv'
  <2>1. turns'[t] = turn
    BY <1>3, <1>4, MoveType
  <2>2. \A s \in Turns : turns'[s] = turn
    BY <2>1 DEF Alone
  <2>3. \A s \in Turns : Where(turns[s])'
    BY <1>4, <2>2 DEF Where
  <2>4. QED
    BY <1>2, <1>4, <2>3 DEF AInv
<1>5. ASSUME UNCHANGED history PROVE Solid(history)'
  BY <1>1, <1>5
<1>6. CASE UNCHANGED vars
  BY <1>1, <1>2, <1>6 DEF AInv, vars, Where
<1>7. ASSUME NEW t \in Turns, Hear(t) PROVE AInv'
  <2>1. AddMessage("user", "words") /\ refusals' = refusals /\ Move(t, At("heard"))
    BY <1>7 DEF Hear, Alone
  <2>2. history' = Trim(Append(history, Plain("user")))
    BY <2>1 DEF AddMessage
  <2>3. Solid(history')
    BY <1>1, <2>2, Saying
  <2>4. Waiting(history, refusals)
    BY <1>1, <1>7 DEF Hear, Where
  <2>5. Facing(history', refusals)
    BY <1>1, <1>3, <2>2, <2>4, HearingFaces
  <2>6. At("heard") \in Turn /\ At("heard").pc = "heard"
    BY AtType DEF Pcs
  <2>7. Where(At("heard"))'
    BY <2>1, <2>5, <2>6 DEF Where
  <2>8. QED
    BY <1>1, <1>4, <2>1, <2>3, <2>6, <2>7
<1>8. ASSUME NEW t \in Turns, TooLong(t) PROVE AInv'
  <2>1. AddMessage("assistant", "words") /\ refusals' = 0 /\ Move(t, At("idle"))
    BY <1>8 DEF TooLong
  <2>2. history' = Trim(Append(history, Plain("assistant")))
    BY <2>1 DEF AddMessage
  <2>3. Solid(history')
    BY <1>1, <2>2, Saying
  <2>4. Waiting(history', 0)
    BY DEF Waiting
  <2>5. At("idle") \in Turn /\ At("idle").pc = "idle"
    BY AtType DEF Pcs
  <2>6. Where(At("idle"))'
    BY <2>1, <2>4, <2>5 DEF Where
  <2>7. QED
    BY <1>3, <1>4, <2>1, <2>3, <2>5, <2>6
<1>9. ASSUME NEW t \in Turns, FastPath(t) \/ ModelSpeaks(t) \/ ToolRaises(t) \/ FollowUp(t)
      PROVE  AInv'
  <2>1. UNCHANGED history /\ refusals' = 0 /\ \E pc \in {"reply", "idle"} : Move(t, At(pc))
    <3>1. CASE ToolRaises(t)
      BY <1>1, <3>1 DEF ToolRaises, Where
    <3>2. QED
      BY <1>9, <3>1 DEF FastPath, ModelSpeaks, FollowUp
  <2>2. PICK pc \in {"reply", "idle"} : Move(t, At(pc))
    BY <2>1
  <2>3. Waiting(history', 0) /\ Owed(history', 0)
    BY DEF Waiting, Owed
  <2>4. At(pc) \in Turn /\ At(pc).pc = pc
    BY AtType DEF Pcs
  <2>5. Where(At(pc))'
    BY <2>1, <2>3, <2>4 DEF Where
  <2>6. QED
    BY <1>3, <1>4, <1>5, <2>1, <2>2, <2>4, <2>5
<1>10. ASSUME NEW t \in Turns, Ask(t) PROVE AInv'
  <2> DEFINE u == [At("model") EXCEPT !.request = Append(Front(history), Plain("user"))]
  <2>1. UNCHANGED history /\ refusals' = refusals /\ Move(t, u)
    BY <1>10 DEF Ask
  <2>2. Facing(history, refusals)
    BY <1>1, <1>10 DEF Ask, Where
  <2>3. Append(Front(history), Plain("user")) = history
    BY <1>3, <2>2, FrontAgain DEF Facing
  <2>4. u \in Turn /\ u.pc = "model" /\ u.request = history
    BY <1>3, <2>3, SendType DEF Pcs
  <2> HIDE DEF u
  <2>5. PICK w \in Turn : Move(t, w) /\ w.pc = "model" /\ w.request = history
    BY <2>1, <2>4
  <2>6. Where(w)'
    BY <2>1, <2>2, <2>5 DEF Where
  <2>7. QED
    BY <1>1, <1>4, <1>5, <2>1, <2>5, <2>6
<1>11. ASSUME NEW t \in Turns, turns[t].pc = "model"
       PROVE  /\ Facing(history, refusals) /\ turns[t].request = history
              /\ Accepts(turns[t].request) \/ Orphaned(history)
  BY <1>1, <1>3, <1>11 DEF Where, Accepts
<1>12. ASSUME NEW t \in Turns, ModelFails(t) PROVE AInv'
  <2>1. /\ UNCHANGED history /\ Move(t, At("reply")) /\ turns[t].pc = "model"
        /\ refusals' = IF Accepts(turns[t].request) THEN 0 ELSE refusals + 1
    BY <1>12 DEF ModelFails
  <2>2. At("reply") \in Turn /\ At("reply").pc = "reply"
    BY AtType DEF Pcs
  <2>3. Owed(history, refusals') /\ refusals' <= MaxTools
    <3>1. CASE refusals' = 0
      BY <1>3, <3>1 DEF Owed
    <3>2. CASE refusals' # 0
      <4>1. Orphaned(history) /\ refusals' = refusals + 1
        BY <1>11, <2>1, <3>2
      <4>2. Len(history) <= Window /\ refusals + history[1].left + 1 <= MaxTools
        BY <1>11, <2>1, <4>1 DEF Facing
      <4>3. history[1].left \in Nat
        BY <1>1, FirstMessage
      <4>4. QED
        BY <1>3, <4>1, <4>2, <4>3 DEF Owed
    <3>3. QED
      BY <3>1, <3>2
  <2>4. Where(At("reply"))'
    BY <2>1, <2>2, <2>3 DEF Where
  <2>5. QED
    BY <1>4, <1>5, <2>1, <2>2, <2>3, <2>4
<1>13. ASSUME NEW t \in Turns, ModelCalls(t) PROVE AInv'
  <2>1. PICK k \in 1..MaxTools : Move(t, [At("tools") EXCEPT !.calls = k])
    BY <1>13 DEF ModelCalls
  <2> DEFINE u == [At("tools") EXCEPT !.calls = k]
  <2>2. u \in Turn /\ u.pc = "tools"
    BY CallsType
  <2>3. UNCHANGED history /\ refusals' = 0
    BY <1>13 DEF ModelCalls
  <2>4. ~Orphaned(history) /\ Last(history) = Plain("user")
    BY <1>11, <1>13 DEF ModelCalls, Accepts, Facing
  <2> HIDE DEF u
  <2>5. Where(u)'
    BY <2>2, <2>3, <2>4 DEF Where
  <2>6. QED
    BY <1>3, <1>4, <1>5, <2>1, <2>2, <2>3, <2>5 DEF u
<1>14. ASSUME NEW t \in Turns, Record(t) PROVE AInv'
  <2> DEFINE k == turns[t].calls
             longer == history \o Block(k)
             q == SubSeq(longer, 1, Len(longer) - k - 1) \o Block(k)
             u == [At("followup") EXCEPT !.request = q]
  <2>1. k \in 1..MaxTools
    BY <1>1, <1>14 DEF Calling, Record
  <2>2. history' = longer /\ refusals' = refusals /\ Move(t, u)
    BY <1>14 DEF Record
  <2>3. refusals = 0 /\ ~Orphaned(history) /\ Last(history) = Plain("user")
    BY <1>1, <1>14 DEF Record, Where
  <2>4. Solid(longer) /\ ~Orphaned(longer)
    BY <1>1, <2>1, <2>3, SolidBlock
  <2>5. q = longer
    BY <1>3, <2>1, BlockAppended
  <2>6. longer \in Seq(Message) /\ Accepts(longer)
    BY <2>4 DEF Solid, Accepts
  <2> HIDE DEF k, longer, q
  <2>7. u \in Turn /\ u.pc = "followup" /\ u.request = longer
    BY <2>5, <2>6, SendType DEF Pcs
  <2> HIDE DEF u
  <2>8. PICK w \in Turn : Move(t, w) /\ w.pc = "followup" /\ w.request = longer
    BY <2>2, <2>7
  <2>9. Where(w)'
    BY <2>2, <2>3, <2>6, <2>8 DEF Where
  <2>10. QED
    BY <1>1, <1>4, <2>2, <2>4, <2>8, <2>9
<1>15. ASSUME NEW t \in Turns, FollowUpFails(t) PROVE AInv'
  <2>1. /\ UNCHANGED history /\ Move(t, At("reply")) /\ refusals' = 0
    BY <1>1, <1>15 DEF FollowUpFails, Where
  <2>2. At("reply") \in Turn /\ At("reply").pc = "reply"
    BY AtType DEF Pcs
  <2>3. Where(At("reply"))'
    BY <2>1, <2>2 DEF Where, Owed
  <2>4. QED
    BY <1>3, <1>4, <1>5, <2>1, <2>2, <2>3
<1>16. ASSUME NEW t \in Turns, Reply(t) PROVE AInv'
  <2>1. /\ history' = Trim(Append(history, Plain("assistant"))) \/ history' = history
        /\ refusals' = refusals /\ Move(t, At("idle"))
    BY <1>16 DEF Reply, AddMessage
  <2>2. Owed(history, refusals)
    BY <1>1, <1>16 DEF Reply, Where
  <2>3. At("idle") \in Turn /\ At("idle").pc = "idle"
    BY AtType DEF Pcs
  <2>4. Solid(history') /\ Waiting(history', refusals)
    <3>1. CASE history' = history
      BY <1>1, <2>2, <3>1 DEF Owed, Waiting
    <3>2. CASE history' = Trim(Append(history, Plain("assistant")))
      BY <1>1, <1>3, <2>2, <3>2, Saying, ReplyingWaits
    <3>3. QED
      BY <2>1, <3>1, <3>2
  <2>5. Where(At("idle"))'
    BY <2>1, <2>3, <2>4 DEF Where
  <2>6. QED
    BY <1>1, <1>4, <2>1, <2>3, <2>4, <2>5
<1>17. QED
  BY <1>6, <1>7, <1>8, <1>9, <1>10, <1>12, <1>13, <1>14, <1>15, <1>16 DEF Next

(* Alone on the session, the caller is heard in full: the first request of *)
(* a turn is the history, and a request the API cannot take has nothing    *)
(* wrong with it but results whose call the window cut off.                *)
THEOREM HeardInFull == Alone /\ Spec => [](ModelHearsHistory /\ RefusedOnlyForOrphans)
<1>1. Alone /\ Init => AInv
  BY AloneInit
<1>2. Alone /\ AInv /\ [Next]_vars => AInv'
  BY AloneStep
<1>3. AInv => ModelHearsHistory /\ RefusedOnlyForOrphans
  <2> SUFFICES ASSUME AInv PROVE ModelHearsHistory /\ RefusedOnlyForOrphans
    OBVIOUS
  <2>1. Whole(history) /\ \A t \in Turns : Where(turns[t])
    BY DEF AInv, Inv, BlocksWhole
  <2>2. QED
    BY <2>1 DEF ModelHearsHistory, RefusedOnlyForOrphans, Asking, Sending, Where, Accepts
<1>4. Alone => []Alone
  OBVIOUS
<1>5. QED
  BY <1>1, <1>2, <1>3, <1>4, PTL DEF Spec

(* Alone on the session, no caller is refused in more turns in a row than  *)
(* one answer of the model may have tool calls.                            *)
THEOREM RefusalsComeToAnEnd == Alone /\ Spec => []RefusalsEnd
<1>1. Alone /\ Init => AInv
  BY AloneInit
<1>2. Alone /\ AInv /\ [Next]_vars => AInv'
  BY AloneStep
<1>3. AInv => RefusalsEnd
  BY DEF AInv, RefusalsEnd
<1>4. Alone => []Alone
  OBVIOUS
<1>5. QED
  BY <1>1, <1>2, <1>3, <1>4, PTL DEF Spec

(* Alone on the session, the caller is heard in full: the first request of *)
(* a turn is the history.                                                  *)
THEOREM HeardAlone == Alone /\ Spec => []ModelHearsHistory
BY HeardInFull, PTL

-----------------------------------------------------------------------------
(* The length of the history.  A block is past the window until the next   *)
(* text trims it; a coroutine appends at most one before it says something *)
(* itself, and hearing the caller trims.  So there are at most as many     *)
(* blocks past the window as coroutines that have appended theirs.         *)

Spoken == IsFiniteSet(Turns) /\ Texts \subseteq {"words"}
Behind == {t \in Turns : turns[t].pc \notin {"heard", "model", "tools"}}
Lag == Len(history) <= Window + (MaxTools + 1) * Cardinality(Behind)
LInv == Inv /\ Calling /\ Lag

LEMMA BlocksAddUp ==
    ASSUME NEW m \in Nat, NEW n \in Nat, NEW k \in Nat, n <= k
    PROVE  /\ m * n \in Nat /\ m * n <= m * k
           /\ m * (n + 1) = m * n + m
<1>1. PICK d \in Nat : k = n + d
  <2>1. k - n \in Nat /\ k = n + (k - n)
    OBVIOUS
  <2>2. QED
    BY <2>1
<1>2. m * n \in Nat /\ m * d \in Nat
  OBVIOUS
<1>3. m * (n + d) = m * n + m * d
  OBVIOUS
<1>4. m * (n + 1) = m * n + m
  OBVIOUS
<1>5. QED
  BY <1>1, <1>2, <1>3, <1>4

(* What trims leaves the window; what appends nothing and takes no         *)
(* coroutine out of Behind keeps the bound.                                *)
LEMMA LagKept ==
    ASSUME IsFiniteSet(Turns), TypeOK, Lag, turns' \in [Turns -> Turn], Len(history') \in Nat,
           \/ Len(history') <= Window
           \/ Len(history') <= Len(history) /\ Behind \subseteq Behind'
           \/ \E t \in Turns : /\ t \notin Behind
                               /\ Behind \cup {t} \subseteq Behind'
                               /\ Len(history') <= Len(history) + MaxTools + 1
    PROVE  Lag'
<1> DEFINE n == Cardinality(Behind)
           k == Cardinality(Behind')
           m == MaxTools + 1
<1>1. /\ IsFiniteSet(Behind) /\ IsFiniteSet(Behind')
      /\ n \in Nat /\ k \in Nat /\ m \in Nat /\ Window \in Nat /\ Len(history) \in Nat
  <2>1. Behind \subseteq Turns /\ Behind' \subseteq Turns
    BY DEF Behind
  <2>2. IsFiniteSet(Behind) /\ IsFiniteSet(Behind')
    BY <2>1, FS_Subset
  <2>3. QED
    BY <2>2, FS_CardinalityType, NumbersAssumption DEF TypeOK
<1>2. Len(history) <= Window + m * n
  BY DEF Lag
<1>3. (Len(history') <= Window + m * k) => Lag'
  BY DEF Lag
<1>4. CASE Len(history') <= Window
  <2>1. m * k \in Nat
    BY <1>1
  <2> HIDE DEF m, k
  <2>2. QED
    BY <1>1, <1>3, <1>4, <2>1
<1>5. CASE Len(history') <= Len(history) /\ Behind \subseteq Behind'
  <2>1. n <= k
    BY <1>1, <1>5, FS_Subset
  <2> HIDE DEF m, n, k
  <2>2. m * n \in Nat /\ m * k \in Nat /\ m * n <= m * k
    BY <1>1, <2>1, BlocksAddUp
  <2>3. QED
    BY <1>1, <1>2, <1>3, <1>5, <2>2
<1>6. CASE \E t \in Turns : /\ t \notin Behind
                            /\ Behind \cup {t} \subseteq Behind'
                            /\ Len(history') <= Len(history) + MaxTools + 1
  <2>1. PICK t \in Turns : /\ t \notin Behind
                           /\ Behind \cup {t} \subseteq Behind'
                           /\ Len(history') <= Len(history) + MaxTools + 1
    BY <1>6
  <2>2. Cardinality(Behind \cup {t}) = n + 1
    BY <1>1, <2>1, FS_AddElement
  <2>3. n + 1 <= k
    BY <1>1, <2>1, <2>2, FS_Subset
  <2>4. Len(history') <= Len(history) + m
    BY <1>1, <2>1, NumbersAssumption
  <2> HIDE DEF m, n, k
  <2>5. m * n \in Nat /\ m * (n + 1) = m * n + m
    BY <1>1, <2>3, BlocksAddUp
  <2>6. m * (n + 1) \in Nat /\ m * k \in Nat /\ m * (n + 1) <= m * k
    BY <1>1, <2>3, BlocksAddUp
  <2>7. QED
    BY <1>1, <1>2, <1>3, <2>4, <2>5, <2>6
<1>7. QED
  BY <1>4, <1>5, <1>6

(* A text of words leaves the history within its window.                   *)
LEMMA WordsTrim ==
    ASSUME TypeOK, NEW role \in {"user", "assistant"}, AddMessage(role, "words")
    PROVE  Len(history') <= Window
<1>1. Append(history, Plain(role)) \in Seq(Message) /\ Len(Append(history, Plain(role))) > 0
  BY PlainType DEF TypeOK
<1>2. history' = Trim(Append(history, Plain(role)))
  BY DEF AddMessage
<1>3. QED
  BY <1>1, <1>2, TrimKeeps

(* Where a coroutine goes in a step, and that the others stay.             *)
LEMMA Moves ==
    ASSUME TypeOK, NEW t \in Turns, NEW turn, Move(t, turn)
    PROVE  /\ turn.pc \notin {"heard", "model", "tools"} => Behind \cup {t} \subseteq Behind'
           /\ t \notin Behind => Behind \subseteq Behind'
<1>1. turns' = [turns EXCEPT ![t] = turn] /\ turns \in [Turns -> Turn]
  BY DEF Move, TypeOK
<1>2. turns'[t] = turn /\ \A s \in Turns : s # t => turns'[s] = turns[s]
  BY <1>1
<1>3. QED
  BY <1>2 DEF Behind

LEMMA LagStep == Spoken /\ LInv /\ [Next]_vars => LInv'
<1> SUFFICES ASSUME Spoken, LInv, [Next]_vars PROVE LInv'
  OBVIOUS
<1>1. Inv /\ Calling /\ TypeOK /\ Lag /\ IsFiniteSet(Turns)
  BY DEF LInv, Inv, Spoken
<1>2. Inv' /\ Calling' /\ turns' \in [Turns -> Turn] /\ Len(history') \in Nat
      /\ Len(history) \in Nat
  <2>1. Inv' /\ Calling'
    BY <1>1, StepKeepsInv
  <2>2. QED
    BY <1>1, <2>1 DEF Inv, TypeOK
<1>3. CASE UNCHANGED vars
  BY <1>1, <1>3 DEF vars, Lag, Behind, LInv, Inv, TypeOK, BlocksWhole, Calling
<1>4. ASSUME NEW t \in Turns, Hear(t) \/ TooLong(t) PROVE Lag'
  <2>1. AddMessage("user", "words") \/ AddMessage("assistant", "words")
        \/ \E text \in Texts : AddMessage("user", text)
    BY <1>4 DEF Hear, TooLong
  <2>2. AddMessage("user", "words") \/ AddMessage("assistant", "words")
    BY <2>1 DEF Spoken
  <2>3. Len(history') <= Window
    BY <1>1, <2>2, WordsTrim
  <2>4. QED
    BY <1>1, <1>2, <2>3, LagKept
<1>5. ASSUME NEW t \in Turns, UNCHANGED history, Behind \subseteq Behind' PROVE Lag'
  <2>1. Len(history') <= Len(history)
    BY <1>2, <1>5
  <2>2. QED
    BY <1>1, <1>2, <1>5, <2>1, LagKept
<1>6. ASSUME NEW t \in Turns, FastPath(t) \/ ModelFails(t) \/ ModelSpeaks(t)
                              \/ ToolRaises(t) \/ FollowUp(t) \/ FollowUpFails(t)
      PROVE  Lag'
  <2>1. UNCHANGED history /\ \E pc \in {"reply", "idle"} : Move(t, At(pc))
    BY <1>6 DEF FastPath, ModelFails, ModelSpeaks, ToolRaises, FollowUp, FollowUpFails
  <2>2. PICK pc \in {"reply", "idle"} : Move(t, At(pc))
    BY <2>1
  <2>3. At(pc).pc \notin {"heard", "model", "tools"}
    BY DEF At
  <2>4. Behind \subseteq Behind'
    BY <1>1, <2>2, <2>3, Moves
  <2>5. QED
    BY <1>5, <2>1, <2>4
<1>7. ASSUME NEW t \in Turns, Ask(t) \/ ModelCalls(t) PROVE Lag'
  <2>1. UNCHANGED history /\ turns[t].pc \in {"heard", "model"} /\ \E turn : Move(t, turn)
    BY <1>7 DEF Ask, ModelCalls
  <2>2. t \notin Behind
    BY <2>1 DEF Behind
  <2>3. Behind \subseteq Behind'
    BY <1>1, <2>1, <2>2, Moves
  <2>4. QED
    BY <1>5, <2>1, <2>3
<1>8. ASSUME NEW t \in Turns, Record(t) PROVE Lag'
  <2> DEFINE k == turns[t].calls
             q == SubSeq(history \o Block(k), 1, Len(history \o Block(k)) - k - 1) \o Block(k)
             turn == [At("followup") EXCEPT !.request = q]
  <2>1. k \in 1..MaxTools /\ turns[t].pc = "tools"
    BY <1>1, <1>8 DEF Calling, Record
  <2>2. history' = history \o Block(k) /\ Move(t, turn)
    BY <1>8 DEF Record
  <2>3. turn.pc = "followup"
    BY DEF At
  <2> HIDE DEF k, turn
  <2>4. t \notin Behind /\ Behind \cup {t} \subseteq Behind'
    BY <1>1, <2>1, <2>2, <2>3, Moves DEF Behind
  <2>5. Len(history') = Len(history) + k + 1
    BY <1>1, <2>1, <2>2, BlockAppended DEF TypeOK
  <2>6. Len(history') <= Len(history) + MaxTools + 1
    BY <1>2, <2>1, <2>5, NumbersAssumption
  <2>7. QED
    BY <1>1, <1>2, <2>4, <2>6, LagKept
<1>9. ASSUME NEW t \in Turns, Reply(t) PROVE Lag'
  <2>1. PICK text \in {"words", "blank"} : AddMessage("assistant", text)
    BY <1>9 DEF Reply
  <2>2. CASE text = "words"
    <3>1. Len(history') <= Window
      BY <1>1, <2>1, <2>2, WordsTrim
    <3>2. QED
      BY <1>1, <1>2, <3>1, LagKept
  <2>3. CASE text = "blank"
    <3>1. UNCHANGED history
      BY <2>1, <2>3 DEF AddMessage
    <3>2. Behind \subseteq Behind'
      BY <1>1, <1>9, Moves DEF Reply, At
    <3>3. QED
      BY <1>5, <3>1, <3>2
  <2>4. QED
    BY <2>2, <2>3
<1>10. Lag'
  BY <1>3, <1>4, <1>6, <1>7, <1>8, <1>9 DEF Next, LInv
<1>11. QED
  BY <1>2, <1>10 DEF LInv

(* When every text is spoken, the tool messages that escape the window are *)
(* at most one block for each coroutine, for any number of them.           *)
THEOREM HistoryIsBounded == Spoken /\ Spec => []HistoryBounded
<1>1. Spoken /\ Init => LInv
  <2> SUFFICES ASSUME Spoken, Init PROVE LInv
    OBVIOUS
  <2>1. Inv /\ Calling
    BY InitHolds
  <2>2. Len(history) = 1
    BY DEF Init
  <2>3. IsFiniteSet(Behind)
    <3>1. Behind \subseteq Turns
      BY DEF Behind
    <3>2. QED
      BY <3>1, FS_Subset DEF Spoken
  <2> DEFINE n == Cardinality(Behind)
             m == MaxTools + 1
  <2>4. n \in Nat /\ m \in Nat
    BY <2>3, FS_CardinalityType, NumbersAssumption
  <2> HIDE DEF n
  <2>5. m * n \in Nat
    BY <2>4
  <2>6. 1 <= Window + m * n
    BY <2>5, NumbersAssumption
  <2>7. QED
    BY <2>1, <2>2, <2>6 DEF LInv, Lag, n
<1>2. Spoken /\ LInv /\ [Next]_vars => LInv'
  BY LagStep
<1>3. Spoken /\ LInv => HistoryBounded
  <2> SUFFICES ASSUME Spoken, LInv PROVE HistoryBounded
    OBVIOUS
  <2> DEFINE n == Cardinality(Behind)
             k == Cardinality(Turns)
             m == MaxTools + 1
  <2>1. Behind \subseteq Turns /\ IsFiniteSet(Turns)
    BY DEF Behind, Spoken
  <2>2. n \in Nat /\ k \in Nat /\ n <= k /\ m \in Nat /\ Window \in Nat
    BY <2>1, FS_Subset, FS_CardinalityType, NumbersAssumption
  <2>3. Len(history) \in Nat /\ Len(history) <= Window + m * n
    BY DEF LInv, Lag, Inv, TypeOK
  <2> HIDE DEF n, k, m
  <2>4. m * n \in Nat /\ m * k \in Nat /\ m * n <= m * k
    BY <2>2, BlocksAddUp
  <2>5. Len(history) <= Window + m * k
    BY <2>2, <2>3, <2>4
  <2>6. QED
    BY <2>5 DEF HistoryBounded, k, m
<1>4. Spoken => []Spoken
  OBVIOUS
<1>5. QED
  BY <1>1, <1>2, <1>3, <1>4, PTL DEF Spec
=============================================================================
