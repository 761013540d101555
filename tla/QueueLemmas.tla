---------------------------- MODULE QueueLemmas ----------------------------
(* A FIFO queue without duplicates, seen as a set. *)
EXTENDS Naturals, Sequences, TLAPS

Elements(s) == {s[i] : i \in 1..Len(s)}
Distinct(s) == \A i, j \in 1..Len(s) : s[i] = s[j] => i = j

\* What push_back() and pop_front() do to the elements of a queue of std::deque
\* and to the absence of duplicates in it.
LEMMA QueueOps ==
  ASSUME NEW S, NEW s \in Seq(S), Distinct(s)
  PROVE  /\ \A x \in S : /\ Elements(Append(s, x)) = Elements(s) \cup {x}
                         /\ x \notin Elements(s) => Distinct(Append(s, x))
         /\ s # <<>> => /\ Elements(Tail(s)) = Elements(s) \ {Head(s)}
                        /\ Head(s) \in Elements(s)
                        /\ Distinct(Tail(s))
<1>1. ASSUME NEW x \in S
      PROVE  /\ Elements(Append(s, x)) = Elements(s) \cup {x}
             /\ x \notin Elements(s) => Distinct(Append(s, x))
  <2>1. /\ Len(Append(s, x)) = Len(s) + 1
        /\ \A i \in 1..Len(s) : Append(s, x)[i] = s[i]
        /\ Append(s, x)[Len(s) + 1] = x
    OBVIOUS
  <2> DEFINE t == Append(s, x)
  <2> HIDE DEF t
  <2>2. Len(s) \in Nat /\ Len(t) = Len(s) + 1 /\ t[Len(s) + 1] = x
        /\ \A i \in 1..Len(s) : t[i] = s[i]
    BY <2>1 DEF t
  <2>3. Elements(t) = Elements(s) \cup {x}
    BY <2>2 DEF Elements
  <2>4. x \notin Elements(s) => Distinct(t)
    BY <2>2 DEF Distinct, Elements
  <2>5. QED
    BY <2>3, <2>4 DEF t
<1>2. ASSUME s # <<>>
      PROVE  /\ Elements(Tail(s)) = Elements(s) \ {Head(s)}
             /\ Head(s) \in Elements(s)
             /\ Distinct(Tail(s))
  <2>1. /\ Len(s) \in Nat \ {0} /\ Len(Tail(s)) = Len(s) - 1
        /\ \A i \in 1..(Len(s) - 1) : Tail(s)[i] = s[i + 1]
        /\ Head(s) = s[1]
    BY <1>2
  <2> DEFINE t == Tail(s)
  <2> HIDE DEF t
  <2>2. /\ Len(s) \in Nat \ {0} /\ Len(t) = Len(s) - 1
        /\ \A i \in 1..(Len(s) - 1) : t[i] = s[i + 1]
        /\ \A i \in 2..Len(s) : i - 1 \in 1..Len(t) /\ t[i - 1] = s[i]
        /\ Head(s) = s[1]
    BY <2>1 DEF t
  <2>3. Elements(t) = Elements(s) \ {Head(s)}
    <3>1. ASSUME NEW i \in 1..Len(t) PROVE t[i] \in Elements(s) \ {Head(s)}
      BY <2>2 DEF Elements, Distinct
    <3>2. ASSUME NEW i \in 1..Len(s), s[i] # Head(s) PROVE s[i] \in Elements(t)
      <4>1. i \in 2..Len(s)
        BY <2>2, <3>2
      <4>2. QED
        BY <2>2, <4>1 DEF Elements
    <3>3. QED
      BY <3>1, <3>2 DEF Elements
  <2>4. Distinct(t) /\ Head(s) \in Elements(s)
    BY <2>2 DEF Elements, Distinct
  <2>5. QED
    BY <2>3, <2>4 DEF t
<1>3. QED
  BY <1>1, <1>2

\* Appending an element of the right kind keeps the queue well typed.
LEMMA AppendInSeq ==
  ASSUME NEW S, NEW s \in Seq(S), NEW x \in S
  PROVE  Append(s, x) \in Seq(S)
  OBVIOUS

=============================================================================
