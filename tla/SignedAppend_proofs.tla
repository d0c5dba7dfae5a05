-------------------------- MODULE SignedAppend_proofs --------------------------
(***************************************************************************)
(* The signatures of append_links, for batches of every size: the records  *)
(* the SDK computes make the precompile read, in front of every state, the *)
(* signature, the owner and the hash that belong to it, so that every      *)
(* state that came in such a pair was signed by the owner before it.       *)
(*                                                                         *)
(* The argument: the chunks of append_links' data do not overlap, so that  *)
(* what is read at the place of one is that one; that a record's message   *)
(* is the hash of the state the record is for comes from the program,      *)
(* which compares every predecessor hash and the last hash itself.         *)
(***************************************************************************)
EXTENDS SignedAppend, WellFoundedInduction, TLAPS

\* A sequence by its length.
IsList(s, n) == n \in Nat /\ DOMAIN s = 1..n /\ s = [i \in 1..n |-> s[i]]

\* A state of the coin: its fields are there and name it.
OfTheCoin(s) ==
  DOMAIN s = {"serial", "value", "owner", "prev"} /\ s.serial = Serial /\ s.value = Value

\* What the states, the pairs they came in and the commitments have in common.
AppendInv ==
  /\ \E n \in Nat \ {0} : IsList(states, n)
  /\ \A i \in 1..Len(states) : OfTheCoin(states[i])
  /\ PairsAreSigned
  /\ CommitsResolve
  /\ paired \subseteq 2..Len(states)
  /\ \A c \in checked : c[1] \in 1..(Len(states) - 1)
-----------------------------------------------------------------------------
\* Lists have a length, and concatenation puts one behind the other.
LEMMA ListLen == ASSUME NEW s, NEW n, IsList(s, n) PROVE Len(s) = n
BY DEF IsList

\* r is s, of m elements, with t, of n elements, behind it.
Joined(r, s, m, t, n) ==
  /\ IsList(r, m + n)
  /\ \A i \in 1..m : r[i] = s[i]
  /\ \A i \in 1..n : r[m + i] = t[i]

\* Two lists joined: their elements and their length.
LEMMA ListConcat ==
  ASSUME NEW s, NEW m, NEW t, NEW n, IsList(s, m), IsList(t, n)
  PROVE  Joined(s \o t, s, m, t, n)
<1> DEFINE T == {s[i] : i \in 1..m} \cup {t[i] : i \in 1..n}
<1>1. s \in [1..m -> T] /\ t \in [1..n -> T] /\ m \in Nat /\ n \in Nat
      BY DEF IsList
<1> HIDE DEF T
<1>2. s \in Seq(T) /\ t \in Seq(T) /\ Len(s) = m /\ Len(t) = n
      BY <1>1
<1>3. s \o t \in Seq(T) /\ Len(s \o t) = m + n
      BY <1>1, <1>2
<1>4. IsList(s \o t, m + n)
      BY <1>1, <1>3 DEF IsList
<1>5. \A i \in 1..m : (s \o t)[i] = s[i]
      BY <1>1, <1>2
<1>6. \A i \in 1..n : (s \o t)[m + i] = t[i]
      BY <1>1, <1>2
<1> QED BY <1>4, <1>5, <1>6 DEF Joined

\* A chunk that is the only one at its place is what is read there.
LEMMA ReadsOne ==
  ASSUME NEW data, NEW off, NEW width, NEW x, <<off, width, x>> \in data,
         \A c \in data : c[1] = off /\ c[2] = width => c[3] = x
  PROVE  ReadAt(data, off, width) = x
<1> DEFINE here == {c \in data : c[1] = off /\ c[2] = width}
<1>1. <<off, width, x>> \in here
      OBVIOUS
<1>2. here # {}
      BY <1>1
<1>3. (CHOOSE c \in here : TRUE) \in here
      BY <1>1
<1>4. (CHOOSE c \in here : TRUE)[3] = x
      BY <1>3
<1> QED BY <1>2, <1>4 DEF ReadAt

\* The chunks of append_links' data, one by one.
LEMMA Chunks ==
  ASSUME NEW h, NEW n \in Nat, NEW links, DOMAIN links = 1..n, Len(links) = n, NEW l,
         NEW c \in AppendData(h, links, l)
  PROVE  \/ c = <<8, 32, Serial>> \/ c = <<40, 32, h>> \/ c = <<72, 4, n>>
         \/ c = <<76 + n * 168, 32, l>>
         \/ \E i \in 1..n : \/ c = <<76 + (i - 1) * 168, 32, links[i].state.serial>>
                            \/ c = <<76 + (i - 1) * 168 + 32, 8, links[i].state.value>>
                            \/ c = <<76 + (i - 1) * 168 + 40, 32, links[i].state.owner>>
                            \/ c = <<76 + (i - 1) * 168 + 72, 32, links[i].state.prev>>
                            \/ c = <<76 + (i - 1) * 168 + 104, 64, links[i].sig>>
<1>1. CASE c \in UNION {LinkChunks(links[i], LinkAt(i)) : i \in DOMAIN links}
      <2>1. PICK i \in 1..n : c \in LinkChunks(links[i], LinkAt(i))
            BY <1>1
      <2>2. LinkAt(i) = 76 + (i - 1) * 168
            BY DEF LinkAt
      <2> QED BY <2>1, <2>2 DEF LinkChunks
<1>2. CASE c \in {<<8, 32, Serial>>, <<8 + 32, 32, h>>, <<8 + 32 + 32, 4, Len(links)>>,
                  <<LinkAt(Len(links) + 1), 32, l>>}
      <2>1. LinkAt(n + 1) = 76 + n * 168
            BY DEF LinkAt
      <2> QED BY <1>2, <2>1
<1> QED BY <1>1, <1>2 DEF AppendData

\* The chunks the SDK's records name are in the data.
Holds(D, h, n, links, l) ==
  /\ <<40, 32, h>> \in D
  /\ <<76 + n * 168, 32, l>> \in D
  /\ \A i \in 1..n : /\ <<76 + (i - 1) * 168 + 40, 32, links[i].state.owner>> \in D
                     /\ <<76 + (i - 1) * 168 + 72, 32, links[i].state.prev>> \in D
                     /\ <<76 + (i - 1) * 168 + 104, 64, links[i].sig>> \in D

\* The chunks of a batch are where AppendData puts them.
LEMMA ChunksThere ==
  ASSUME NEW h, NEW n \in Nat, NEW links, DOMAIN links = 1..n, Len(links) = n, NEW l
  PROVE  Holds(AppendData(h, links, l), h, n, links, l)
<1>1. LinkAt(n + 1) = 76 + n * 168 /\ \A i \in 1..n : LinkAt(i) = 76 + (i - 1) * 168
      BY DEF LinkAt
<1>2. <<40, 32, h>> \in AppendData(h, links, l) /\ <<76 + n * 168, 32, l>> \in AppendData(h, links, l)
      BY <1>1 DEF AppendData
<1>3. ASSUME NEW i \in 1..n
      PROVE  /\ <<76 + (i - 1) * 168 + 40, 32, links[i].state.owner>> \in AppendData(h, links, l)
             /\ <<76 + (i - 1) * 168 + 72, 32, links[i].state.prev>> \in AppendData(h, links, l)
             /\ <<76 + (i - 1) * 168 + 104, 64, links[i].sig>> \in AppendData(h, links, l)
      <2>1. LinkChunks(links[i], LinkAt(i)) \subseteq AppendData(h, links, l)
            BY DEF AppendData
      <2>2. /\ <<LinkAt(i) + 40, 32, links[i].state.owner>> \in LinkChunks(links[i], LinkAt(i))
            /\ <<LinkAt(i) + 72, 32, links[i].state.prev>> \in LinkChunks(links[i], LinkAt(i))
            /\ <<LinkAt(i) + 104, 64, links[i].sig>> \in LinkChunks(links[i], LinkAt(i))
            BY <1>1 DEF LinkChunks
      <2> QED BY <1>1, <2>1, <2>2
<1> QED BY <1>2, <1>3 DEF Holds

\* What is read at the places the SDK's records name.
ReadsRight(D, h, n, links, l) ==
  /\ ReadAt(D, 40, 32) = h
  /\ ReadAt(D, 76 + n * 168, 32) = l
  /\ \A i \in 1..n :
       /\ ReadAt(D, 76 + (i - 1) * 168 + 40, 32) = links[i].state.owner
       /\ ReadAt(D, 76 + (i - 1) * 168 + 72, 32) = links[i].state.prev
       /\ ReadAt(D, 76 + (i - 1) * 168 + 104, 64) = links[i].sig

\* The precompile reads in append_links' data what belongs to each link.
LEMMA Reads ==
  ASSUME NEW h, NEW n \in Nat, NEW links, DOMAIN links = 1..n, Len(links) = n, NEW l
  PROVE  ReadsRight(AppendData(h, links, l), h, n, links, l)
<1> DEFINE D == AppendData(h, links, l)
           At(i, o, w, x) == <<76 + (i - 1) * 168 + o, w, x>>
<1>1. ASSUME NEW c \in D
      PROVE  \/ c = <<8, 32, Serial>> \/ c = <<40, 32, h>> \/ c = <<72, 4, n>>
             \/ c = <<76 + n * 168, 32, l>>
             \/ \E i \in 1..n : \/ c = At(i, 0, 32, links[i].state.serial)
                                \/ c = At(i, 32, 8, links[i].state.value)
                                \/ c = At(i, 40, 32, links[i].state.owner)
                                \/ c = At(i, 72, 32, links[i].state.prev)
                                \/ c = At(i, 104, 64, links[i].sig)
      <2>1. \/ c = <<8, 32, Serial>> \/ c = <<40, 32, h>> \/ c = <<72, 4, n>>
            \/ c = <<76 + n * 168, 32, l>>
            \/ \E i \in 1..n : \/ c = <<76 + (i - 1) * 168, 32, links[i].state.serial>>
                               \/ c = <<76 + (i - 1) * 168 + 32, 8, links[i].state.value>>
                               \/ c = <<76 + (i - 1) * 168 + 40, 32, links[i].state.owner>>
                               \/ c = <<76 + (i - 1) * 168 + 72, 32, links[i].state.prev>>
                               \/ c = <<76 + (i - 1) * 168 + 104, 64, links[i].sig>>
            BY Chunks
      <2>2. \A i \in 1..n : 76 + (i - 1) * 168 + 0 = 76 + (i - 1) * 168
            OBVIOUS
      <2> QED BY <2>1, <2>2
<1>2. /\ <<40, 32, h>> \in D /\ <<76 + n * 168, 32, l>> \in D
      /\ \A i \in 1..n : /\ <<76 + (i - 1) * 168 + 40, 32, links[i].state.owner>> \in D
                         /\ <<76 + (i - 1) * 168 + 72, 32, links[i].state.prev>> \in D
                         /\ <<76 + (i - 1) * 168 + 104, 64, links[i].sig>> \in D
      <2>1. Holds(D, h, n, links, l)
            BY ChunksThere
      <2> HIDE DEF D
      <2> QED BY <2>1 DEF Holds
<1> HIDE DEF D
<1>3. ReadAt(D, 40, 32) = h
      <2>1. ASSUME NEW c \in D, c[1] = 40, c[2] = 32 PROVE c[3] = h
            BY <1>1, <2>1
      <2> QED BY <1>2, <2>1, ReadsOne
<1>4. ReadAt(D, 76 + n * 168, 32) = l
      <2>1. ASSUME NEW c \in D, c[1] = 76 + n * 168, c[2] = 32 PROVE c[3] = l
            BY <1>1, <2>1
      <2> QED BY <1>2, <2>1, ReadsOne
<1>5. ASSUME NEW i \in 1..n
      PROVE  /\ ReadAt(D, 76 + (i - 1) * 168 + 40, 32) = links[i].state.owner
             /\ ReadAt(D, 76 + (i - 1) * 168 + 72, 32) = links[i].state.prev
             /\ ReadAt(D, 76 + (i - 1) * 168 + 104, 64) = links[i].sig
      <2>1. ASSUME NEW c \in D, c[1] = 76 + (i - 1) * 168 + 40, c[2] = 32
            PROVE  c[3] = links[i].state.owner
            BY <1>1, <2>1
      <2>2. ASSUME NEW c \in D, c[1] = 76 + (i - 1) * 168 + 72, c[2] = 32
            PROVE  c[3] = links[i].state.prev
            BY <1>1, <2>2
      <2>3. ASSUME NEW c \in D, c[1] = 76 + (i - 1) * 168 + 104, c[2] = 64
            PROVE  c[3] = links[i].sig
            BY <1>1, <2>3
      <2>4. ReadAt(D, 76 + (i - 1) * 168 + 40, 32) = links[i].state.owner
            <3> DEFINE off == 76 + (i - 1) * 168 + 40
            <3>1. <<off, 32, links[i].state.owner>> \in D
                  BY <1>2
            <3>2. \A c \in D : c[1] = off /\ c[2] = 32 => c[3] = links[i].state.owner
                  BY <2>1
            <3> HIDE DEF off
            <3>3. ReadAt(D, off, 32) = links[i].state.owner
                  BY <3>1, <3>2, ReadsOne
            <3> QED BY <3>3 DEF off
      <2>5. ReadAt(D, 76 + (i - 1) * 168 + 72, 32) = links[i].state.prev
            <3> DEFINE off == 76 + (i - 1) * 168 + 72
            <3>1. <<off, 32, links[i].state.prev>> \in D
                  BY <1>2
            <3>2. \A c \in D : c[1] = off /\ c[2] = 32 => c[3] = links[i].state.prev
                  BY <2>2
            <3> HIDE DEF off
            <3>3. ReadAt(D, off, 32) = links[i].state.prev
                  BY <3>1, <3>2, ReadsOne
            <3> QED BY <3>3 DEF off
      <2>6. ReadAt(D, 76 + (i - 1) * 168 + 104, 64) = links[i].sig
            <3> DEFINE off == 76 + (i - 1) * 168 + 104
            <3>1. <<off, 64, links[i].sig>> \in D
                  BY <1>2
            <3>2. \A c \in D : c[1] = off /\ c[2] = 64 => c[3] = links[i].sig
                  BY <2>3
            <3> HIDE DEF off
            <3>3. ReadAt(D, off, 64) = links[i].sig
                  BY <3>1, <3>2, ReadsOne
            <3> QED BY <3>3 DEF off
      <2> QED BY <2>4, <2>5, <2>6
<1> QED BY <1>3, <1>4, <1>5 DEF D, ReadsRight

\* The owner in front of a link, and what its signature is over.
OwnerBefore(h, links, i) == IF i = 1 THEN h ELSE links[i - 1].state.owner
Message(links, l, n, i) == IF i < n THEN links[i + 1].state.prev ELSE l

\* The precompile accepts the records of the SDK exactly if every link is signed
\* by the owner in front of it, over the hash the data carries for it.
LEMMA PrecompileSigned ==
  ASSUME NEW h, NEW n \in Nat, NEW links, DOMAIN links = 1..n, Len(links) = n, NEW l
  PROVE  Precompile(AppendData(h, links, l), Records(n)) <=>
           \A i \in 1..n :
             /\ links[i].sig # Unread
             /\ links[i].sig[1] = [by |-> OwnerBefore(h, links, i), msg |-> Message(links, l, n, i)]
<1> DEFINE D == AppendData(h, links, l)
<1> HIDE DEF D
<1>1. /\ ReadAt(D, 40, 32) = h
      /\ ReadAt(D, 76 + n * 168, 32) = l
      /\ \A i \in 1..n : /\ ReadAt(D, 76 + (i - 1) * 168 + 40, 32) = links[i].state.owner
                         /\ ReadAt(D, 76 + (i - 1) * 168 + 72, 32) = links[i].state.prev
                         /\ ReadAt(D, 76 + (i - 1) * 168 + 104, 64) = links[i].sig
      <2>1. ReadsRight(D, h, n, links, l)
            BY Reads DEF D
      <2> QED BY <2>1 DEF ReadsRight
<1> DEFINE R == Records(n)
           S(i) == ReadAt(D, R[i].sig, 64)
           Good(i) == /\ S(i) # Unread
                      /\ S(i)[1] = [by |-> ReadAt(D, R[i].pub, 32), msg |-> ReadAt(D, R[i].msg, 32)]
<1>2. DOMAIN R = 1..n /\
      \A i \in 1..n :
        /\ R[i].sig = 76 + (i - 1) * 168 + 104
        /\ R[i].pub = IF i = 1 THEN 40 ELSE 76 + (i - 2) * 168 + 40
        /\ R[i].msg = IF i < n THEN 76 + i * 168 + 72 ELSE 76 + n * 168
      BY DEF Records
<1>3. Precompile(D, R) <=> \A i \in 1..n : Good(i)
      <2>1. Precompile(D, R) <=> \A i \in DOMAIN R : Good(i)
            BY DEF Precompile
      <2> QED BY <1>2, <2>1
<1> HIDE DEF R
<1>4. ASSUME NEW i \in 1..n
      PROVE  /\ S(i) = links[i].sig
             /\ ReadAt(D, R[i].pub, 32) = OwnerBefore(h, links, i)
             /\ ReadAt(D, R[i].msg, 32) = Message(links, l, n, i)
      <2>1. S(i) = links[i].sig
            BY <1>1, <1>2
      <2>3. ASSUME i # 1 PROVE ReadAt(D, R[i].pub, 32) = OwnerBefore(h, links, i)
            <3>1. i - 1 \in 1..n /\ R[i].pub = 76 + ((i - 1) - 1) * 168 + 40
                  BY <1>2, <2>3
            <3> QED BY <1>1, <2>3, <3>1 DEF OwnerBefore
      <2>4. ASSUME i < n PROVE ReadAt(D, R[i].msg, 32) = Message(links, l, n, i)
            <3>1. i + 1 \in 1..n /\ R[i].msg = 76 + ((i + 1) - 1) * 168 + 72
                  BY <1>2, <2>4
            <3> QED BY <1>1, <2>4, <3>1 DEF Message
      <2>5. ASSUME ~(i < n) PROVE ReadAt(D, R[i].msg, 32) = Message(links, l, n, i)
            BY <1>1, <1>2, <2>5 DEF Message
      <2>6. ReadAt(D, R[i].pub, 32) = OwnerBefore(h, links, i)
            <3>1. CASE i = 1
                  BY <1>1, <1>2, <3>1 DEF OwnerBefore
            <3> QED BY <2>3, <3>1
      <2> QED BY <2>1, <2>4, <2>5, <2>6
<1>5. ASSUME NEW i \in 1..n
      PROVE  Good(i) <=> /\ links[i].sig # Unread
                         /\ links[i].sig[1] = [by |-> OwnerBefore(h, links, i),
                                               msg |-> Message(links, l, n, i)]
      BY <1>4
<1> QED BY <1>3, <1>5 DEF D, R
-----------------------------------------------------------------------------
\* Induction over an interval, for sets: the least number left out would be the
\* successor of one that is not.
LEMMA IntervalInduction ==
  ASSUME NEW n \in Nat, NEW B, 0 \in B, \A i \in 1..n : i - 1 \in B => i \in B
  PROVE  0..n \subseteq B
<1> DEFINE Bad == {k \in Nat : k <= n /\ k \notin B}
<1> SUFFICES ASSUME Bad # {} PROVE FALSE
    OBVIOUS
<1>1. PICK k \in Bad : \A j \in Bad : ~(j < k)
      <2>1. PICK k \in Bad : \A j \in Bad : <<j, k>> \notin OpToRel(<, Nat)
            BY NatLessThanWellFounded, WFMin
      <2> QED BY <2>1 DEF OpToRel
<1>2. k \in 1..n /\ k - 1 \in Nat /\ k - 1 <= n /\ k - 1 < k
      OBVIOUS
<1>3. k - 1 \in B
      BY <1>1, <1>2
<1> QED BY <1>2, <1>3

\* The states of a hand-over by the owners given, from a state on.
Handed(f, k, a, owners) ==
  f = [i \in 0..k |-> IF i = 0 THEN a ELSE NextState(f[i - 1], owners[i])]

\* There is such a chain of every length.
LEMMA HandedExists ==
  ASSUME NEW n \in Nat, NEW a, NEW owners
  PROVE  \E f : Handed(f, n, a, owners)
<1> DEFINE B == {k \in Nat : \E f : Handed(f, k, a, owners)}
<1>1. 0 \in B
      <2> DEFINE f == [i \in 0..0 |-> a]
      <2>1. Handed(f, 0, a, owners)
            BY DEF Handed
      <2> QED BY <2>1
<1>2. ASSUME NEW k \in 1..n, k - 1 \in B PROVE k \in B
      <2>1. PICK f : Handed(f, k - 1, a, owners)
            BY <1>2
      <2> DEFINE g == [i \in 0..k |-> IF i = k THEN NextState(f[k - 1], owners[k]) ELSE f[i]]
      <2>2. \A i \in 0..(k - 1) : f[i] = IF i = 0 THEN a ELSE NextState(f[i - 1], owners[i])
            BY <2>1 DEF Handed
      <2>3. ASSUME NEW i \in 0..k PROVE g[i] = IF i = 0 THEN a ELSE NextState(g[i - 1], owners[i])
            <3>1. i # 0 => i - 1 \in 0..k /\ i - 1 # k
                  OBVIOUS
            <3>2. CASE i = k
                  BY <3>1, <3>2
            <3>3. CASE i # k
                  BY <2>2, <3>1, <3>3
            <3> QED BY <3>2, <3>3
      <2>4. g = [i \in 0..k |-> g[i]]
            OBVIOUS
      <2> HIDE DEF g
      <2>5. Handed(g, k, a, owners)
            BY <2>3, <2>4 DEF Handed
      <2> QED BY <2>5
<1> HIDE DEF B
<1>3. n \in B
      BY <1>1, <1>2, IntervalInduction
<1> QED BY <1>3 DEF B

\* The next state of a coin is of the coin and follows.
LEMMA NextFields ==
  ASSUME NEW s, OfTheCoin(s), NEW w, NEW p
  PROVE  /\ OfTheCoin(NextState(s, w))
         /\ NextState(s, w).owner = w
         /\ Follows(NextState(s, w), s, Serial, Value)
         /\ OfTheCoin([NextState(s, w) EXCEPT !.prev = p])
<1> DEFINE t == NextState(s, w)
<1>1. /\ DOMAIN t = {"serial", "value", "owner", "prev"} /\ t.serial = Serial /\ t.value = Value
      /\ t.owner = w /\ t.prev = StateHash(s)
      BY DEF NextState, OfTheCoin
<1> HIDE DEF t
<1>2. OfTheCoin([t EXCEPT !.prev = p])
      BY <1>1 DEF OfTheCoin
<1>3. OfTheCoin(t) /\ Follows(t, s, Serial, Value)
      BY <1>1 DEF OfTheCoin, Follows
<1> QED BY <1>1, <1>2, <1>3 DEF t

\* A list with one more element, and one without its first.
Extended(r, s, m, x) ==
  IsList(r, m + 1) /\ (\A i \in 1..m : r[i] = s[i]) /\ r[m + 1] = x

\* A list with one more element.
LEMMA ListAppend ==
  ASSUME NEW s, NEW m, IsList(s, m), NEW x
  PROVE  Extended(Append(s, x), s, m, x)
<1> DEFINE T == {s[i] : i \in 1..m} \cup {x}
<1>1. s \in [1..m -> T] /\ x \in T /\ m \in Nat
      BY DEF IsList
<1> HIDE DEF T
<1>2. s \in Seq(T) /\ Len(s) = m
      BY <1>1
<1>3. Append(s, x) \in Seq(T) /\ Len(Append(s, x)) = m + 1
      BY <1>1, <1>2
<1>4. IsList(Append(s, x), m + 1)
      BY <1>1, <1>3 DEF IsList
<1>5. (\A i \in 1..m : Append(s, x)[i] = s[i]) /\ Append(s, x)[m + 1] = x
      BY <1>1, <1>2
<1> QED BY <1>4, <1>5 DEF Extended

\* Tail gives the elements behind the first.
LEMMA ListTail ==
  ASSUME NEW s, NEW m \in Nat, IsList(s, m + 1)
  PROVE  \A i \in 1..m : Tail(s)[i] = s[i + 1]
<1> DEFINE T == {s[i] : i \in 1..(m + 1)}
<1>1. s \in [1..(m + 1) -> T]
      BY DEF IsList
<1> HIDE DEF T
<1>2. s \in Seq(T) /\ Len(s) = m + 1 /\ s # <<>>
      BY <1>1
<1> QED BY <1>2

\* The chains callers pass are of k states behind the last one, all of the coin.
Claimed(s, w, p) == [NextState(s, w) EXCEPT !.prev = p]
Longer(c) ==
  {Append(c, Claimed(Last(c), w, p)) :
     w \in Holders, p \in {StateHash(Last(c)), StateHash(states[1])}}

ChainOk(c, k) == IsList(c, k + 1) /\ \A i \in 1..(k + 1) : OfTheCoin(c[i])

\* One state more, of the coin like the others.
LEMMA LongerOk ==
  ASSUME NEW k \in Nat, NEW c, ChainOk(c, k), NEW d \in Longer(c)
  PROVE  ChainOk(d, k + 1)
<1>1. PICK w \in Holders, p \in {StateHash(Last(c)), StateHash(states[1])} :
        d = Append(c, Claimed(Last(c), w, p))
      BY DEF Longer
<1> DEFINE x == Claimed(Last(c), w, p)
<1>2. Len(c) = k + 1
      BY ListLen DEF ChainOk
<1>3. OfTheCoin(Last(c))
      BY <1>2 DEF ChainOk, Last
<1>4. OfTheCoin(x)
      BY <1>3, NextFields DEF Claimed
<1> HIDE DEF x
<1>5. d = Append(c, x)
      BY <1>1 DEF x
<1>6. /\ IsList(d, (k + 1) + 1) /\ (\A i \in 1..(k + 1) : d[i] = c[i]) /\ d[(k + 1) + 1] = x
      <2>1. IsList(c, k + 1)
            BY DEF ChainOk
      <2>2. Extended(d, c, k + 1, x)
            BY <1>5, <2>1, ListAppend
      <2> QED BY <2>2 DEF Extended
<1>7. \A i \in 1..((k + 1) + 1) : i \in 1..(k + 1) \/ i = (k + 1) + 1
      OBVIOUS
<1>8. \A i \in 1..((k + 1) + 1) : OfTheCoin(d[i])
      BY <1>4, <1>6, <1>7 DEF ChainOk
<1> QED BY <1>6, <1>8 DEF ChainOk

Chained(g, n) ==
  g = [k \in 0..n |-> IF k = 0 THEN {<<Last(states)>>} ELSE UNION {Longer(c) : c \in g[k-1]}]

\* Chains of every length can be built this way.
LEMMA ChainedExists ==
  ASSUME NEW n \in Nat
  PROVE  \E g : Chained(g, n)
<1> DEFINE B == {k \in Nat : \E g : Chained(g, k)}
<1>1. 0 \in B
      <2> DEFINE g == [i \in 0..0 |-> {<<Last(states)>>}]
      <2>1. Chained(g, 0)
            BY DEF Chained
      <2> QED BY <2>1
<1>2. ASSUME NEW k \in 1..n, k - 1 \in B PROVE k \in B
      <2>1. PICK f : Chained(f, k - 1)
            BY <1>2
      <2> DEFINE g == [i \in 0..k |-> IF i = k THEN UNION {Longer(c) : c \in f[k - 1]} ELSE f[i]]
      <2>2. \A i \in 0..(k - 1) :
              f[i] = IF i = 0 THEN {<<Last(states)>>} ELSE UNION {Longer(c) : c \in f[i - 1]}
            BY <2>1 DEF Chained
      <2>3. ASSUME NEW i \in 0..k
            PROVE  g[i] = IF i = 0 THEN {<<Last(states)>>} ELSE UNION {Longer(c) : c \in g[i - 1]}
            <3>1. i # 0 => i - 1 \in 0..k /\ i - 1 # k
                  OBVIOUS
            <3>2. CASE i = k
                  <4>1. g[i - 1] = f[k - 1]
                        BY <3>1, <3>2
                  <4> QED BY <3>2, <4>1
            <3>3. CASE i # k
                  <4>1. i \in 0..(k - 1) /\ g[i] = f[i]
                        BY <3>3
                  <4>2. CASE i = 0
                        BY <2>2, <4>1, <4>2
                  <4>3. CASE i # 0
                        <5>1. g[i - 1] = f[i - 1]
                              BY <3>1, <4>3
                        <5> HIDE DEF g
                        <5>2. f[i] = UNION {Longer(c) : c \in f[i - 1]}
                              BY <2>2, <4>1, <4>3
                        <5> QED BY <4>1, <4>3, <5>1, <5>2
                  <4> QED BY <4>2, <4>3
            <3> QED BY <3>2, <3>3
      <2>4. g = [i \in 0..k |-> g[i]]
            OBVIOUS
      <2> HIDE DEF g
      <2>5. Chained(g, k)
            BY <2>3, <2>4 DEF Chained
      <2> QED BY <2>5
<1> HIDE DEF B
<1>3. n \in B
      BY <1>1, <1>2, IntervalInduction
<1> QED BY <1>3 DEF B

\* The states of every chain that is passed are of the coin.
LEMMA ChainsOk ==
  ASSUME NEW n \in Nat, OfTheCoin(Last(states)), NEW c \in Chains(n)
  PROVE  \A i \in 1..n : OfTheCoin(c[i])
<1> DEFINE Grow[k \in 0..n] == IF k = 0 THEN {<<Last(states)>>}
                               ELSE UNION {Longer(d) : d \in Grow[k-1]}
<1>1. Chained(Grow, n)
      BY ChainedExists DEF Chained
<1>2. Chains(n) = {Tail(d) : d \in Grow[n]}
      BY DEF Chains, Longer, Claimed
<1> HIDE DEF Grow
<1> DEFINE B == {k \in 0..n : \A d \in Grow[k] : ChainOk(d, k)}
<1>3. 0 \in B
      <2>1. Grow[0] = {<<Last(states)>>}
            BY <1>1 DEF Chained
      <2>2. ChainOk(<<Last(states)>>, 0)
            BY DEF ChainOk, IsList
      <2> QED BY <2>1, <2>2
<1>4. ASSUME NEW k \in 1..n, k - 1 \in B PROVE k \in B
      <2> SUFFICES ASSUME NEW d \in Grow[k] PROVE ChainOk(d, k)
          OBVIOUS
      <2>1. Grow[k] = UNION {Longer(e) : e \in Grow[k - 1]}
            <3>1. k \in 0..n /\ k # 0
                  OBVIOUS
            <3>2. \A j \in 0..n : Grow[j] = IF j = 0 THEN {<<Last(states)>>}
                                            ELSE UNION {Longer(e) : e \in Grow[j - 1]}
                  BY <1>1 DEF Chained
            <3> QED BY <3>1, <3>2
      <2>2. PICK e \in Grow[k - 1] : d \in Longer(e)
            BY <2>1
      <2>3. ChainOk(e, k - 1) /\ k - 1 \in Nat /\ (k - 1) + 1 = k
            BY <1>4
      <2>4. ChainOk(d, (k - 1) + 1)
            BY <2>2, <2>3, LongerOk
      <2> QED BY <2>3, <2>4
<1>5. \A d \in Grow[n] : ChainOk(d, n)
      <2> HIDE DEF B
      <2>1. n \in B
            BY <1>3, <1>4, IntervalInduction
      <2> QED BY <2>1 DEF B
<1>6. PICK d \in Grow[n] : c = Tail(d)
      BY <1>2
<1>7. ChainOk(d, n)
      BY <1>5
<1>8. \A i \in 1..n : c[i] = d[i + 1]
      BY <1>6, <1>7, ListTail DEF ChainOk
<1> QED BY <1>7, <1>8 DEF ChainOk
-----------------------------------------------------------------------------
\* The links of a batch: states, each with the signature field of a signature.
Batch(n, c, sigs) == [i \in 1..n |-> [state |-> c[i], sig |-> SigField(sigs[i])]]

\* A chain of m states has n more behind it, and their signatures' commitments are
\* at their indices.
Grown(m, n, c, sigs) ==
  /\ IsList(states, m) /\ IsList(states', m + n)
  /\ m + n <= MaxSubmissionStates
  /\ \A i \in 1..m : states'[i] = states[i]
  /\ \A k \in 1..(m - 1) : commits'[k] = commits[k]
  /\ \A i \in 1..n : /\ states'[m + i] = c[i]
                     /\ commits'[(m + i) - 1] = <<"H", SigField(sigs[i])>>

\* What append_links writes, state by state and index by index.
LEMMA AppendedLinks ==
  ASSUME AppendInv, NEW n \in Nat \ {0}, NEW c, NEW sigs, NEW h, NEW l,
         AppendLinks(h, Batch(n, c, sigs), l)
  PROVE  \E m \in Nat \ {0} : Grown(m, n, c, sigs)
<1> DEFINE links == Batch(n, c, sigs)
           st == [i \in DOMAIN links |-> links[i].state]
<1>1. PICK m \in Nat \ {0} : IsList(states, m)
      BY DEF AppendInv
<1>2. /\ DOMAIN links = 1..n /\ Len(links) = n
      /\ \A i \in 1..n : links[i].state = c[i] /\ links[i].sig = SigField(sigs[i])
      BY DEF Batch
<1>3. states' = states \o st /\ commits' = CommitsWith(links) /\ Len(states) = m
      BY <1>1, ListLen DEF AppendLinks
<1>4. m + n <= MaxSubmissionStates
      <2>1. Len(states) + Len(links) <= MaxSubmissionStates
            BY DEF AppendLinks, Anchored
      <2> HIDE DEF links
      <2> QED BY <1>2, <1>3, <2>1
<1> HIDE DEF links
<1>5. IsList(st, n) /\ \A i \in 1..n : st[i] = c[i]
      BY <1>2 DEF IsList
<1> HIDE DEF st
<1>6. /\ IsList(states', m + n)
      /\ \A i \in 1..m : states'[i] = states[i]
      /\ \A i \in 1..n : states'[m + i] = c[i]
      <2>1. Joined(states \o st, states, m, st, n)
            BY <1>1, <1>5, ListConcat
      <2> QED BY <1>3, <1>5, <2>1 DEF Joined
<1>7. \A k \in Slots :
        commits'[k] = IF k - m + 1 \in 1..n THEN <<"H", links[k - m + 1].sig>> ELSE commits[k]
      BY <1>2, <1>3 DEF CommitsWith
<1>8. \A k \in 1..(m - 1) : commits'[k] = commits[k]
      <2>1. ASSUME NEW k \in 1..(m - 1) PROVE k \in Slots /\ k - m + 1 \notin 1..n
            BY <1>4 DEF Slots, MaxSubmissionStates
      <2> QED BY <1>7, <2>1
<1>9. ASSUME NEW i \in 1..n PROVE commits'[(m + i) - 1] = <<"H", SigField(sigs[i])>>
      <2>1. (m + i) - 1 \in Slots /\ ((m + i) - 1) - m + 1 = i
            BY <1>4 DEF Slots, MaxSubmissionStates
      <2>2. commits'[(m + i) - 1] = <<"H", links[i].sig>>
            BY <1>7, <2>1
      <2> QED BY <1>2, <2>2
<1> QED BY <1>1, <1>4, <1>6, <1>8, <1>9 DEF Grown

\* The chain the program compares: what it has, and the new states behind it.
LEMMA AnchoredLinks ==
  ASSUME NEW m \in Nat \ {0}, IsList(states, m), NEW n \in Nat \ {0}, NEW c, NEW sigs, NEW h, NEW l
  PROVE  Anchored(h, Batch(n, c, sigs), l) <=>
           /\ receiving
           /\ n \in 1..MaxLinks
           /\ m + n <= MaxSubmissionStates
           /\ states[m].owner = h
           /\ \A i \in 1..n : Follows(c[i], IF i = 1 THEN states[m] ELSE c[i - 1], Serial, Value)
           /\ scheme = 1 => \A i \in 1..n : SigField(sigs[i])[2] = ZeroBytes
           /\ StateHash(c[n]) = l
<1> DEFINE links == Batch(n, c, sigs)
           st == [i \in DOMAIN links |-> links[i].state]
           chain == <<Last(states)>> \o st
<1>1. /\ DOMAIN links = 1..n /\ Len(links) = n
      /\ \A i \in 1..n : links[i].state = c[i] /\ links[i].sig = SigField(sigs[i])
      BY DEF Batch
<1>2. Len(states) = m /\ Last(states) = states[m]
      BY ListLen DEF Last
<1> HIDE DEF links
<1>3. IsList(st, n) /\ \A i \in 1..n : st[i] = c[i]
      BY <1>1 DEF IsList
<1>4. IsList(<<Last(states)>>, 1) /\ <<Last(states)>>[1] = states[m]
      BY <1>2 DEF IsList
<1> HIDE DEF st
<1>5. /\ IsList(chain, 1 + n)
      /\ chain[1] = states[m]
      /\ \A i \in 1..n : chain[1 + i] = c[i]
      <2>1. Joined(chain, <<Last(states)>>, 1, st, n)
            BY <1>3, <1>4, ListConcat
      <2> HIDE DEF chain
      <2> QED BY <1>3, <1>4, <2>1 DEF Joined
<1>6. Len(chain) = n + 1 /\ Last(chain) = chain[n + 1]
      <2> HIDE DEF chain
      <2>1. Len(chain) = 1 + n
            BY <1>5, ListLen
      <2> QED BY <2>1 DEF Last
<1>7. Anchored(h, links, l) <=>
        /\ receiving
        /\ Len(links) \in 1..MaxLinks
        /\ Len(states) + Len(links) <= MaxSubmissionStates
        /\ Last(states).owner = h
        /\ \A i \in 2..Len(chain) : Follows(chain[i], chain[i-1], Serial, Value)
        /\ scheme = 1 => \A i \in DOMAIN links : links[i].sig[2] = ZeroBytes
        /\ StateHash(Last(chain)) = l
      BY DEF Anchored, st
<1> HIDE DEF chain
<1>8. (\A i \in 2..Len(chain) : Follows(chain[i], chain[i-1], Serial, Value)) <=>
        \A i \in 1..n : Follows(c[i], IF i = 1 THEN states[m] ELSE c[i - 1], Serial, Value)
      <2>1. ASSUME NEW i \in 1..n
            PROVE  /\ i + 1 \in 2..Len(chain)
                   /\ chain[i + 1] = c[i]
                   /\ chain[(i + 1) - 1] = IF i = 1 THEN states[m] ELSE c[i - 1]
            <3>1. i # 1 => i - 1 \in 1..n /\ 1 + (i - 1) = i
                  OBVIOUS
            <3>2. i + 1 = 1 + i /\ (i + 1) - 1 = i
                  OBVIOUS
            <3> QED BY <1>5, <1>6, <3>1, <3>2
      <2>2. \A j \in 2..Len(chain) : j - 1 \in 1..n /\ (j - 1) + 1 = j
            BY <1>6
      <2> QED BY <2>1, <2>2
<1>9. StateHash(Last(chain)) = StateHash(c[n])
      BY <1>5, <1>6
<1>10. scheme = 1 => ((\A i \in DOMAIN links : links[i].sig[2] = ZeroBytes) <=>
                         \A i \in 1..n : SigField(sigs[i])[2] = ZeroBytes)
      BY <1>1
<1>11. Anchored(h, links, l) <=>
         /\ receiving
         /\ n \in 1..MaxLinks
         /\ m + n <= MaxSubmissionStates
         /\ states[m].owner = h
         /\ \A i \in 1..n : Follows(c[i], IF i = 1 THEN states[m] ELSE c[i - 1], Serial, Value)
         /\ scheme = 1 => \A i \in 1..n : SigField(sigs[i])[2] = ZeroBytes
         /\ StateHash(c[n]) = l
      <2>1. Len(links) = n /\ Len(states) = m /\ Last(states) = states[m]
            BY <1>1, <1>2
      <2> QED BY <1>7, <1>8, <1>9, <1>10, <2>1
<1> QED BY <1>11 DEF links

\* The links of a pair that lands behind m states, each over its state and by the
\* owner before it.
SignedBatch(m, n, c, sigs) ==
  \A i \in 1..n : sigs[i] = [by |-> (IF i = 1 THEN states[m] ELSE c[i - 1]).owner,
                            msg |-> StateHash(c[i])]

\* The precompile has read the signatures of the owners.
LEMMA PairSigned ==
  ASSUME NEW m \in Nat \ {0}, IsList(states, m), NEW n \in Nat \ {0}, NEW c, NEW sigs,
         NEW h, NEW l, scheme = 0, Lands(h, Batch(n, c, sigs), l)
  PROVE  SignedBatch(m, n, c, sigs)
<1> DEFINE links == Batch(n, c, sigs)
<1>1. Anchored(h, links, l) /\ Precompile(AppendData(h, links, l), Records(Len(links)))
      BY DEF Lands
<1>2. /\ states[m].owner = h
      /\ \A i \in 1..n : Follows(c[i], IF i = 1 THEN states[m] ELSE c[i - 1], Serial, Value)
      /\ StateHash(c[n]) = l
      <2> HIDE DEF links
      <2>1. Anchored(h, Batch(n, c, sigs), l)
            BY <1>1 DEF links
      <2> QED BY <2>1, AnchoredLinks
<1> SUFFICES ASSUME NEW i \in 1..n
             PROVE  sigs[i] = [by |-> (IF i = 1 THEN states[m] ELSE c[i - 1]).owner,
                               msg |-> StateHash(c[i])]
    BY DEF SignedBatch
<1>3. /\ DOMAIN links = 1..n /\ Len(links) = n
      /\ \A j \in 1..n : links[j].state = c[j] /\ links[j].sig = SigField(sigs[j])
      BY DEF Batch
<1> HIDE DEF links
<1>4. links[i].sig[1] = [by |-> OwnerBefore(h, links, i), msg |-> Message(links, l, n, i)]
      BY <1>1, <1>3, PrecompileSigned
<1>5. links[i].sig[1] = sigs[i]
      BY <1>3 DEF SigField
<1>6. OwnerBefore(h, links, i) = (IF i = 1 THEN states[m] ELSE c[i - 1]).owner
      <2>1. i # 1 => i - 1 \in 1..n
            OBVIOUS
      <2> QED BY <1>2, <1>3, <2>1 DEF OwnerBefore
<1>7. Message(links, l, n, i) = StateHash(c[i])
      <2>1. CASE i < n
            <3>1. i + 1 \in 1..n /\ (i + 1) - 1 = i /\ i + 1 # 1
                  BY <2>1
            <3>2. c[i + 1].prev = StateHash(c[i])
                  BY <1>2, <3>1 DEF Follows
            <3> QED BY <1>3, <2>1, <3>1, <3>2 DEF Message
      <2>2. CASE ~(i < n)
            BY <1>2, <2>2 DEF Message
      <2> QED BY <2>1, <2>2
<1> QED BY <1>4, <1>5, <1>6, <1>7

\* A batch extends the chain by states of the coin, and leaves the commitments of
\* the states before it; of a pair, it commits to the owners' signatures.
LEMMA AppendStep ==
  ASSUME AppendInv, NEW n \in Nat \ {0}, NEW c, NEW sigs, NEW h, NEW l,
         \A i \in 1..n : OfTheCoin(c[i]),
         AppendPair(h, Batch(n, c, sigs), l) \/ AppendAlone(h, Batch(n, c, sigs), l)
  PROVE  AppendInv'
<1>1. AppendLinks(h, Batch(n, c, sigs), l)
      BY DEF AppendPair, AppendAlone
<1>2. PICK m \in Nat \ {0} : Grown(m, n, c, sigs)
      BY <1>1, AppendedLinks
<1>3. /\ IsList(states, m) /\ IsList(states', m + n)
      /\ m + n <= MaxSubmissionStates
      /\ \A i \in 1..m : states'[i] = states[i]
      /\ \A k \in 1..(m - 1) : commits'[k] = commits[k]
      /\ \A i \in 1..n : /\ states'[m + i] = c[i]
                         /\ commits'[(m + i) - 1] = <<"H", SigField(sigs[i])>>
      BY <1>2 DEF Grown
<1>4. Len(states) = m /\ Len(states') = m + n
      <2>1. Len(states) = m
            BY <1>3, ListLen
      <2>2. Len(states') = m + n
            BY <1>3, ListLen
      <2> QED BY <2>1, <2>2
<1>5. scheme' = scheme /\ checked' = checked
      BY <1>1 DEF AppendLinks
<1>6. \/ paired' = paired
      \/ paired' = paired \cup (m + 1)..(m + n) /\ SignedBatch(m, n, c, sigs)
      <2>1. CASE AppendAlone(h, Batch(n, c, sigs), l)
            BY <2>1 DEF AppendAlone
      <2>2. CASE AppendPair(h, Batch(n, c, sigs), l)
            <3>1. scheme = 0 /\ Lands(h, Batch(n, c, sigs), l)
                  BY <2>2 DEF AppendPair
            <3>2. SignedBatch(m, n, c, sigs)
                  BY <1>3, <3>1, PairSigned
            <3>3. paired' = paired \cup (Len(states) + 1)..(Len(states) + Len(Batch(n, c, sigs)))
                  BY <2>2 DEF AppendPair
            <3>4. Len(Batch(n, c, sigs)) = n
                  BY DEF Batch
            <3> QED BY <1>4, <3>2, <3>3, <3>4
      <2> QED BY <2>1, <2>2
<1>7. \A i \in 2..m : SignedLink(i)' = SignedLink(i) /\ commits'[i - 1] = commits[i - 1]
      <2>1. ASSUME NEW i \in 2..m PROVE i \in 1..m /\ i - 1 \in 1..m /\ i - 1 \in 1..(m - 1)
            OBVIOUS
      <2> QED BY <1>3, <2>1 DEF SignedLink
<1>8. ASSUME NEW i \in 1..n, SignedBatch(m, n, c, sigs)
      PROVE  sigs[i] = SignedLink(m + i)'
      <2>1. i # 1 => i - 1 \in 1..n /\ (m + i) - 1 = m + (i - 1)
            OBVIOUS
      <2>2. i = 1 => (m + i) - 1 = m /\ m \in 1..m
            OBVIOUS
      <2>3. states'[m + i] = c[i]
            BY <1>3
      <2>4. states'[(m + i) - 1] = IF i = 1 THEN states[m] ELSE c[i - 1]
            BY <1>3, <2>1, <2>2
      <2>5. sigs[i] = [by |-> (IF i = 1 THEN states[m] ELSE c[i - 1]).owner, msg |-> StateHash(c[i])]
            BY <1>8 DEF SignedBatch
      <2> QED BY <2>3, <2>4, <2>5 DEF SignedLink
<1>9. ASSUME NEW j \in paired' PROVE j \in 2..(m + n) /\ commits'[j - 1] = <<"H", SigField(SignedLink(j))'>>
      <2>1. CASE j \in paired
            <3>1. j \in 2..m /\ commits[j - 1] = <<"H", SigField(SignedLink(j))>>
                  BY <1>4, <2>1 DEF AppendInv, PairsAreSigned
            <3>2. SigField(SignedLink(j))' = SigField(SignedLink(j))
                  BY <1>5, <1>7, <3>1 DEF SigField
            <3> QED BY <1>7, <3>1, <3>2
      <2>2. CASE j \notin paired
            <3>1. j \in (m + 1)..(m + n) /\ SignedBatch(m, n, c, sigs)
                  BY <1>6, <2>2
            <3>2. j - m \in 1..n /\ m + (j - m) = j
                  BY <3>1
            <3>3. sigs[j - m] = SignedLink(j)'
                  BY <1>8, <3>1, <3>2
            <3>4. commits'[j - 1] = <<"H", SigField(sigs[j - m])>>
                  BY <1>3, <3>2
            <3>5. SigField(SignedLink(j))' = SigField(sigs[j - m])
                  BY <1>5, <3>3 DEF SigField
            <3> QED BY <3>1, <3>4, <3>5
      <2> QED BY <2>1, <2>2
<1>10. PairsAreSigned' /\ paired' \subseteq 2..Len(states')
      BY <1>4, <1>9 DEF PairsAreSigned
<1>11. ASSUME NEW k \in checked'
       PROVE  /\ k[1] \in 1..(Len(states') - 1)
              /\ commits'[k[1]] = <<"H", k[2]>>
              /\ k[1] + 1 \in paired' => k[2] = SigField(SignedLink(k[1] + 1))'
      <2>1. k \in checked /\ k[1] \in 1..(m - 1)
            BY <1>4, <1>5 DEF AppendInv
      <2>2. /\ commits[k[1]] = <<"H", k[2]>>
            /\ k[1] + 1 \in paired => k[2] = SigField(SignedLink(k[1] + 1))
            BY <2>1 DEF AppendInv, CommitsResolve
      <2>3. commits'[k[1]] = <<"H", k[2]>> /\ k[1] \in 1..(Len(states') - 1)
            BY <1>3, <1>4, <2>1, <2>2
      <2>4. k[1] + 1 \in 2..m /\ (k[1] + 1 \in paired' => k[1] + 1 \in paired)
            BY <1>6, <2>1
      <2>5. SigField(SignedLink(k[1] + 1))' = SigField(SignedLink(k[1] + 1))
            BY <1>5, <1>7, <2>4 DEF SigField
      <2> QED BY <2>2, <2>3, <2>4, <2>5
<1>12. CommitsResolve'
      BY <1>11 DEF CommitsResolve
<1>13. \A j \in 1..Len(states') : OfTheCoin(states'[j])
      <2> SUFFICES ASSUME NEW j \in 1..(m + n) PROVE OfTheCoin(states'[j])
          BY <1>4
      <2>1. CASE j \in 1..m
            BY <1>3, <1>4, <2>1 DEF AppendInv
      <2>2. CASE j \notin 1..m
            <3>1. j - m \in 1..n /\ j = m + (j - m)
                  BY <2>2
            <3> QED BY <1>3, <3>1
      <2> QED BY <2>1, <2>2
<1>14. \E k \in Nat \ {0} : IsList(states', k)
      <2>1. m + n \in Nat \ {0}
            OBVIOUS
      <2> QED BY <1>3, <2>1
<1> QED BY <1>10, <1>11, <1>12, <1>13, <1>14 DEF AppendInv, IsList, OfTheCoin

\* The start: a state that nothing was signed for.
LEMMA AppendStarts == ASSUME AppendInit PROVE AppendInv
<1>1. Len(states) = 1 /\ IsList(states, 1)
      BY DEF AppendInit, IsList
<1>2. paired = {} /\ checked = {}
      BY DEF AppendInit
<1>3. 1 \in Nat \ {0} /\ 1..1 = {1}
      OBVIOUS
<1>4. OfTheCoin(states[1])
      BY DEF AppendInit, OfTheCoin, GenesisState
<1> QED BY <1>1, <1>2, <1>3, <1>4 DEF AppendInv, PairsAreSigned, CommitsResolve

\* verify_sig_commit accepts the signature behind the commitment and no other.
LEMMA CheckStep ==
  ASSUME AppendInv, NEW idx \in Slots, NEW sig, VerifySigCommit(idx, sig)
  PROVE  AppendInv'
<1>1. /\ scheme' = scheme /\ states' = states /\ paired' = paired /\ commits' = commits
      /\ checked' = checked \cup {<<idx, sig>>}
      /\ idx >= 1 /\ idx + 1 <= Len(states) /\ commits[idx] = <<"H", sig>>
      BY DEF VerifySigCommit
<1>2. idx \in 1..(Len(states) - 1) /\ (idx + 1) - 1 = idx
      <2>1. PICK m \in Nat \ {0} : IsList(states, m)
            BY DEF AppendInv
      <2>2. Len(states) = m
            BY <2>1, ListLen
      <2> QED BY <1>1, <2>2 DEF Slots, MaxSubmissionStates
<1>3. idx + 1 \in paired => sig = SigField(SignedLink(idx + 1))
      <2> SUFFICES ASSUME idx + 1 \in paired PROVE sig = SigField(SignedLink(idx + 1))
          OBVIOUS
      <2>1. commits[idx] = <<"H", SigField(SignedLink(idx + 1))>>
            BY <1>2 DEF AppendInv, PairsAreSigned
      <2>2. <<"H", sig>> = <<"H", SigField(SignedLink(idx + 1))>>
            BY <1>1, <2>1
      <2> QED BY <2>2
<1>4. \A i : SigField(SignedLink(i))' = SigField(SignedLink(i))
      BY <1>1 DEF SigField, SignedLink
<1>5. CommitsResolve' /\ \A k \in checked' : k[1] \in 1..(Len(states') - 1)
      BY <1>1, <1>2, <1>3, <1>4 DEF AppendInv, CommitsResolve
<1>6. PairsAreSigned' /\ paired' \subseteq 2..Len(states')
      BY <1>1, <1>4 DEF AppendInv, PairsAreSigned
<1> QED BY <1>1, <1>5, <1>6 DEF AppendInv, IsList, OfTheCoin

\* Every step keeps the invariant.
LEMMA AppendInvStep ==
  ASSUME MaxLinks \in Nat, AppendInv, [AppendNext]_appendVars
  PROVE  AppendInv'
<1>1. ASSUME NEW n \in 1..MaxLinks, AppendSome(n)
      PROVE  AppendInv'
      <2>1. PICK c, sigs, h, l :
              LET links == [i \in 1..n |-> [state |-> c[i], sig |-> SigField(sigs[i])]]
              IN c \in Chains(n) /\ (AppendPair(h, links, l) \/ AppendAlone(h, links, l))
            BY <1>1 DEF AppendSome
      <2>2. AppendPair(h, Batch(n, c, sigs), l) \/ AppendAlone(h, Batch(n, c, sigs), l)
            BY <2>1 DEF Batch
      <2>3. OfTheCoin(Last(states))
            <3>1. PICK m \in Nat \ {0} : IsList(states, m)
                  BY DEF AppendInv
            <3>2. Len(states) = m
                  BY <3>1, ListLen
            <3> QED BY <3>2 DEF AppendInv, Last
      <2>4. \A i \in 1..n : OfTheCoin(c[i])
            BY <2>1, <2>3, ChainsOk
      <2> QED BY <2>2, <2>4, AppendStep
<1>2. CASE Finalize \/ UNCHANGED appendVars
      <2>1. /\ scheme' = scheme /\ states' = states /\ paired' = paired /\ commits' = commits
            /\ checked' = checked
            BY <1>2 DEF Finalize, appendVars
      <2>2. PairsAreSigned' /\ CommitsResolve'
            BY <2>1 DEF AppendInv, PairsAreSigned, CommitsResolve, SigField, SignedLink
      <2> QED BY <2>1, <2>2 DEF AppendInv, IsList, OfTheCoin
<1>3. CASE CheckSome
      BY <1>3, CheckStep DEF CheckSome
<1> QED BY <1>1, <1>2, <1>3 DEF AppendNext

\* The invariant, for every behaviour.
LEMMA AppendHolds == ASSUME MaxLinks \in Nat PROVE AppendSpec => []AppendInv
<1>1. AppendInit => AppendInv
      BY AppendStarts
<1>2. AppendInv /\ [AppendNext]_appendVars => AppendInv'
      BY AppendInvStep
<1> QED BY <1>1, <1>2, PTL DEF AppendSpec

\* Every state that came in one of the SDK's pairs was signed over by the owner of
\* the state before it, and that signature is the one committed at its index, for
\* batches of every size, paired or not, and whatever signatures, anchors and hashes
\* their callers put into them.
THEOREM OnlySignedPairs == ASSUME MaxLinks \in Nat PROVE AppendSpec => []PairsAreSigned
<1>1. AppendInv => PairsAreSigned
      BY DEF AppendInv
<1> QED BY <1>1, AppendHolds, PTL

\* verify_sig_commit: what it accepted stays committed at its index, and for a state
\* that came in a pair it is the signature of the owner before it.
THEOREM CommitmentsResolve == ASSUME MaxLinks \in Nat PROVE AppendSpec => []CommitsResolve
<1>1. AppendInv => CommitsResolve
      BY DEF AppendInv
<1> QED BY <1>1, AppendHolds, PTL

\* What is read where no chunk begins is no signature.
NoSignature == \A sig : Unread # <<sig, sig>>

\* The links of a hand-over, each signed by the owner before it.
HandedSigs(f, n) == [i \in 1..n |-> [by |-> f[i - 1].owner, msg |-> StateHash(f[i])]]

\* The states of a hand-over are of the coin, each following the one before it.
LEMMA HandedFollows ==
  ASSUME NEW n \in Nat, NEW a, OfTheCoin(a), NEW owners, NEW f, Handed(f, n, a, owners)
  PROVE  f[0] = a /\ \A i \in 1..n : Follows(f[i], f[i - 1], Serial, Value)
<1> DEFINE B == {k \in 0..n : OfTheCoin(f[k])}
<1>1. f[0] = a /\ \A i \in 1..n : i - 1 \in 0..n /\ f[i] = NextState(f[i - 1], owners[i])
      <2>1. \A i \in 0..n : f[i] = IF i = 0 THEN a ELSE NextState(f[i - 1], owners[i])
            BY DEF Handed
      <2>2. \A i \in 1..n : i \in 0..n /\ i # 0 /\ i - 1 \in 0..n
            OBVIOUS
      <2> QED BY <2>1, <2>2
<1>2. 0 \in B
      BY <1>1
<1>3. ASSUME NEW i \in 1..n, i - 1 \in B PROVE i \in B
      <2>1. OfTheCoin(f[i - 1])
            BY <1>3
      <2>2. OfTheCoin(NextState(f[i - 1], owners[i]))
            BY <2>1, NextFields
      <2> QED BY <1>1, <2>2
<1>4. 0..n \subseteq B
      <2> HIDE DEF B
      <2> QED BY <1>2, <1>3, IntervalInduction
<1>5. \A i \in 1..n : OfTheCoin(f[i - 1])
      BY <1>1, <1>4
<1> QED BY <1>1, <1>5, NextFields

\* A signed hand-over from the last state of a submission with room lands.
LEMMA HandedLands ==
  ASSUME NoSignature, AppendInv, receiving, MaxLinks \in Nat, NEW n \in 1..MaxLinks,
         Len(states) + n <= MaxSubmissionStates,
         NEW owners, NEW f, Handed(f, n, Last(states), owners)
  PROVE  Lands(f[0].owner, Batch(n, f, HandedSigs(f, n)), StateHash(f[n]))
<1> DEFINE sigs == HandedSigs(f, n)
           h == f[0].owner
           l == StateHash(f[n])
           links == Batch(n, f, sigs)
<1>1. PICK m \in Nat \ {0} : IsList(states, m)
      BY DEF AppendInv
<1>2. Len(states) = m /\ Last(states) = states[m] /\ OfTheCoin(states[m])
      <2>1. Len(states) = m
            BY <1>1, ListLen
      <2> QED BY <2>1 DEF AppendInv, Last
<1>3. f[0] = states[m] /\ \A i \in 1..n : Follows(f[i], f[i - 1], Serial, Value)
      BY <1>2, HandedFollows
<1>4. \A i \in 1..n : sigs[i] = [by |-> f[i - 1].owner, msg |-> StateHash(f[i])]
      BY DEF HandedSigs
<1>5. /\ DOMAIN links = 1..n /\ Len(links) = n
      /\ \A i \in 1..n : links[i].state = f[i] /\ links[i].sig = SigField(sigs[i])
      BY DEF Batch
<1> HIDE DEF sigs, h, l
<1>6. Anchored(h, links, l)
      <2>1. \A i \in 1..n : Follows(f[i], IF i = 1 THEN states[m] ELSE f[i - 1], Serial, Value)
            BY <1>3
      <2>2. scheme = 1 => \A i \in 1..n : SigField(sigs[i])[2] = ZeroBytes
            BY DEF SigField
      <2>3. states[m].owner = h /\ StateHash(f[n]) = l
            BY <1>3 DEF h, l
      <2>4. m + n <= MaxSubmissionStates
            BY <1>2
      <2> QED BY <1>1, <2>1, <2>2, <2>3, <2>4, AnchoredLinks
<1> HIDE DEF links
<1>7. ASSUME scheme = 0 PROVE Precompile(AppendData(h, links, l), Records(n))
      <2>1. ASSUME NEW i \in 1..n
            PROVE  /\ links[i].sig # Unread
                   /\ links[i].sig[1] = [by |-> OwnerBefore(h, links, i),
                                         msg |-> Message(links, l, n, i)]
            <3>1. links[i].sig = <<sigs[i], sigs[i]>>
                  BY <1>5, <1>7 DEF SigField
            <3>2. OwnerBefore(h, links, i) = f[i - 1].owner
                  <4>1. i # 1 => i - 1 \in 1..n
                        OBVIOUS
                  <4> QED BY <1>5, <4>1 DEF OwnerBefore, h
            <3>3. Message(links, l, n, i) = StateHash(f[i])
                  <4>1. CASE i < n
                        <5>1. i + 1 \in 1..n /\ (i + 1) - 1 = i
                              BY <4>1
                        <5>2. f[i + 1].prev = StateHash(f[i])
                              BY <1>3, <5>1 DEF Follows
                        <5> QED BY <1>5, <4>1, <5>1, <5>2 DEF Message
                  <4>2. CASE ~(i < n)
                        BY <4>2 DEF Message, l
                  <4> QED BY <4>1, <4>2
            <3> QED BY <1>4, <3>1, <3>2, <3>3 DEF NoSignature
      <2> QED BY <1>5, <2>1, PrecompileSigned
<1> QED BY <1>5, <1>6, <1>7 DEF Lands, sigs, h, l, links

\* No hand-over is refused: signed hand-overs of every length that a batch may have
\* land with the records the SDK computes, in both schemes.
THEOREM SignedBatchesAlwaysLand ==
  ASSUME MaxLinks \in Nat, NoSignature PROVE AppendSpec => []SignedBatchesLand
<1>1. AppendInv => SignedBatchesLand
      <2> SUFFICES ASSUME AppendInv, receiving, NEW n \in 1..MaxLinks,
                          Len(states) + n <= MaxSubmissionStates,
                          NEW owners \in [1..n -> Holders]
                   PROVE  LET st[i \in 0..n] == IF i = 0 THEN Last(states)
                                                ELSE NextState(st[i-1], owners[i])
                          IN Lands(st[0].owner,
                                   [i \in 1..n |->
                                     [state |-> st[i],
                                      sig |-> SigField([by |-> st[i-1].owner,
                                                        msg |-> StateHash(st[i])])]],
                                   StateHash(st[n]))
          BY DEF SignedBatchesLand
      <2> DEFINE st[i \in 0..n] == IF i = 0 THEN Last(states) ELSE NextState(st[i-1], owners[i])
      <2>1. Handed(st, n, Last(states), owners)
            <3>1. \E f : Handed(f, n, Last(states), owners)
                  BY HandedExists
            <3> QED BY <3>1 DEF Handed
      <2> HIDE DEF st
      <2>2. Lands(st[0].owner, Batch(n, st, HandedSigs(st, n)), StateHash(st[n]))
            BY <2>1, HandedLands
      <2>3. Batch(n, st, HandedSigs(st, n)) =
              [i \in 1..n |-> [state |-> st[i],
                               sig |-> SigField([by |-> st[i-1].owner, msg |-> StateHash(st[i])])]]
            BY DEF Batch, HandedSigs
      <2> QED BY <2>2, <2>3 DEF st
<1> QED BY <1>1, AppendHolds, PTL
=============================================================================
