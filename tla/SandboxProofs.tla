---------------------------- MODULE SandboxProofs ----------------------------
(* The count of an open sandbox is the number of its users, for any number of *)
(* sessions, sandboxes and threads.                                           *)
EXTENDS Sandbox, FiniteSetTheorems, TLAPS

Deeds == {"release", "aclose", "rmtree", "dispatch", "call", "clear", "bind", "adopt", "temp",
          "shared", "deepen", "ensure", "lock", "locked", "opened", "tool"}
Assigning == {"clear", "bind"}
Owning    == Changing \cup {"adopt"}

Row == [do : Deeds, s : Session, b : Box \cup {NoBox}, was : Box \cup {NoBox}]

\* In what order the steps of one operation come.
Precedes(x, y) ==
    \/ x.do \in {"release", "aclose", "rmtree"} /\ y.do \in {"clear", "bind", "temp", "shared"}
    \/ x.do = "clear" /\ y.do \in {"temp", "shared"}
    \/ x.do = "adopt" /\ y.do = "adopt" /\ x.s # y.s
    \/ x.do \in Opening /\ y.do \in {"deepen", "tool"}

Ordered(q) == \A i, j \in DOMAIN q : i < j => Precedes(q[i], q[j])
Steps(q)   == {q[i] : i \in DOMAIN q}
Pend(t)    == Steps(todo[t])

\* The steps S of a thread name sessions of M and sandboxes of O, those that exist,
\* and a sandbox is given back only by a thread that will then assign the slot it
\* was in.
Sound(S, M, O) == \A x \in S :
    /\ x \in Row /\ x.s \in M /\ x.b \in O \cup {NoBox} /\ x.was \in O \cup {NoBox}
    /\ x.do \in {"bind", "adopt", "opened"} => x.b \in O
    /\ x.do \in {"adopt", "opened"} => x.was = NoBox
    /\ x.do = "release" => \E y \in S : y.do \in Assigning /\ y.s = x.s /\ y.was = x.b

SandboxTyped ==
    /\ made \in SUBSET Session /\ IsFiniteSet(made) /\ First \in made
    /\ opened \in SUBSET Box
    /\ slot \in [Session -> opened \cup {NoBox}]
    /\ \A s \in Session \ made : slot[s] = NoBox
    /\ opener \in [Session -> Thread \cup {NoThread}]
    /\ count \in [Box -> Int] /\ grips \in [Box -> Nat] /\ closed \in [Box -> BOOLEAN]
    /\ \A b \in Box \ opened : count[b] = 0 /\ grips[b] = 0

Plans ==
    /\ todo \in [Thread -> Seq(Row)]
    /\ \A t \in Thread : Ordered(todo[t]) /\ Sound(Pend(t), made, opened)

\* Who opens a sandbox for a session holds the lock of the session.
Held == \A t \in Thread : \A x \in Pend(t) : x.do \in {"locked", "opened"} => opener[x.s] = t

\* A session that is still to take its sandbox over has none, and nobody else has it.
Newborn == \A t \in Thread : \A x \in Pend(t) : x.do = "adopt" =>
    /\ slot[x.s] = NoBox
    /\ \A u \in Thread : \A y \in Pend(u) : y.s = x.s /\ y.do \in Owning \cup Opening => u = t /\ y = x

\* Two threads are about the slot of s, and not only to open a sandbox.
Clash(s) == \E t, u \in Thread : t # u /\ \E x \in Pend(t), y \in Pend(u) :
    x.s = s /\ y.s = s /\ x.do \in Changing /\ y.do \in Changing \cup Opening

\* All sandboxes named in s are spoilt.
Sullied(s) ==
    /\ slot[s] \in spoilt \cup {NoBox}
    /\ \A t \in Thread : \A x \in Pend(t) : x.s = s /\ x.do \in Changing \cup Opening =>
          x.b \in spoilt \cup {NoBox} /\ x.was \in spoilt \cup {NoBox}

\* What threads have seen in the slot of s is there still.
Good(s) == \A t \in Thread : \A x \in Pend(t) : x.s = s =>
    /\ x.do = "release" => slot[s] = x.b
    /\ x.do \in Assigning => slot[s] = x.was
    /\ x.do = "opened" => slot[s] = NoBox

Clean == \A s \in Session : Sullied(s) \/ (Good(s) /\ ~Clash(s))

Tidy == Held /\ Newborn /\ Clean

SandboxInv == SandboxTyped /\ Plans /\ Tidy /\ NoBox \notin spoilt /\ CountsAreReferences

\* What a step does to the spoilt sandboxes.
Grows ==
    /\ spoilt \subseteq spoilt' /\ NoBox \notin spoilt'
    /\ \A s \in Session : Clash(s)' => Sullied(s)'

LEMMA SpoilGrows ==
    ASSUME NoBox \notin spoilt, NEW more, Spoil(more)
    PROVE  Grows /\ more \subseteq spoilt' \cup {NoBox}
<1>1. spoilt \subseteq spoilt' /\ NoBox \notin spoilt' /\ more \subseteq spoilt' \cup {NoBox}
  BY DEF Spoil
<1>2. ASSUME NEW s \in Session, Clash(s)' PROVE Sullied(s)'
  <2>1. Contended(s)'
    BY <1>2 DEF Clash, Contended, Underway, Pend, Steps
  <2>2. Named(s)' \subseteq spoilt' \cup {NoBox}
    BY <2>1 DEF Spoil
  <2>3. slot'[s] \in Named(s)'
    BY DEF Named
  <2>4. ASSUME NEW t \in Thread, NEW x \in Pend(t)', x.s = s, x.do \in Changing \cup Opening
        PROVE  x.b \in Named(s)' /\ x.was \in Named(s)'
    <3>1. x \in Underway(t, s, Changing \cup Opening)'
      BY <2>4 DEF Underway, Pend, Steps
    <3>2. {x.b, x.was} \subseteq Named(s)'
      BY <3>1 DEF Named
    <3> QED
      BY <3>2
  <2> QED
    BY <2>2, <2>3, <2>4 DEF Sullied
<1> QED
  BY <1>1, <1>2 DEF Grows

-----------------------------------------------------------------------------
(* Plans of steps *)

LEMMA TailSteps ==
    ASSUME NEW q \in Seq(Row), q # <<>>, Ordered(q)
    PROVE  /\ Head(q) \in Steps(q) /\ Tail(q) \in Seq(Row) /\ Ordered(Tail(q))
           /\ Steps(Tail(q)) = Steps(q) \ {Head(q)}
           /\ \A y \in Steps(q) \ {Head(q)} : Precedes(Head(q), y)
<1>1. /\ Head(q) = q[1] /\ 1 \in DOMAIN q /\ Tail(q) \in Seq(Row) /\ Len(q) \in Nat /\ Len(q) > 0
      /\ DOMAIN q = 1 .. Len(q) /\ DOMAIN Tail(q) = 1 .. (Len(q) - 1)
      /\ \A i \in 1 .. (Len(q) - 1) : Tail(q)[i] = q[i + 1]
  OBVIOUS
<1>2. \A i \in DOMAIN q : i # 1 => Precedes(Head(q), q[i]) /\ q[i] # Head(q)
  <2> SUFFICES ASSUME NEW i \in DOMAIN q, i # 1
               PROVE  Precedes(Head(q), q[i]) /\ q[i] # Head(q)
    OBVIOUS
  <2>1. Precedes(q[1], q[i])
    BY <1>1 DEF Ordered
  <2>2. ~Precedes(q[i], q[i])
    BY DEF Precedes, Opening
  <2> QED
    BY <1>1, <2>1, <2>2
<1>3. Ordered(Tail(q))
  <2> SUFFICES ASSUME NEW i \in DOMAIN Tail(q), NEW j \in DOMAIN Tail(q), i < j
               PROVE  Precedes(Tail(q)[i], Tail(q)[j])
    BY DEF Ordered
  <2>1. i + 1 \in DOMAIN q /\ j + 1 \in DOMAIN q /\ i + 1 < j + 1
    BY <1>1
  <2> QED
    BY <1>1, <2>1 DEF Ordered
<1>4. \A i \in DOMAIN Tail(q) : i + 1 \in DOMAIN q /\ i + 1 # 1 /\ Tail(q)[i] = q[i + 1]
  BY <1>1
<1>5. \A i \in DOMAIN q : i # 1 => i - 1 \in DOMAIN Tail(q) /\ Tail(q)[i - 1] = q[i]
  BY <1>1
<1> DEFINE p == Tail(q)
<1> HIDE DEF p
<1>6. Steps(p) \subseteq Steps(q) \ {Head(q)}
  <2> SUFFICES ASSUME NEW i \in DOMAIN p PROVE p[i] \in Steps(q) \ {Head(q)}
    BY DEF Steps
  <2>1. i + 1 \in DOMAIN q /\ i + 1 # 1 /\ p[i] = q[i + 1]
    BY <1>4 DEF p
  <2> QED
    BY <1>2, <2>1 DEF Steps
<1>7. Steps(q) \ {Head(q)} \subseteq Steps(p)
  <2> SUFFICES ASSUME NEW i \in DOMAIN q, q[i] # Head(q) PROVE q[i] \in Steps(p)
    BY DEF Steps
  <2>1. i - 1 \in DOMAIN p /\ p[i - 1] = q[i]
    BY <1>1, <1>5 DEF p
  <2> QED
    BY <2>1 DEF Steps
<1>8. \A y \in Steps(q) \ {Head(q)} : Precedes(Head(q), y)
  BY <1>1, <1>2 DEF Steps
<1>9. Head(q) \in Steps(q)
  BY <1>1 DEF Steps
<1> QED
  BY <1>1, <1>3, <1>6, <1>7, <1>8, <1>9 DEF p

LEMMA ThenSteps ==
    ASSUME NEW q \in Seq(Row), NEW x \in Row, Ordered(q),
           \A y \in Steps(q) : Precedes(x, y)
    PROVE  /\ <<x>> \o q \in Seq(Row) /\ Ordered(<<x>> \o q)
           /\ Steps(<<x>> \o q) = {x} \cup Steps(q)
<1> DEFINE p == <<x>> \o q
<1>1. /\ p \in Seq(Row) /\ Len(q) \in Nat /\ DOMAIN q = 1 .. Len(q) /\ DOMAIN p = 1 .. (Len(q) + 1)
      /\ p[1] = x /\ \A i \in 2 .. (Len(q) + 1) : p[i] = q[i - 1]
  OBVIOUS
<1>2. \A i \in DOMAIN p : i = 1 \/ (i - 1 \in DOMAIN q /\ p[i] = q[i - 1])
  BY <1>1
<1>3. \A i \in DOMAIN q : i + 1 \in DOMAIN p /\ p[i + 1] = q[i]
  BY <1>1
<1> HIDE DEF p
<1>4. Ordered(p)
  <2> SUFFICES ASSUME NEW i \in DOMAIN p, NEW j \in DOMAIN p, i < j PROVE Precedes(p[i], p[j])
    BY DEF Ordered
  <2>1. j - 1 \in DOMAIN q /\ p[j] = q[j - 1]
    BY <1>1, <1>2
  <2>2. CASE i = 1
    BY <1>1, <2>1, <2>2 DEF Steps
  <2>3. CASE i # 1
    <3>1. i - 1 \in DOMAIN q /\ p[i] = q[i - 1] /\ i - 1 < j - 1
      BY <1>1, <1>2, <2>3
    <3> QED
      BY <2>1, <3>1 DEF Ordered
  <2> QED
    BY <2>2, <2>3
<1>5. Steps(p) \subseteq {x} \cup Steps(q)
  BY <1>1, <1>2 DEF Steps
<1>6. {x} \cup Steps(q) \subseteq Steps(p)
  <2>1. 1 \in DOMAIN p
    BY <1>1
  <2> QED
    BY <1>1, <1>3, <2>1 DEF Steps
<1> QED
  BY <1>1, <1>4, <1>5, <1>6 DEF p

\* Two steps of one thread come one after the other.
LEMMA Comparable ==
    ASSUME NEW q \in Seq(Row), Ordered(q), NEW x \in Steps(q), NEW y \in Steps(q), x # y
    PROVE  Precedes(x, y) \/ Precedes(y, x)
<1>1. PICK i \in DOMAIN q : x = q[i]
  BY DEF Steps
<1>2. PICK j \in DOMAIN q : y = q[j]
  BY DEF Steps
<1>3. (i < j \/ j < i) /\ DOMAIN q = 1 .. Len(q)
  BY <1>1, <1>2
<1> QED
  BY <1>1, <1>2, <1>3 DEF Ordered

\* The first step of thread t, and what comes after it.
LEMMA HeadSteps ==
    ASSUME Plans, NEW t \in Thread, todo[t] # <<>>
    PROVE  /\ Head(todo[t]) \in Pend(t) /\ Head(todo[t]) \in Row
           /\ \A y \in Pend(t) \ {Head(todo[t])} : Precedes(Head(todo[t]), y)
<1>1. todo[t] \in Seq(Row) /\ Ordered(todo[t])
  BY DEF Plans
<1> QED
  BY <1>1, TailSteps DEF Pend

\* Thread t now has the steps S to take; the other threads have what they had.
Moves(t, S) ==
    /\ todo' \in [Thread -> Seq(Row)] /\ Ordered(todo'[t]) /\ Steps(todo'[t]) = S
    /\ \A u \in Thread : u # t => todo'[u] = todo[u]

LEMMA DoneMoves ==
    ASSUME Plans, NEW t \in Thread, todo[t] # <<>>, Done(t)
    PROVE  Moves(t, Pend(t) \ {Head(todo[t])})
<1>1. todo \in [Thread -> Seq(Row)] /\ Ordered(todo[t])
  BY DEF Plans
<1>2. todo' = [todo EXCEPT ![t] = Tail(todo[t])]
  BY DEF Done
<1>3. Tail(todo[t]) \in Seq(Row) /\ todo'[t] = Tail(todo[t])
  BY <1>1, <1>2, TailSteps
<1> QED
  BY <1>1, <1>2, <1>3, TailSteps DEF Moves, Pend

LEMMA ThenMoves ==
    ASSUME Plans, NEW t \in Thread, todo[t] # <<>>, NEW x \in Row, Then(t, <<x>>),
           \A y \in Pend(t) \ {Head(todo[t])} : Precedes(x, y)
    PROVE  Moves(t, {x} \cup (Pend(t) \ {Head(todo[t])}))
<1>1. todo \in [Thread -> Seq(Row)] /\ Ordered(todo[t])
  BY DEF Plans
<1>2. todo' = [todo EXCEPT ![t] = <<x>> \o Tail(todo[t])]
  BY DEF Then
<1>3. /\ Tail(todo[t]) \in Seq(Row) /\ Ordered(Tail(todo[t]))
      /\ Steps(Tail(todo[t])) = Pend(t) \ {Head(todo[t])}
  BY <1>1, TailSteps DEF Pend
<1> DEFINE p == <<x>> \o Tail(todo[t])
<1>4. p \in Seq(Row) /\ Ordered(p) /\ Steps(p) = {x} \cup (Pend(t) \ {Head(todo[t])})
  BY <1>3, ThenSteps
<1>5. todo' = [todo EXCEPT ![t] = p]
  BY <1>2
<1> HIDE DEF p
<1> QED
  BY <1>1, <1>4, <1>5 DEF Moves

LEMMA StartMoves ==
    ASSUME Plans, NEW t \in Thread, NEW p \in Seq(Row), Ordered(p), todo' = [todo EXCEPT ![t] = p]
    PROVE  Moves(t, Steps(p))
  BY DEF Plans, Moves

LEMMA RaiseMoves ==
    ASSUME Plans, NEW t \in Thread, Raise(t)
    PROVE  Moves(t, {})
<1>1. <<>> \in Seq(Row) /\ Ordered(<<>>) /\ Steps(<<>>) = {}
  BY DEF Ordered, Steps
<1>2. todo' = [todo EXCEPT ![t] = <<>>]
  BY DEF Raise
<1> QED
  BY <1>1, <1>2, StartMoves

\* Thread t takes its first step h: what is left of its plan, and X, steps that
\* hold no sandbox for a session.
Follows(t, h, X, S) ==
    /\ todo[t] # <<>> /\ h = Head(todo[t]) /\ Moves(t, S) /\ X \subseteq S /\ S \subseteq X \cup (Pend(t) \ {h})
    /\ made' = made /\ opened \subseteq opened' /\ Sound(X, made', opened')
    /\ \A x \in X : /\ x.do \notin Owning
                    /\ x.do \in Opening => h.do \in Opening /\ x.s = h.s
                    /\ x.do \in {"locked", "opened"} => opener'[x.s] = t
                    /\ x.do = "opened" => slot'[x.s] = NoBox
                    /\ x.do \in Opening \ {"opened"} => x.b = NoBox /\ x.was = NoBox
    /\ \A s \in Session : \/ slot'[s] = slot[s]
                          \/ /\ s = h.s /\ h.do \in {"clear", "bind", "adopt", "locked", "opened"}
                             /\ slot'[s] \in {NoBox, h.b}
    /\ \A s \in Session : \/ opener'[s] = opener[s]
                          \/ s = h.s /\ (h.do \in {"locked", "opened"} \/ opener[s] = NoThread)

LEMMA FollowsKeeps ==
    ASSUME Plans, Tidy, Grows, NEW t \in Thread, NEW h, NEW X, NEW S, Follows(t, h, X, S)
    PROVE  Plans' /\ Tidy'
<1>0. h \in Pend(t) /\ h \in Row /\ \A y \in Pend(t) \ {h} : Precedes(h, y)
  BY HeadSteps DEF Follows
<1>1. \A u \in Thread : Pend(u)' = IF u = t THEN S ELSE Pend(u)
  BY DEF Follows, Moves, Pend
<1>2. \A y \in S : /\ y.do # "release" /\ (y \in X \/ (y \in Pend(t) /\ y # h))
                   /\ y.do \in Owning => y \in Pend(t) /\ y # h
                   /\ y.do \in Opening => y \in X /\ h.do \in Opening /\ y.s = h.s
  BY <1>0 DEF Follows, Precedes, Owning, Changing, Opening
<1>3. Plans'
  <2>1. todo' \in [Thread -> Seq(Row)] /\ Ordered(todo'[t])
        /\ \A u \in Thread : u # t => todo'[u] = todo[u]
    BY DEF Follows, Moves
  <2>2. \A u \in Thread : Ordered(todo'[u])
    BY <2>1 DEF Plans
  <2>3. \A u \in Thread : Sound(Pend(u), made', opened')
    BY DEF Plans, Follows, Sound
  <2>4. Sound(S, made', opened')
    BY <1>2, <2>3 DEF Follows, Sound
  <2> QED
    BY <1>1, <2>1, <2>2, <2>3, <2>4 DEF Plans
\* Every step pending afterwards is of a session, and those that concern slots were pending.
<1>4. \A u \in Thread : \A y \in Pend(u)' :
        /\ y.s \in Session
        /\ y.do \in Owning => y \in Pend(u) /\ (u = t => y # h)
        /\ y.do \in Opening => y \in Pend(u) \/ (u = t /\ y \in X /\ h.do \in Opening /\ y.s = h.s)
        /\ u = t /\ y.do \in Opening => y \in X /\ h.do \in Opening /\ y.s = h.s
        /\ u # t => y \in Pend(u)
  BY <1>1, <1>2, <1>3 DEF Plans, Sound, Row
<1>5. Held'
  <2> SUFFICES ASSUME NEW u \in Thread, NEW x \in Pend(u)', x.do \in {"locked", "opened"}
               PROVE  opener'[x.s] = u
    BY DEF Held
  <2>1. CASE u = t
    BY <1>4, <2>1 DEF Follows, Opening
  <2>2. CASE u # t
    <3>1. opener[x.s] = u /\ u # NoThread /\ x.s \in Session
      BY <1>4, <2>2, SandboxConstants DEF Tidy, Held
    <3>2. h.do \in {"locked", "opened"} => opener[h.s] = t
      BY <1>0 DEF Tidy, Held
    <3> QED
      BY <2>2, <3>1, <3>2 DEF Follows
  <2> QED
    BY <2>1, <2>2
<1>6. Newborn'
  <2> SUFFICES ASSUME NEW u \in Thread, NEW x \in Pend(u)', x.do = "adopt"
               PROVE  /\ slot'[x.s] = NoBox
                      /\ \A v \in Thread : \A y \in Pend(v)' :
                            y.s = x.s /\ y.do \in Owning \cup Opening => v = u /\ y = x
    BY DEF Newborn
  <2>1. x \in Pend(u) /\ (u = t => x # h) /\ x.s \in Session
    BY <1>4 DEF Owning
  <2>2. /\ slot[x.s] = NoBox
        /\ \A v \in Thread : \A y \in Pend(v) : y.s = x.s /\ y.do \in Owning \cup Opening => v = u /\ y = x
    BY <2>1 DEF Tidy, Newborn
  <2>3. h.do \in Owning \cup Opening => h.s # x.s
    BY <1>0, <2>1, <2>2
  <2>4. slot'[x.s] = NoBox
    BY <2>1, <2>2, <2>3 DEF Follows, Owning, Changing, Opening
  <2> QED
    BY <1>4, <2>2, <2>3, <2>4
<1>7. ASSUME NEW s \in Session, ~Clash(s)' PROVE Sullied(s)' \/ Good(s)'
  <2>1. CASE s # h.s
    <3>1. slot'[s] = slot[s]
      BY <2>1 DEF Follows
    <3>2. \A u \in Thread : \A y \in Pend(u)' : y.s = s /\ y.do \in Changing \cup Opening => y \in Pend(u)
      BY <1>4, <2>1 DEF Owning
    <3>3. CASE Sullied(s)
      BY <3>1, <3>2, <3>3 DEF Sullied, Grows
    <3>4. CASE Good(s)
      BY <3>1, <3>2, <3>4 DEF Good, Changing, Assigning, Opening
    <3> QED
      BY <3>3, <3>4 DEF Tidy, Clean
  <2>2. CASE s = h.s /\ \E x \in X : x.do = "opened"
    <3>1. PICK x \in X : x.do = "opened"
      BY <2>2
    <3>2. h.do \in Opening /\ x.s = s /\ slot'[s] = NoBox /\ opener'[s] = t
      BY <2>2, <3>1 DEF Follows, Opening
    <3>3. \A u \in Thread : u # t => \A y \in Pend(u)' : y.s = s => y.do # "opened"
      BY <1>5, <3>2 DEF Held
    <3>4. \A y \in S : y.do \notin Changing
      BY <1>0, <1>2, <3>2 DEF Owning, Changing, Opening, Precedes
    <3>5. CASE \E u \in Thread : \E y \in Pend(u)' : y.s = s /\ y.do \in Changing
      <4>1. PICK u \in Thread : \E y \in Pend(u)' : y.s = s /\ y.do \in Changing
        BY <3>5
      <4>2. u # t
        BY <1>1, <3>4, <4>1
      <4>3. x \in Pend(t)'
        BY <1>1, <3>1 DEF Follows
      <4> QED
        BY <1>7, <3>1, <3>2, <4>1, <4>2, <4>3 DEF Clash, Opening
    <3>6. CASE ~\E u \in Thread : \E y \in Pend(u)' : y.s = s /\ y.do \in Changing
      BY <3>2, <3>6 DEF Good, Changing, Assigning
    <3> QED
      BY <3>5, <3>6
  <2>3. CASE s = h.s /\ ~\E x \in X : x.do = "opened"
    <3>1. \A u \in Thread : \A y \in Pend(u)' :
             /\ y.do \in Changing => y \in Pend(u) /\ (u = t => y # h)
             /\ y.do = "opened" => y \in Pend(u) /\ u # t
             /\ y.do \in Opening => y \in Pend(u) \/ (y.b = NoBox /\ y.was = NoBox)
      BY <1>4, <2>3 DEF Owning, Opening, Follows
    <3>2. CASE slot'[s] = slot[s]
      <4>1. CASE Sullied(s)
        BY <3>1, <3>2, <4>1 DEF Sullied, Grows
      <4>2. CASE Good(s)
        BY <3>1, <3>2, <4>2 DEF Good, Changing, Assigning
      <4> QED
        BY <4>1, <4>2 DEF Tidy, Clean
    <3>3. CASE slot'[s] # slot[s]
      <4>0. h.do \in {"clear", "bind", "adopt", "locked", "opened"} /\ slot'[s] \in {NoBox, h.b}
        BY <3>3 DEF Follows
      <4>1. CASE h.do = "adopt"
        <5>1. \A u \in Thread : \A y \in Pend(u) : y.s = s /\ y.do \in Owning \cup Opening => u = t /\ y = h
          BY <1>0, <2>3, <4>1 DEF Tidy, Newborn
        <5>2. \A u \in Thread : \A y \in Pend(u)' : y.s = s => y.do \notin Changing /\ y.do # "opened"
          BY <3>1, <5>1 DEF Owning, Opening
        <5> QED
          BY <5>2 DEF Good, Changing, Assigning
      <4>2. CASE h.do # "adopt" /\ Sullied(s)
        <5>1. h.b \in spoilt \cup {NoBox}
          BY <1>0, <2>3, <4>0, <4>2 DEF Sullied, Changing, Opening
        <5> QED
          BY <3>1, <4>0, <4>2, <5>1 DEF Sullied, Grows
      <4>3. CASE h.do # "adopt" /\ Good(s) /\ ~Clash(s)
        <5>1. \A u \in Thread : \A y \in Pend(u)' : y.s = s => y.do \notin Changing
          <6>1. \A u \in Thread : u # t => \A y \in Pend(u) : y.s = s => y.do \notin Changing
            BY <1>0, <2>3, <4>0, <4>3 DEF Clash, Changing, Opening
          <6>2. \A y \in Pend(t) : y.do \in Changing => y = h
            BY <1>0, <4>0, <4>3 DEF Precedes, Changing, Opening
          <6> QED
            BY <3>1, <6>1, <6>2
        <5>2. \A u \in Thread : \A y \in Pend(u)' : y.s = s => y.do # "opened"
          <6> SUFFICES ASSUME NEW u \in Thread, NEW y \in Pend(u)', y.s = s, y.do = "opened" PROVE FALSE
            OBVIOUS
          <6>1. y \in Pend(u) /\ u # t /\ opener[s] = u
            BY <3>1 DEF Tidy, Held
          <6>2. h.do \notin {"locked", "opened"}
            BY <1>0, <2>3, <6>1 DEF Tidy, Held
          <6> QED
            BY <1>0, <2>3, <4>0, <4>3, <6>1, <6>2 DEF Clash, Changing, Opening
        <5> QED
          BY <5>1, <5>2 DEF Good, Changing, Assigning
      <4> QED
        BY <4>1, <4>2, <4>3 DEF Tidy, Clean
    <3> QED
      BY <3>2, <3>3
  <2> QED
    BY <2>1, <2>2, <2>3
<1>8. Clean'
  BY <1>7 DEF Clean, Grows
<1> QED
  BY <1>3, <1>5, <1>6, <1>8 DEF Tidy

\* An idle thread t begins the steps S, with what is in the slots before it.
Begins(t, S) ==
    /\ todo[t] = <<>> /\ Moves(t, S)
    /\ made \subseteq made' /\ opened \subseteq opened' /\ slot' = slot /\ opener' = opener
    /\ Sound(S, made', opened')
    /\ \A x \in S : /\ x.do \notin {"lock", "locked", "opened"}
                    /\ x.do = "release" => slot[x.s] = x.b
                    /\ x.do \in Assigning => slot[x.s] = x.was
                    /\ x.do = "ensure" => x.b = NoBox /\ x.was = NoBox
                    /\ x.do \in Changing \cup Opening =>
                          \A u \in Thread : \A y \in Pend(u) \cup S : y.do = "adopt" => y.s # x.s
                    /\ x.do = "adopt" =>
                          /\ slot[x.s] = NoBox
                          /\ \A u \in Thread : \A y \in Pend(u) : y.s # x.s
                          /\ \A y \in S : y # x => y.s # x.s

LEMMA BeginsKeeps ==
    ASSUME Plans, Tidy, Grows, NEW t \in Thread, NEW S, Begins(t, S)
    PROVE  Plans' /\ Tidy'
<1>1. \A u \in Thread : Pend(u)' = IF u = t THEN S ELSE Pend(u)
  BY DEF Begins, Moves, Pend
<1>2. Plans'
  <2>1. todo' \in [Thread -> Seq(Row)] /\ Ordered(todo'[t])
        /\ \A u \in Thread : u # t => todo'[u] = todo[u]
    BY DEF Begins, Moves
  <2>2. \A u \in Thread : Ordered(todo'[u])
    BY <2>1 DEF Plans
  <2>3. \A u \in Thread : Sound(Pend(u), made', opened')
    BY DEF Plans, Begins, Sound
  <2>4. Sound(S, made', opened')
    BY DEF Begins
  <2> QED
    BY <1>1, <2>1, <2>2, <2>3, <2>4 DEF Plans
<1>3. Held'
  BY <1>1 DEF Held, Tidy, Begins
<1>4. Newborn'
  <2> SUFFICES ASSUME NEW u \in Thread, NEW x \in Pend(u)', x.do = "adopt"
               PROVE  /\ slot'[x.s] = NoBox
                      /\ \A v \in Thread : \A y \in Pend(v)' :
                            y.s = x.s /\ y.do \in Owning \cup Opening => v = u /\ y = x
    BY DEF Newborn
  <2>1. CASE u = t
    BY <1>1, <2>1 DEF Begins
  <2>2. CASE u # t
    <3>1. x \in Pend(u)
      BY <1>1, <2>2
    <3>2. \A y \in S : y.s = x.s => y.do \notin Owning \cup Opening
      BY <3>1 DEF Begins, Owning
    <3> QED
      BY <1>1, <2>2, <3>1, <3>2 DEF Newborn, Tidy, Begins
  <2> QED
    BY <2>1, <2>2
<1>5. ASSUME NEW s \in Session, ~Clash(s)' PROVE Sullied(s)' \/ Good(s)'
  <2>1. CASE \E x \in S : x.s = s /\ x.do \in Changing
    <3>1. \A u \in Thread : u # t => \A y \in Pend(u)' : y.s = s => y.do \notin Changing \cup Opening
      BY <1>1, <1>5, <2>1 DEF Clash
    <3>2. \A u \in Thread : u # t => \A y \in Pend(u)' : y.s = s => y.do \notin Assigning \cup {"release", "opened"}
      BY <3>1 DEF Changing, Opening, Assigning
    <3> QED
      BY <1>1, <3>2 DEF Good, Begins
  <2>2. CASE ~\E x \in S : x.s = s /\ x.do \in Changing
    <3>1. \A u \in Thread : \A y \in Pend(u)' : y.s = s /\ y.do \in Changing \cup Opening =>
              y \in Pend(u) \/ (y.do = "ensure" /\ y.b = NoBox /\ y.was = NoBox)
      BY <1>1, <2>2 DEF Begins, Opening
    <3>2. slot' = slot
      BY DEF Begins
    <3>3. CASE Sullied(s)
      BY <3>1, <3>2, <3>3 DEF Sullied, Grows
    <3>4. CASE Good(s)
      BY <3>1, <3>2, <3>4 DEF Good, Changing, Opening, Assigning
    <3> QED
      BY <3>3, <3>4 DEF Tidy, Clean
  <2> QED
    BY <2>1, <2>2
<1>6. Clean'
  BY <1>5 DEF Clean, Grows
<1> QED
  BY <1>2, <1>3, <1>4, <1>6 DEF Tidy

-----------------------------------------------------------------------------
(* Who holds a reference *)

\* A thread with the steps S has given back the sandbox x of session s.
Gives(S, s, x) ==
    /\ \A y \in S : y.do # "release"
    /\ \E y \in S : y.s = s /\ y.do \in Assigning /\ y.was = x

LEMMA GivenIs ==
    ASSUME NEW s
    PROVE  /\ GivenBack(s) <=> \E u \in Thread : Gives(Pend(u), s, slot[s])
           /\ GivenBack(s)' <=> \E u \in Thread : Gives(Steps(todo'[u]), s, slot'[s])
<1>1. GivenBack(s) <=> \E u \in Thread : Gives(Pend(u), s, slot[s])
  BY DEF GivenBack, Gives, Pend, Steps, Assigning
<1>2. GivenBack(s)' <=> \E u \in Thread : Gives(Steps(todo'[u]), s, slot'[s])
  BY DEF GivenBack, Gives, Steps, Assigning
<1> QED
  BY <1>1, <1>2

LEMMA SameGiven ==
    ASSUME NEW t \in Thread, NEW S, Moves(t, S), NEW s, slot'[s] = slot[s],
           Gives(S, s, slot[s]) <=> Gives(Pend(t), s, slot[s])
    PROVE  GivenBack(s)' <=> GivenBack(s)
<1>1. \A u \in Thread : Gives(Steps(todo'[u]), s, slot[s]) <=> Gives(Pend(u), s, slot[s])
  BY DEF Moves, Pend
<1> QED
  BY <1>1, GivenIs

\* A step that neither gives back nor assigns leaves what its thread has given back.
LEMMA SameGives ==
    ASSUME Plans, NEW t \in Thread, todo[t] # <<>>, NEW X, NEW s, NEW x,
           Head(todo[t]).do \notin {"release", "clear", "bind"},
           \A y \in X : y.do \notin {"release", "clear", "bind"}
    PROVE  Gives(X \cup (Pend(t) \ {Head(todo[t])}), s, x) <=> Gives(Pend(t), s, x)
  BY HeadSteps DEF Gives, Assigning

\* Tools, adoptions and openings are not of threads that give a sandbox back.
LEMMA NoGives ==
    ASSUME Plans, NEW t \in Thread, todo[t] # <<>>, NEW s, NEW x,
           Head(todo[t]).do \in {"dispatch", "tool", "adopt"} \cup Opening
    PROVE  ~Gives(Pend(t), s, x)
<1>1. \A y \in Pend(t) : y.do \notin Assigning
  BY HeadSteps DEF Precedes, Opening, Assigning
<1> QED
  BY <1>1 DEF Gives

\* A thread assigns once.
LEMMA OneAssigns ==
    ASSUME Plans, NEW t \in Thread, NEW x \in Pend(t), x.do \in Assigning
    PROVE  \A y \in Pend(t) : y.do \in Assigning => y = x
<1>1. ASSUME NEW y \in Pend(t), y.do \in Assigning, y # x PROVE FALSE
  <2>1. todo[t] \in Seq(Row) /\ Ordered(todo[t])
    BY DEF Plans
  <2>2. Precedes(x, y) \/ Precedes(y, x)
    BY <1>1, <2>1, Comparable DEF Pend
  <2> QED
    BY <1>1, <2>2 DEF Precedes, Assigning, Opening
<1> QED
  BY <1>1

\* Nobody else gives back what a session has, where nothing clashes.
LEMMA NoOtherGives ==
    ASSUME NEW t \in Thread, NEW x \in Pend(t), x.do \in Changing \cup Opening, ~Clash(x.s)
    PROVE  \A u \in Thread : u # t => \A y : ~Gives(Pend(u), x.s, y)
  BY DEF Clash, Gives, Changing, Assigning

LEMMA HoldersFinite ==
    ASSUME SandboxTyped, NEW b
    PROVE  IsFiniteSet(Holders(b)) /\ Cardinality(Holders(b)) \in Nat
<1>1. Holders(b) \subseteq made /\ IsFiniteSet(made)
  BY DEF Holders, SandboxTyped
<1> QED
  BY <1>1, FS_Subset, FS_CardinalityType

\* Sandbox b has the users it had.
SameUsers(b) ==
    /\ closed'[b] = FALSE => closed[b] = FALSE
    /\ closed'[b] = FALSE => count'[b] - grips'[b] = count[b] - grips[b]
    /\ Holders(b)' = Holders(b)

LEMMA CountKept ==
    ASSUME SandboxInv, SandboxTyped', Grows, NEW b \in opened, SameUsers(b), b \notin spoilt', ~closed'[b]
    PROVE  count'[b] = Cardinality(Holders(b)') + grips'[b]
<1>1. SandboxTyped /\ CountsAreReferences /\ b \in Box
  BY DEF SandboxInv, SandboxTyped
<1>2. ~closed[b] /\ b \notin spoilt /\ count'[b] - grips'[b] = count[b] - grips[b]
  BY <1>1 DEF SameUsers, SandboxTyped, Grows
<1>3. count[b] = Cardinality(Holders(b)) + grips[b]
  BY <1>1, <1>2 DEF CountsAreReferences
<1>4. count[b] \in Int /\ count'[b] \in Int /\ grips[b] \in Nat /\ grips'[b] \in Nat
  BY <1>1 DEF SandboxTyped
<1>5. Holders(b)' = Holders(b) /\ Cardinality(Holders(b)) \in Nat
  BY <1>1, HoldersFinite DEF SameUsers
<1> QED
  BY <1>2, <1>3, <1>4, <1>5

\* Nobody refers to a sandbox that is being opened.
LEMMA CountOfNew ==
    ASSUME SandboxTyped, SandboxTyped', NEW b \in opened' \ opened, count'[b] = 0, grips'[b] = 0,
           \A s \in made' : slot'[s] \in opened \cup {NoBox}
    PROVE  count'[b] = Cardinality(Holders(b)') + grips'[b]
<1>1. b # NoBox
  BY SandboxConstants DEF SandboxTyped
<1>2. Holders(b)' = {}
  BY <1>1 DEF Holders
<1> QED
  BY <1>2, FS_EmptySet

\* The slots are as they were, and so is what each thread has given back.
Still(t, S) ==
    /\ Moves(t, S) /\ slot' = slot /\ made \subseteq made'
    /\ \A s \in Session : \A x : Gives(S, s, x) <=> Gives(Pend(t), s, x)

LEMMA StillHolders ==
    ASSUME SandboxTyped, SandboxTyped', NEW t \in Thread, NEW S, Still(t, S), NEW b \in opened
    PROVE  Holders(b)' = Holders(b)
<1>1. \A s \in Session : GivenBack(s)' <=> GivenBack(s)
  <2> SUFFICES ASSUME NEW s \in Session PROVE GivenBack(s)' <=> GivenBack(s)
    OBVIOUS
  <2>1. slot'[s] = slot[s] /\ Moves(t, S) /\ (Gives(S, s, slot[s]) <=> Gives(Pend(t), s, slot[s]))
    BY DEF Still
  <2> QED
    BY <2>1, SameGiven
<1>2. b # NoBox /\ \A s \in Session \ made : slot'[s] # b
  BY SandboxConstants DEF SandboxTyped, Still
<1>3. made \subseteq made' /\ made' \subseteq Session /\ slot' = slot
  BY DEF Still, SandboxTyped
<1> QED
  BY <1>1, <1>2, <1>3 DEF Holders

LEMMA StillCounts ==
    ASSUME SandboxInv, SandboxTyped', Grows, NEW t \in Thread, NEW S, Still(t, S), opened \subseteq opened',
           \A b \in opened' \ opened : count'[b] = 0 /\ grips'[b] = 0,
           \A b \in opened : closed'[b] = FALSE =>
               closed[b] = FALSE /\ count'[b] - grips'[b] = count[b] - grips[b]
    PROVE  CountsAreReferences'
<1> SUFFICES ASSUME NEW b \in opened' \ spoilt', ~closed'[b]
             PROVE  count'[b] = Cardinality(Holders(b)') + grips'[b]
  BY DEF CountsAreReferences
<1>0. SandboxTyped
  BY DEF SandboxInv
<1>1. CASE b \in opened
  <2>1. SameUsers(b)
    BY <1>0, <1>1, StillHolders DEF SameUsers
  <2> QED
    BY <1>0, <1>1, <2>1, CountKept
<1>2. CASE b \notin opened
  <2>1. \A s \in made' : slot'[s] \in opened \cup {NoBox}
    BY <1>0 DEF SandboxTyped, Still
  <2> QED
    BY <1>0, <1>2, <2>1, CountOfNew
<1> QED
  BY <1>1, <1>2

-----------------------------------------------------------------------------
(* Steps that leave the references alone *)

Inert ==
    /\ UNCHANGED <<made, slot, opened, count, grips>> /\ opener' \in [Session -> Thread \cup {NoThread}]
    /\ closed' \in [Box -> BOOLEAN] /\ \A b \in Box : closed'[b] = FALSE => closed[b] = FALSE

LEMMA InertTyped ==
    ASSUME SandboxTyped, Inert
    PROVE  SandboxTyped'
  BY DEF SandboxTyped, Inert

\* The lock of a session is taken when it is free, and given up by who has it.
Locks(t) == \A s \in Session :
    \/ opener'[s] = opener[s]
    \/ s = Head(todo[t]).s /\ (Head(todo[t]).do \in {"locked", "opened"} \/ opener[s] = NoThread)

\* x takes the place of the first step of t.
Replaces(t, x) ==
    /\ Sound({x}, made, opened) /\ x.do \notin Owning
    /\ x.do # "opened" /\ (x.do = "locked" => opener'[x.s] = t)
    /\ x.do \in Opening => /\ Head(todo[t]).do \in Opening /\ x.s = Head(todo[t]).s
                           /\ x.b = NoBox /\ x.was = NoBox
    /\ \A y : Precedes(Head(todo[t]), y) => Precedes(x, y)

LEMMA InertStep ==
    ASSUME SandboxInv, Grows, NEW t \in Thread, todo[t] # <<>>, Inert, NEW h, h = Head(todo[t]),
           NEW X, NEW S, Follows(t, h, X, S),
           \A s \in Session : \A x : Gives(S, s, x) <=> Gives(Pend(t), s, x)
    PROVE  SandboxInv'
<1>1. SandboxTyped'
  BY InertTyped DEF SandboxInv
<1>2. Plans' /\ Tidy'
  BY FollowsKeeps DEF SandboxInv
<1>3. Still(t, S)
  BY DEF Still, Follows, Inert
<1>4. CountsAreReferences'
  <2>1. opened' = opened /\ \A b \in opened : closed'[b] = FALSE =>
               closed[b] = FALSE /\ count'[b] - grips'[b] = count[b] - grips[b]
    BY DEF Inert, SandboxInv, SandboxTyped
  <2> QED
    BY <1>1, <1>3, <2>1, StillCounts
<1> QED
  BY <1>1, <1>2, <1>4 DEF SandboxInv, Grows

LEMMA InertDone ==
    ASSUME SandboxInv, Grows, NEW t \in Thread, todo[t] # <<>>, Done(t), Inert, Locks(t),
           Head(todo[t]).do \notin {"release", "clear", "bind"}
    PROVE  SandboxInv'
<1> DEFINE S == Pend(t) \ {Head(todo[t])}
<1>0. Plans
  BY DEF SandboxInv
<1>1. Moves(t, S)
  BY <1>0, DoneMoves
<1>2. \A s \in Session : \A x : Gives(S, s, x) <=> Gives(Pend(t), s, x)
  <2> SUFFICES ASSUME NEW s \in Session, NEW x PROVE Gives(S, s, x) <=> Gives(Pend(t), s, x)
    OBVIOUS
  <2>1. PICK X : X = {}
    OBVIOUS
  <2>2. Gives(X \cup S, s, x) <=> Gives(Pend(t), s, x)
    BY <1>0, <2>1, SameGives
  <2>3. X \cup S = S
    BY <2>1
  <2> QED
    BY <2>2, <2>3
<1>3. PICK h, X, R : h = Head(todo[t]) /\ X = {} /\ R = S
  OBVIOUS
<1> HIDE DEF S
<1>4. Follows(t, h, X, R)
  BY <1>1, <1>3 DEF Follows, Sound, Inert, Locks, S
<1> QED
  BY <1>2, <1>3, <1>4, InertStep

LEMMA InertThen ==
    ASSUME SandboxInv, Grows, NEW t \in Thread, todo[t] # <<>>, NEW x, Then(t, <<x>>), Inert, Locks(t),
           Replaces(t, x), Head(todo[t]).do \notin {"release", "clear", "bind"}
    PROVE  SandboxInv'
<1> DEFINE S == {x} \cup (Pend(t) \ {Head(todo[t])})
<1>0. Plans /\ x \in Row
  BY DEF SandboxInv, Replaces, Sound
<1>1. Moves(t, S)
  <2>1. \A y \in Pend(t) \ {Head(todo[t])} : Precedes(x, y)
    BY <1>0, HeadSteps DEF Replaces
  <2> QED
    BY <1>0, <2>1, ThenMoves
<1>2. \A s \in Session : \A y : Gives(S, s, y) <=> Gives(Pend(t), s, y)
  <2>1. \A y \in {x} : y.do \notin {"release", "clear", "bind"}
    BY DEF Replaces, Owning, Changing
  <2> QED
    BY <1>0, <2>1, SameGives
<1>3. PICK h, X, R : h = Head(todo[t]) /\ X = {x} /\ R = S
  OBVIOUS
<1> HIDE DEF S
<1>4. Follows(t, h, X, R)
  BY <1>1, <1>3 DEF Follows, Replaces, Inert, Locks, Opening, S
<1> QED
  BY <1>2, <1>3, <1>4, InertStep

LEMMA InertRaise ==
    ASSUME SandboxInv, Grows, NEW t \in Thread, todo[t] # <<>>, Raise(t), Inert, Locks(t),
           Head(todo[t]).do \in {"dispatch", "tool", "adopt"} \cup Opening
    PROVE  SandboxInv'
<1>0. Plans
  BY DEF SandboxInv
<1>1. Moves(t, {})
  BY <1>0, RaiseMoves
<1>2. \A s \in Session : \A x : Gives({}, s, x) <=> Gives(Pend(t), s, x)
  BY <1>0, NoGives DEF Gives
<1>3. PICK h, X : h = Head(todo[t]) /\ X = {}
  OBVIOUS
<1>4. Follows(t, h, X, X)
  BY <1>1, <1>3 DEF Follows, Sound, Inert, Locks
<1> QED
  BY <1>2, <1>3, <1>4, InertStep

LEMMA HeadRow ==
    ASSUME SandboxInv, NEW t \in Thread, todo[t] # <<>>
    PROVE  /\ Head(todo[t]) \in Pend(t) /\ Head(todo[t]) \in Row /\ Head(todo[t]).s \in made
           /\ Head(todo[t]).b \in opened \cup {NoBox}
           /\ Head(todo[t]).do \in {"bind", "adopt", "opened"} => Head(todo[t]).b \in opened
  BY HeadSteps DEF SandboxInv, Plans, Sound

\* A step about a sandbox alone names the session First for want of another.
LEMMA BoxStep ==
    ASSUME SandboxInv, NEW do \in {"aclose", "rmtree", "dispatch", "call"}, NEW b \in opened \cup {NoBox}
    PROVE  /\ Step(do, First, b).do = do /\ Step(do, First, b).s = First /\ Step(do, First, b).b = b
           /\ Step(do, First, b) \in Row /\ Sound({Step(do, First, b)}, made, opened)
<1>1. First \in made /\ First \in Session /\ b \in Box \cup {NoBox}
  BY SandboxConstants DEF SandboxInv, SandboxTyped
<1>2. Step(do, First, b) = [do |-> do, s |-> First, b |-> b, was |-> NoBox]
  BY DEF Step
<1>3. Step(do, First, b) \in Row
  BY <1>1, <1>2 DEF Row, Deeds
<1> QED
  BY <1>1, <1>2, <1>3 DEF Sound

\* AClose closes a sandbox; whoever refers to it keeps doing so.
LEMMA ACloseInv ==
    ASSUME SandboxInv, Grows, NEW t \in Thread, AClose(t)
    PROVE  SandboxInv'
<1>0. todo[t] # <<>> /\ Head(todo[t]).do = "aclose"
  BY DEF AClose, Doing
<1>1. Inert /\ Locks(t)
  BY DEF AClose, Inert, Locks, SandboxInv, SandboxTyped, sessions
<1>2. PICK b \in opened \cup {NoBox} : b = Head(todo[t]).b
  BY <1>0, HeadRow
<1>3. CASE Done(t)
  BY <1>0, <1>1, <1>3, InertDone
<1>4. CASE Then(t, <<Step("rmtree", First, b)>>)
  <2>1. PICK x : x = Step("rmtree", First, b)
    OBVIOUS
  <2>2. x.do = "rmtree" /\ Sound({x}, made, opened)
    BY <2>1, BoxStep
  <2>3. Replaces(t, x)
    BY <1>0, <2>2 DEF Replaces, Owning, Changing, Opening, Precedes
  <2> QED
    BY <1>0, <1>1, <1>4, <2>1, <2>3, InertThen
<1> QED
  BY <1>2, <1>3, <1>4 DEF AClose

LEMMA DispatchInv ==
    ASSUME SandboxInv, Grows, NEW t \in Thread, Dispatch(t) \/ UseEnsured(t)
    PROVE  SandboxInv'
<1>0. todo[t] # <<>> /\ Head(todo[t]).do \in {"dispatch", "tool"}
  BY DEF Dispatch, UseEnsured, Doing
<1>1. Inert /\ Locks(t)
  BY DEF Dispatch, UseEnsured, Inert, Locks, SandboxInv, SandboxTyped, sessions, boxes
<1>2. /\ Head(todo[t]).b \in opened \cup {NoBox}
      /\ slot[Head(todo[t]).s] \in opened \cup {NoBox}
  BY <1>0, HeadRow DEF SandboxInv, SandboxTyped
<1>3. CASE Raise(t)
  BY <1>0, <1>1, <1>3, InertRaise
<1>4. ASSUME NEW do \in {"call", "dispatch"}, NEW b \in opened \cup {NoBox},
             Then(t, <<Step(do, First, b)>>)
      PROVE  SandboxInv'
  <2>1. PICK x : x = Step(do, First, b)
    OBVIOUS
  <2>2. x.do = do /\ Sound({x}, made, opened)
    BY <2>1, BoxStep
  <2>3. Replaces(t, x)
    BY <1>0, <2>2 DEF Replaces, Owning, Changing, Opening, Precedes
  <2> QED
    BY <1>0, <1>1, <1>4, <2>1, <2>3, InertThen
<1> QED
  BY <1>2, <1>3, <1>4 DEF Dispatch, UseEnsured

LEMMA PlainInv ==
    ASSUME SandboxInv, Grows, NEW t \in Thread, RmTree(t) \/ Call(t) \/ Place(t) \/ Deepen(t)
    PROVE  SandboxInv'
<1>0. todo[t] # <<>> /\ Head(todo[t]).do \in {"rmtree", "call", "temp", "shared", "deepen"}
  BY DEF RmTree, Call, Place, Deepen, Doing
<1>1. Inert /\ Locks(t)
  BY DEF RmTree, Call, Place, Deepen, Inert, Locks, SandboxInv, SandboxTyped, sessions, boxes
<1>2. Done(t)
  BY DEF RmTree, Call, Place, Deepen
<1> QED
  BY <1>0, <1>1, <1>2, InertDone

LEMMA EnsureInv ==
    ASSUME SandboxInv, Grows, NEW t \in Thread, Ensure(t) \/ WaitLock(t)
    PROVE  SandboxInv'
<1>0. todo[t] # <<>> /\ Head(todo[t]).do \in {"ensure", "lock"}
  BY DEF Ensure, WaitLock, Doing
<1>1. PICK s \in made : s = Head(todo[t]).s
  BY <1>0, HeadRow
<1>2. Inert /\ Locks(t) /\ s \in Session
  <2>1. s \in Session /\ opener \in [Session -> Thread \cup {NoThread}] /\ closed \in [Box -> BOOLEAN]
    BY DEF SandboxInv, SandboxTyped
  <2>2. UNCHANGED <<made, slot, opened, count, grips, closed>>
    BY DEF Ensure, WaitLock, sessions, boxes
  <2>3. opener' = opener \/ (opener' = [opener EXCEPT ![s] = t] /\ opener[s] = NoThread)
    BY <1>1 DEF Ensure, WaitLock
  <2> QED
    BY <1>1, <2>1, <2>2, <2>3 DEF Inert, Locks
<1>3. CASE Done(t)
  BY <1>0, <1>2, <1>3, InertDone
<1>4. ASSUME NEW do \in {"lock", "locked"}, Then(t, <<Step(do, s, NoBox)>>),
             do = "locked" => opener'[s] = t
      PROVE  SandboxInv'
  <2>1. PICK x : x = Step(do, s, NoBox)
    OBVIOUS
  <2>2. x = [do |-> do, s |-> s, b |-> NoBox, was |-> NoBox]
    BY <2>1 DEF Step
  <2>3. x.do = do /\ x.s = s /\ x.b = NoBox /\ x.was = NoBox /\ Sound({x}, made, opened)
    BY <1>2, <2>2 DEF Sound, Row, Deeds
  <2>4. Replaces(t, x)
    BY <1>0, <1>1, <1>4, <2>3 DEF Replaces, Owning, Changing, Opening, Precedes
  <2> QED
    BY <1>0, <1>2, <1>4, <2>1, <2>4, InertThen
<1>5. CASE Ensure(t)
  BY <1>1, <1>3, <1>4, <1>5 DEF Ensure
<1>6. CASE WaitLock(t)
  <2>1. opener' = [opener EXCEPT ![s] = t] /\ Then(t, <<Step("locked", s, NoBox)>>)
    BY <1>1, <1>6 DEF WaitLock
  <2>2. opener'[s] = t
    BY <1>2, <2>1 DEF SandboxInv, SandboxTyped
  <2> QED
    BY <1>4, <2>1, <2>2
<1> QED
  BY <1>5, <1>6

-----------------------------------------------------------------------------
(* Steps that change who holds a sandbox *)

\* Nothing changes for sessions other than z.
OnlyFor(z, t, S) ==
    /\ Moves(t, S) /\ made' = made
    /\ \A s \in made : s # z =>
          slot'[s] = slot[s] /\ \A x : Gives(S, s, x) <=> Gives(Pend(t), s, x)

LEMMA OthersHold ==
    ASSUME SandboxTyped, NEW t \in Thread, NEW S, NEW z, OnlyFor(z, t, S), NEW b
    PROVE  Holders(b)' \ {z} = Holders(b) \ {z}
<1>1. \A s \in made : s # z => slot'[s] = slot[s] /\ (GivenBack(s)' <=> GivenBack(s))
  <2> SUFFICES ASSUME NEW s \in made, s # z
               PROVE  slot'[s] = slot[s] /\ (GivenBack(s)' <=> GivenBack(s))
    OBVIOUS
  <2>1. slot'[s] = slot[s] /\ Moves(t, S) /\ (Gives(S, s, slot[s]) <=> Gives(Pend(t), s, slot[s]))
    BY DEF OnlyFor
  <2> QED
    BY <2>1, SameGiven
<1>2. made' = made
  BY DEF OnlyFor
<1> QED
  BY <1>1, <1>2 DEF Holders

LEMMA UserLeaves ==
    ASSUME SandboxInv, NEW b \in opened \ spoilt, ~closed[b], NEW z \in Holders(b),
           Holders(b)' = Holders(b) \ {z}, count'[b] = count[b] - 1, grips'[b] = grips[b]
    PROVE  count'[b] = Cardinality(Holders(b)') + grips'[b]
<1>1. IsFiniteSet(Holders(b)) /\ Cardinality(Holders(b)) \in Nat
  BY HoldersFinite DEF SandboxInv
<1>2. Cardinality(Holders(b) \ {z}) = Cardinality(Holders(b)) - 1
  BY <1>1, FS_RemoveElement
<1>3. count[b] = Cardinality(Holders(b)) + grips[b] /\ grips[b] \in Nat
  BY DEF SandboxInv, CountsAreReferences, SandboxTyped
<1> QED
  BY <1>1, <1>2, <1>3

LEMMA UserComes ==
    ASSUME SandboxInv, NEW b \in opened \ spoilt, ~closed[b], NEW z, z \notin Holders(b),
           Holders(b)' = Holders(b) \cup {z}, count'[b] = count[b] + 1, grips'[b] = grips[b]
    PROVE  count'[b] = Cardinality(Holders(b)') + grips'[b]
<1>1. IsFiniteSet(Holders(b)) /\ Cardinality(Holders(b)) \in Nat
  BY HoldersFinite DEF SandboxInv
<1>2. Cardinality(Holders(b) \cup {z}) = Cardinality(Holders(b)) + 1
  BY <1>1, FS_AddElement
<1>3. count[b] = Cardinality(Holders(b)) + grips[b] /\ grips[b] \in Nat
  BY DEF SandboxInv, CountsAreReferences, SandboxTyped
<1> QED
  BY <1>1, <1>2, <1>3

LEMMA ReleaseInv ==
    ASSUME SandboxInv, Grows, NEW t \in Thread, Release(t)
    PROVE  SandboxInv'
<1>0. todo[t] # <<>> /\ Head(todo[t]).do = "release" /\ SandboxTyped /\ Plans
  BY DEF Release, Doing, SandboxInv
<1>1. PICK h : h = Head(todo[t])
  OBVIOUS
<1>2. /\ h \in Pend(t) /\ h \in Row /\ h.s \in made /\ h.b \in opened \cup {NoBox} /\ h.do = "release"
      /\ \A y \in Pend(t) \ {h} : Precedes(h, y)
  BY <1>0, <1>1, HeadRow, HeadSteps
<1>3. PICK y \in Pend(t) : y.do \in Assigning /\ y.s = h.s /\ y.was = h.b
  BY <1>0, <1>2 DEF Plans, Sound
<1>4. UNCHANGED <<made, slot, opener, opened, closed, grips>>
  BY DEF Release, sessions
<1>5. /\ count' \in [Box -> Int] /\ \A b \in Box : b # h.b => count'[b] = count[b]
      /\ ~Live(h.b) => count' = count
      /\ Live(h.b) => count'[h.b] = count[h.b] - 1
  <2>1. CASE Live(h.b)
    <3>1. count' = [count EXCEPT ![h.b] = @ - 1] /\ h.b \in Box
      BY <1>0, <1>1, <1>2, <2>1 DEF Release, Live, SandboxTyped
    <3> QED
      BY <1>0, <2>1, <3>1 DEF SandboxTyped
  <2>2. CASE ~Live(h.b)
    BY <1>0, <1>1, <2>2 DEF Release, SandboxTyped
  <2> QED
    BY <2>1, <2>2
<1>6. SandboxTyped'
  <2>1. Live(h.b) => h.b \in opened
    BY <1>2 DEF Live
  <2>2. \A b \in Box \ opened : count'[b] = count[b]
    BY <1>5, <2>1
  <2> QED
    BY <1>0, <1>4, <1>5, <2>2 DEF SandboxTyped
<1>7. PICK X, S :
        /\ Moves(t, S) /\ S = X \cup (Pend(t) \ {h}) /\ Sound(X, made, opened)
        /\ \A x \in X : x.do = "aclose"
  <2>1. CASE Done(t)
    <3>1. Moves(t, Pend(t) \ {h})
      BY <1>0, <1>1, <2>1, DoneMoves
    <3>2. PICK X, S : X = {} /\ S = Pend(t) \ {h}
      OBVIOUS
    <3>3. S = X \cup (Pend(t) \ {h}) /\ Moves(t, S) /\ Sound(X, made, opened)
      BY <3>1, <3>2 DEF Sound
    <3> QED
      BY <3>2, <3>3
  <2>2. CASE Then(t, <<Step("aclose", First, h.b)>>)
    <3>1. PICK x : x = Step("aclose", First, h.b)
      OBVIOUS
    <3>2. x.do = "aclose" /\ x \in Row /\ Sound({x}, made, opened)
      BY <1>2, <3>1, BoxStep
    <3>3. \A w \in Pend(t) \ {h} : Precedes(x, w)
      BY <1>2, <3>2 DEF Precedes, Opening
    <3>4. Moves(t, {x} \cup (Pend(t) \ {h}))
      BY <1>0, <1>1, <2>2, <3>1, <3>2, <3>3, ThenMoves
    <3> QED
      BY <3>2, <3>4
  <2> QED
    BY <1>1, <2>1, <2>2 DEF Release
<1>8. Plans' /\ Tidy'
  <2>1. Follows(t, h, X, S)
    BY <1>0, <1>1, <1>4, <1>7 DEF Follows, Owning, Changing, Opening
  <2> QED
    BY <2>1, FollowsKeeps DEF SandboxInv
\* What the thread gives back is the sandbox h.b, of the session h.s alone.
<1>9. \A s, x : Gives(S, s, x) <=> s = h.s /\ x = h.b
  <2>1. y # h /\ y \in S
    BY <1>2, <1>3, <1>7 DEF Assigning
  <2>2. \A w \in S : w.do # "release"
    BY <1>2, <1>7 DEF Precedes, Opening
  <2>3. \A w \in S : w.do \in Assigning => w = y
    BY <1>0, <1>3, <1>7, OneAssigns DEF Assigning
  <2> QED
    BY <1>3, <2>1, <2>2, <2>3 DEF Gives
<1>10. \A s, x : ~Gives(Pend(t), s, x)
  BY <1>2 DEF Gives
<1>11. OnlyFor(h.s, t, S)
  BY <1>4, <1>7, <1>9, <1>10 DEF OnlyFor
\* Where operations overlapped, only spoilt sandboxes are touched.
<1>12. ASSUME Sullied(h.s), NEW b \in opened \ spoilt', ~closed'[b]
       PROVE  count'[b] = Cardinality(Holders(b)') + grips'[b]
  <2>1. b \in Box /\ b # NoBox /\ b # h.b /\ slot[h.s] # b /\ closed'[b] = closed[b] /\ grips' = grips
    BY <1>0, <1>2, <1>4, <1>12, SandboxConstants DEF SandboxTyped, Sullied, Grows, Changing
  <2>2. Holders(b)' \ {h.s} = Holders(b) \ {h.s}
    BY <1>0, <1>11, OthersHold
  <2>3. h.s \notin Holders(b) /\ h.s \notin Holders(b)'
    BY <1>4, <2>1 DEF Holders
  <2>4. Holders(b)' = Holders(b)
    BY <2>2, <2>3
  <2>5. SameUsers(b)
    BY <1>5, <2>1, <2>4 DEF SameUsers
  <2> QED
    BY <1>6, <1>12, <2>5, CountKept
<1>13. ASSUME Good(h.s), ~Clash(h.s), NEW b \in opened \ spoilt', ~closed'[b]
       PROVE  count'[b] = Cardinality(Holders(b)') + grips'[b]
  <2>0. b \in Box /\ b # NoBox /\ ~closed[b] /\ b \notin spoilt /\ grips' = grips /\ slot[h.s] = h.b
    BY <1>0, <1>2, <1>4, <1>13, SandboxConstants DEF SandboxTyped, Grows, Good
  <2>1. Holders(b)' \ {h.s} = Holders(b) \ {h.s}
    BY <1>0, <1>11, OthersHold
  <2>2. ~GivenBack(h.s) /\ GivenBack(h.s)'
    <3>1. \A u \in Thread : u # t => Steps(todo'[u]) = Pend(u)
      BY <1>7 DEF Moves, Pend
    <3>2. Steps(todo'[t]) = S
      BY <1>7 DEF Moves
    <3>3. \A u \in Thread : \A x : ~Gives(Pend(u), h.s, x)
      BY <1>2, <1>10, <1>13, NoOtherGives DEF Changing
    <3>4. slot'[h.s] = slot[h.s]
      BY <1>4
    <3> QED
      BY <1>9, <2>0, <3>1, <3>2, <3>3, <3>4, GivenIs
  <2>3. CASE b = h.b
    <3>1. h.s \in Holders(b) /\ h.s \notin Holders(b)'
      BY <1>2, <2>0, <2>2, <2>3 DEF Holders
    <3>2. Holders(b)' = Holders(b) \ {h.s}
      BY <2>1, <3>1
    <3>3. Live(h.b)
      BY <2>0, <2>3 DEF Live
    <3> QED
      BY <1>5, <2>0, <2>3, <3>1, <3>2, <3>3, UserLeaves
  <2>4. CASE b # h.b
    <3>1. h.s \notin Holders(b) /\ h.s \notin Holders(b)'
      BY <1>4, <2>0, <2>4 DEF Holders
    <3>2. Holders(b)' = Holders(b)
      BY <2>1, <3>1
    <3>3. SameUsers(b)
      BY <1>4, <1>5, <2>0, <2>4, <3>2 DEF SameUsers
    <3> QED
      BY <1>6, <1>13, <3>3, CountKept
  <2> QED
    BY <2>3, <2>4
<1>14. h.s \in Session
  BY <1>0, <1>2 DEF SandboxTyped
<1>15. CountsAreReferences'
  BY <1>4, <1>12, <1>13, <1>14 DEF SandboxInv, Tidy, Clean, CountsAreReferences
<1> QED
  BY <1>6, <1>8, <1>15 DEF SandboxInv, Grows

\* The first step h of thread t puts v into the slot of h.s, in which either all
\* sandboxes are spoilt or none is that counts the session.
Puts(t, h, X, S, v) ==
    /\ Follows(t, h, X, S) /\ h.s \in made /\ v \in opened \cup {NoBox}
    /\ slot' \in [Session -> opened \cup {NoBox}] /\ opened' \in SUBSET Box
    /\ opener' \in [Session -> Thread \cup {NoThread}]
    /\ UNCHANGED <<closed, grips>>
    /\ count' \in [Box -> Int]
    /\ \A b \in Box : count'[b] = IF b = v THEN count[b] + 1 ELSE count[b]
    /\ \A s \in made : s # h.s => \A x : Gives(S, s, x) <=> Gives(Pend(t), s, x)
    /\ \/ /\ v \in spoilt' \cup {NoBox}
          /\ slot[h.s] \in spoilt' \cup {NoBox} /\ slot'[h.s] \in spoilt' \cup {NoBox}
       \/ /\ slot'[h.s] = v
          /\ v # NoBox => ~GivenBack(h.s)'
          /\ \A b \in opened : ~closed[b] => h.s \notin Holders(b)

LEMMA PutsInv ==
    ASSUME SandboxInv, Grows, NEW t \in Thread, NEW h, NEW X, NEW S, NEW v, Puts(t, h, X, S, v)
    PROVE  SandboxInv'
<1>0. /\ SandboxTyped /\ made' = made /\ opened \subseteq opened' /\ opened' \subseteq Box
      /\ closed' = closed /\ grips' = grips
      /\ h.s \in made /\ v \in opened \cup {NoBox} /\ NoBox \notin Box
  BY SandboxConstants DEF SandboxInv, Puts, Follows
<1>1. SandboxTyped'
  <2>1. \A s \in Session \ made : slot'[s] = NoBox
    BY <1>0 DEF SandboxTyped, Puts, Follows
  <2>2. \A b \in Box \ opened : count'[b] = 0
    BY <1>0 DEF SandboxTyped, Puts
  <2>3. slot' \in [Session -> opened' \cup {NoBox}] /\ count' \in [Box -> Int]
        /\ opener' \in [Session -> Thread \cup {NoThread}]
    BY <1>0 DEF Puts
  <2> QED
    BY <1>0, <2>1, <2>2, <2>3 DEF SandboxTyped
<1>2. Plans' /\ Tidy'
  BY FollowsKeeps DEF SandboxInv, Puts
<1>3. ASSUME NEW b \in opened' \ spoilt', ~closed'[b]
      PROVE  count'[b] = Cardinality(Holders(b)') + grips'[b]
  <2>0. b \in Box /\ b # NoBox /\ ~closed[b] /\ b \notin spoilt
    BY <1>0, <1>3 DEF Grows
  <2>1. CASE b \notin opened
    <3>1. count'[b] = 0 /\ grips'[b] = 0
      BY <1>0, <2>0, <2>1 DEF Puts, SandboxTyped
    <3>2. \A s \in made' : slot'[s] \in opened \cup {NoBox}
      BY <1>0 DEF Puts, SandboxTyped
    <3> QED
      BY <1>0, <1>1, <1>3, <2>1, <3>1, <3>2, CountOfNew
  <2>2. CASE b \in opened
    <3>1. OnlyFor(h.s, t, S)
      BY <1>0 DEF OnlyFor, Puts, Follows, SandboxTyped
    <3>2. Holders(b)' \ {h.s} = Holders(b) \ {h.s}
      BY <1>0, <3>1, OthersHold
    <3>3. h.s \notin Holders(b)
      BY <1>0, <1>3, <2>0, <2>2 DEF Puts, Holders
    <3>4. CASE b = v
      <4>1. h.s \in Holders(b)'
        BY <1>0, <1>3, <2>0, <3>4 DEF Puts, Holders
      <4>2. Holders(b)' = Holders(b) \cup {h.s}
        BY <3>2, <3>3, <4>1
      <4>3. count'[b] = count[b] + 1 /\ grips'[b] = grips[b]
        BY <1>0, <2>0, <3>4 DEF Puts
      <4> QED
        BY <2>0, <2>2, <3>3, <4>2, <4>3, UserComes
    <3>5. CASE b # v
      <4>1. h.s \notin Holders(b)'
        BY <1>3, <2>0, <3>5 DEF Puts, Holders
      <4>2. Holders(b)' = Holders(b) /\ count'[b] = count[b]
        BY <2>0, <3>2, <3>3, <3>5, <4>1 DEF Puts
      <4>3. SameUsers(b)
        BY <1>0, <4>2 DEF SameUsers
      <4> QED
        BY <1>1, <1>3, <2>2, <4>3, CountKept
    <3> QED
      BY <3>4, <3>5
  <2> QED
    BY <2>1, <2>2
<1> QED
  BY <1>1, <1>2, <1>3 DEF SandboxInv, CountsAreReferences, Grows

\* What is known of a thread whose first step assigns the slot of a session.
LEMMA Assigner ==
    ASSUME SandboxInv, NEW t \in Thread, todo[t] # <<>>, NEW h, h = Head(todo[t]),
           h.do \in {"clear", "bind", "adopt"}
    PROVE  /\ \A y \in Pend(t) : y.do \in Assigning => y = h
           /\ \A y \in Pend(t) : y.do # "release"
           /\ ~Clash(h.s) \/ h.do = "adopt" => \A u \in Thread : u # t => \A x : ~Gives(Pend(u), h.s, x)
           /\ h.do \in Assigning => Gives(Pend(t), h.s, h.was)
<1>0. Plans
  BY DEF SandboxInv
<1>1. h \in Pend(t) /\ \A y \in Pend(t) \ {h} : Precedes(h, y)
  BY <1>0, HeadSteps
<1>2. \A y \in Pend(t) : y.do # "release" /\ (y.do \in Assigning => y = h)
  BY <1>1 DEF Precedes, Assigning, Opening
<1>3. ~Clash(h.s) \/ h.do = "adopt" =>
         \A u \in Thread : u # t => \A y \in Pend(u) : y.do \in Assigning => y.s # h.s
  BY <1>1 DEF Clash, SandboxInv, Tidy, Newborn, Owning, Changing, Opening, Assigning
<1> QED
  BY <1>1, <1>2, <1>3 DEF Gives

\* No open sandbox counts a session whose slot is empty or already given back.
LEMMA NotCounted ==
    ASSUME SandboxInv, NEW t \in Thread, NEW s, slot[s] = NoBox \/ Gives(Pend(t), s, slot[s])
    PROVE  \A b \in opened : s \notin Holders(b)
<1>1. NoBox \notin opened
  BY SandboxConstants DEF SandboxInv, SandboxTyped
<1>2. CASE slot[s] = NoBox
  BY <1>1, <1>2 DEF Holders
<1>3. CASE Gives(Pend(t), s, slot[s])
  <2>1. GivenBack(s)
    BY <1>3, GivenIs
  <2> QED
    BY <2>1 DEF Holders
<1> QED
  BY <1>2, <1>3

LEMMA ClearSlotInv ==
    ASSUME SandboxInv, Grows, NEW t \in Thread, ClearSlot(t)
    PROVE  SandboxInv'
<1>0. todo[t] # <<>> /\ Head(todo[t]).do = "clear" /\ Done(t) /\ SandboxTyped /\ Plans
  BY DEF ClearSlot, Doing, SandboxInv
<1>1. PICK h, X, S, v : h = Head(todo[t]) /\ X = {} /\ S = Pend(t) \ {h} /\ v = NoBox
  OBVIOUS
<1>2. h \in Pend(t) /\ h.s \in made /\ h.s \in Session /\ h.do = "clear" /\ \A b \in Box : b # v
  BY <1>0, <1>1, HeadRow, SandboxConstants DEF SandboxTyped
<1>3. /\ slot' = [slot EXCEPT ![h.s] = NoBox]
      /\ UNCHANGED <<made, opener, opened, count, closed, grips>>
  BY <1>1 DEF ClearSlot, boxes
<1>4. Moves(t, S)
  BY <1>0, <1>1, DoneMoves
<1>5. Follows(t, h, X, S)
  BY <1>0, <1>1, <1>2, <1>3, <1>4 DEF Follows, Sound, SandboxTyped
<1>6. \A s \in made : s # h.s => \A x : Gives(S, s, x) <=> Gives(Pend(t), s, x)
  BY <1>0, <1>1, <1>2, Assigner DEF Gives
<1>7. slot'[h.s] = v /\ slot' \in [Session -> opened \cup {NoBox}]
  BY <1>0, <1>1, <1>2, <1>3 DEF SandboxTyped
<1>8. \/ slot[h.s] \in spoilt' \cup {NoBox}
      \/ \A b \in opened : h.s \notin Holders(b)
  <2>1. CASE Sullied(h.s)
    BY <2>1 DEF Sullied, Grows
  <2>2. CASE Good(h.s)
    <3>1. Gives(Pend(t), h.s, slot[h.s])
      <4>1. h.was = slot[h.s]
        BY <1>2, <2>2 DEF Good, Assigning
      <4> QED
        BY <1>0, <1>1, <1>2, <4>1, Assigner DEF Assigning
    <3> QED
      BY <3>1, NotCounted
  <2> QED
    BY <1>2, <2>1, <2>2 DEF SandboxInv, Tidy, Clean
<1>9. Puts(t, h, X, S, v)
  BY <1>0, <1>1, <1>2, <1>3, <1>5, <1>6, <1>7, <1>8 DEF Puts, SandboxTyped
<1> QED
  BY <1>9, PutsInv

LEMMA BindStepInv ==
    ASSUME SandboxInv, Grows, NEW t \in Thread,
           BindStep(t) \/ (BindRaises(t) /\ slot[Head(todo[t]).s] \in spoilt' \cup {NoBox})
    PROVE  SandboxInv'
<1>0. todo[t] # <<>> /\ Head(todo[t]).do \in {"bind", "adopt"} /\ SandboxTyped /\ Plans
  BY DEF BindStep, BindRaises, Doing, SandboxInv
<1>1. PICK h : h = Head(todo[t])
  OBVIOUS
<1>2. /\ h \in Pend(t) /\ h.s \in made /\ h.s \in Session /\ h.do \in {"bind", "adopt"}
      /\ h.b \in opened /\ h.b \in Box /\ h.b # NoBox
  <2>1. h \in Pend(t) /\ h.s \in made /\ h.s \in Session /\ h.b \in opened
    BY <1>0, <1>1, HeadRow DEF SandboxTyped
  <2>2. h.b \in Box /\ h.b # NoBox
    BY <1>0, <2>1, SandboxConstants DEF SandboxTyped
  <2> QED
    BY <1>0, <1>1, <2>1, <2>2
<1>3. UNCHANGED <<made, opener, opened, closed, grips>>
  BY <1>1 DEF BindStep, BindRaises, sessions, boxes
<1>4. ASSUME NEW S, S \subseteq Pend(t) \ {h}
      PROVE  \A s, x : ~Gives(S, s, x) /\ (s # h.s => ~Gives(Pend(t), s, x))
  BY <1>0, <1>1, <1>2, <1>4, Assigner DEF Gives
\* What the slot names is spoilt, or given back, or nothing.
<1>5. \/ /\ h.b \in spoilt' \cup {NoBox} /\ slot[h.s] \in spoilt' \cup {NoBox}
      \/ /\ ~Clash(h.s) \/ h.do = "adopt"
         /\ \A b \in opened : h.s \notin Holders(b)
  <2>1. CASE h.do = "adopt"
    <3>1. slot[h.s] = NoBox
      BY <1>2, <2>1 DEF SandboxInv, Tidy, Newborn
    <3> QED
      BY <2>1, <3>1, NotCounted
  <2>2. CASE h.do = "bind" /\ Sullied(h.s)
    BY <1>2, <2>2 DEF Sullied, Grows, Changing
  <2>3. CASE h.do = "bind" /\ Good(h.s) /\ ~Clash(h.s)
    <3>1. Gives(Pend(t), h.s, slot[h.s])
      <4>1. h.was = slot[h.s]
        BY <1>2, <2>3 DEF Good, Assigning
      <4> QED
        BY <1>0, <1>1, <1>2, <2>3, <4>1, Assigner DEF Assigning
    <3> QED
      BY <2>3, <3>1, NotCounted
  <2> QED
    BY <1>2, <2>1, <2>2, <2>3 DEF SandboxInv, Tidy, Clean
<1>6. PICK X : X = {}
  OBVIOUS
<1>7. CASE BindRaises(t) /\ slot[h.s] \in spoilt' \cup {NoBox}
  <2>1. Raise(t) /\ UNCHANGED <<slot, count>>
    BY <1>7 DEF BindRaises, sessions, boxes
  <2>2. Moves(t, X)
    BY <1>0, <1>6, <2>1, RaiseMoves
  <2>3. Follows(t, h, X, X)
    BY <1>0, <1>1, <1>3, <1>6, <2>1, <2>2 DEF Follows, Sound
  <2>4. PICK v : v = NoBox
    OBVIOUS
  <2>5. \A b \in Box : b # v
    BY <2>4, SandboxConstants
  <2>6. \A s \in made : s # h.s => \A x : Gives(X, s, x) <=> Gives(Pend(t), s, x)
    BY <1>4, <1>6
  <2>7. Puts(t, h, X, X, v)
    BY <1>0, <1>2, <1>3, <1>7, <2>1, <2>3, <2>4, <2>5, <2>6 DEF Puts, SandboxTyped
  <2> QED
    BY <2>7, PutsInv
<1>8. CASE BindStep(t)
  <2>1. Done(t) /\ slot' = [slot EXCEPT ![h.s] = h.b] /\ count' = [count EXCEPT ![h.b] = @ + 1]
    BY <1>1, <1>8 DEF BindStep, Acquire
  <2>2. PICK S : S = Pend(t) \ {h}
    OBVIOUS
  <2>3. Moves(t, S)
    BY <1>0, <1>1, <2>1, <2>2, DoneMoves
  <2>4. Follows(t, h, X, S)
    BY <1>0, <1>1, <1>2, <1>3, <1>6, <2>1, <2>2, <2>3 DEF Follows, Sound, SandboxTyped
  <2>5. PICK v : v = h.b
    OBVIOUS
  <2>6. \A s \in made : s # h.s => \A x : Gives(S, s, x) <=> Gives(Pend(t), s, x)
    BY <1>4, <2>2
  <2>7. ~Clash(h.s) \/ h.do = "adopt" => ~GivenBack(h.s)'
    <3>1. \A u \in Thread : Steps(todo'[u]) = IF u = t THEN S ELSE Pend(u)
      BY <2>3 DEF Moves, Pend
    <3>2. ~Clash(h.s) \/ h.do = "adopt" => \A u \in Thread : \A x : ~Gives(Steps(todo'[u]), h.s, x)
      BY <1>0, <1>1, <1>2, <1>4, <2>2, <3>1, Assigner
    <3> QED
      BY <3>2, GivenIs
  <2>8. /\ slot' \in [Session -> opened \cup {NoBox}] /\ slot'[h.s] = v
        /\ count' \in [Box -> Int]
        /\ \A b \in Box : count'[b] = IF b = v THEN count[b] + 1 ELSE count[b]
    BY <1>0, <1>2, <2>1, <2>5 DEF SandboxTyped
  <2>9. Puts(t, h, X, S, v)
    BY <1>0, <1>2, <1>3, <1>5, <2>4, <2>5, <2>6, <2>7, <2>8 DEF Puts, SandboxTyped
  <2> QED
    BY <2>9, PutsInv
<1> QED
  BY <1>1, <1>7, <1>8

LEMMA TakeOpenedInv ==
    ASSUME SandboxInv, Grows, NEW t \in Thread, TakeOpened(t)
    PROVE  SandboxInv'
<1>0. todo[t] # <<>> /\ Head(todo[t]).do = "opened" /\ Done(t) /\ SandboxTyped /\ Plans
  BY DEF TakeOpened, Doing, SandboxInv
<1>1. PICK h, X, S, v : h = Head(todo[t]) /\ X = {} /\ S = Pend(t) \ {h} /\ v = h.b
  OBVIOUS
<1>2. h \in Pend(t) /\ h.s \in made /\ h.s \in Session /\ h.do = "opened" /\ v \in opened /\ v \in Box
  BY <1>0, <1>1, HeadRow DEF SandboxTyped
<1>3. /\ slot' = [slot EXCEPT ![h.s] = v] /\ count' = [count EXCEPT ![v] = @ + 1]
      /\ opener' = [opener EXCEPT ![h.s] = NoThread]
      /\ UNCHANGED <<made, opened, closed, grips>>
  BY <1>1 DEF TakeOpened, Acquire
<1>4. Moves(t, S)
  BY <1>0, <1>1, DoneMoves
<1>5. Follows(t, h, X, S)
  BY <1>0, <1>1, <1>2, <1>3, <1>4 DEF Follows, Sound, SandboxTyped
<1>6. \A s, x : ~Gives(Pend(t), s, x) /\ ~Gives(S, s, x)
  <2>1. \A y \in Pend(t) : y.do \notin Assigning
    BY <1>0, <1>1, HeadSteps DEF Precedes, Opening, Assigning
  <2> QED
    BY <1>1, <2>1 DEF Gives
<1>7. /\ slot' \in [Session -> opened \cup {NoBox}] /\ slot'[h.s] = v
      /\ count' \in [Box -> Int] /\ opener' \in [Session -> Thread \cup {NoThread}]
      /\ \A b \in Box : count'[b] = IF b = v THEN count[b] + 1 ELSE count[b]
  BY <1>0, <1>2, <1>3 DEF SandboxTyped
<1>8. \/ v \in spoilt' \cup {NoBox} /\ slot[h.s] \in spoilt' \cup {NoBox}
      \/ ~GivenBack(h.s)' /\ \A b \in opened : h.s \notin Holders(b)
  <2>1. CASE Sullied(h.s)
    BY <1>1, <1>2, <2>1 DEF Sullied, Grows, Opening
  <2>2. CASE Good(h.s) /\ ~Clash(h.s)
    <3>1. slot[h.s] = NoBox
      BY <1>2, <2>2 DEF Good
    <3>2. \A u \in Thread : Steps(todo'[u]) = IF u = t THEN S ELSE Pend(u)
      BY <1>4 DEF Moves, Pend
    <3>3. \A u \in Thread : u # t => \A x : ~Gives(Pend(u), h.s, x)
      BY <1>2, <2>2, NoOtherGives DEF Opening
    <3>4. \A u \in Thread : ~Gives(Steps(todo'[u]), h.s, slot'[h.s])
      BY <1>6, <3>2, <3>3
    <3> QED
      BY <3>1, <3>4, GivenIs, NotCounted
  <2> QED
    BY <1>2, <2>1, <2>2 DEF SandboxInv, Tidy, Clean
<1>9. Puts(t, h, X, S, v)
  BY <1>0, <1>2, <1>3, <1>5, <1>6, <1>7, <1>8 DEF Puts, SandboxTyped
<1> QED
  BY <1>9, PutsInv

LEMMA OpenLockedInv ==
    ASSUME SandboxInv, Grows, NEW t \in Thread, OpenLocked(t)
    PROVE  SandboxInv'
<1>0. todo[t] # <<>> /\ Head(todo[t]).do = "locked" /\ SandboxTyped /\ Plans
  BY DEF OpenLocked, Doing, SandboxInv
<1>1. PICK h, v : h = Head(todo[t]) /\ v = NoBox
  OBVIOUS
<1>2. h \in Pend(t) /\ h.s \in made /\ h.s \in Session /\ h.do = "locked" /\ \A b \in Box : b # v
  BY <1>0, <1>1, HeadRow, SandboxConstants DEF SandboxTyped
<1>3. /\ UNCHANGED <<made, count, closed, grips>>
      /\ opener' \in [Session -> Thread \cup {NoThread}] /\ Locks(t)
  <2>1. UNCHANGED <<made, count, closed, grips>> /\ (opener' = opener \/ opener' = [opener EXCEPT ![h.s] = NoThread])
    BY <1>1 DEF OpenLocked
  <2> QED
    BY <1>0, <1>1, <1>2, <2>1 DEF SandboxTyped, Locks
<1>4. ASSUME ~Live(slot[h.s]) PROVE \A b \in opened : ~closed[b] => h.s \notin Holders(b)
  BY <1>0, <1>4, SandboxConstants DEF Live, Holders, SandboxTyped
<1>5. ASSUME slot' = [slot EXCEPT ![h.s] = NoBox], ~Live(slot[h.s]), opened \subseteq opened',
             opened' \in SUBSET Box, NEW X, NEW S, Follows(t, h, X, S),
             \A s \in made : \A x : Gives(S, s, x) <=> Gives(Pend(t), s, x)
      PROVE  SandboxInv'
  <2>1. /\ slot' \in [Session -> opened \cup {NoBox}] /\ slot'[h.s] = v
        /\ count' \in [Box -> Int]
        /\ \A b \in Box : count'[b] = IF b = v THEN count[b] + 1 ELSE count[b]
    BY <1>0, <1>1, <1>2, <1>3, <1>5 DEF SandboxTyped
  <2>2. \A s \in made : s # h.s => \A x : Gives(S, s, x) <=> Gives(Pend(t), s, x)
    BY <1>5
  <2>3. Puts(t, h, X, S, v)
    BY <1>1, <1>2, <1>3, <1>4, <1>5, <2>1, <2>2 DEF Puts
  <2> QED
    BY <2>3, PutsInv
<1>6. CASE Done(t) /\ UNCHANGED <<slot, opened>>
  <2>1. Inert
    BY <1>0, <1>3, <1>6 DEF Inert, SandboxTyped
  <2> QED
    BY <1>0, <1>3, <1>6, <2>1, InertDone
<1>7. CASE Raise(t) /\ slot' = [slot EXCEPT ![h.s] = NoBox] /\ ~Live(slot[h.s]) /\ opened' = opened
  <2>1. PICK X : X = {}
    OBVIOUS
  <2>2. Moves(t, X)
    BY <1>0, <1>7, <2>1, RaiseMoves
  <2>3. Follows(t, h, X, X)
    BY <1>0, <1>1, <1>2, <1>3, <1>7, <2>1, <2>2 DEF Follows, Sound, SandboxTyped, Locks
  <2>4. \A s \in made : \A x : Gives(X, s, x) <=> Gives(Pend(t), s, x)
    BY <1>0, <2>1, NoGives DEF Opening, Gives
  <2> QED
    BY <1>0, <1>5, <1>7, <2>3, <2>4 DEF SandboxTyped
<1>8. ASSUME NEW b \in Box \ opened, Then(t, <<Step("opened", h.s, b)>>), opened' = opened \cup {b},
             slot' = [slot EXCEPT ![h.s] = NoBox], ~Live(slot[h.s]), opener' = opener
      PROVE  SandboxInv'
  <2>1. PICK x : x = Step("opened", h.s, b)
    OBVIOUS
  <2>2. x = [do |-> "opened", s |-> h.s, b |-> b, was |-> NoBox]
    BY <2>1 DEF Step
  <2>3. x \in Row /\ x.do = "opened" /\ x.s = h.s /\ x.b = b /\ x.was = NoBox
    BY <1>2, <2>2 DEF Row, Deeds
  <2>4. PICK X, S : X = {x} /\ S = X \cup (Pend(t) \ {h})
    OBVIOUS
  <2>5. \A y \in Pend(t) \ {Head(todo[t])} : Precedes(x, y)
    BY <1>0, <2>3, HeadSteps DEF Precedes, Opening
  <2>6. Moves(t, S)
    BY <1>0, <1>1, <1>8, <2>1, <2>3, <2>4, <2>5, ThenMoves
  <2>7. Follows(t, h, X, S)
    <3>1. Sound(X, made', opened')
      BY <1>2, <1>3, <1>8, <2>3, <2>4 DEF Sound
    <3>2. \A s \in Session : slot'[s] = slot[s] \/ (s = h.s /\ slot'[s] = NoBox)
      BY <1>0, <1>8 DEF SandboxTyped
    <3>3. slot'[h.s] = NoBox /\ opener'[h.s] = t
      BY <1>0, <1>2, <1>8 DEF SandboxTyped, SandboxInv, Tidy, Held
    <3> QED
      BY <1>0, <1>1, <1>2, <1>3, <1>8, <2>3, <2>4, <2>6, <3>1, <3>2, <3>3 DEF Follows, Owning, Changing, Opening
  <2>8. \A s \in made : \A z : Gives(S, s, z) <=> Gives(Pend(t), s, z)
    <3>1. \A y \in X : y.do \notin {"release", "clear", "bind"}
      BY <2>3, <2>4
    <3> QED
      BY <1>0, <1>1, <2>4, <3>1, SameGives
  <2>9. opened' \in SUBSET Box /\ opened \subseteq opened'
    BY <1>0, <1>8 DEF SandboxTyped
  <2> QED
    BY <1>5, <1>8, <2>7, <2>8, <2>9
<1>9. ~Live(slot[h.s]) => [slot EXCEPT ![h.s] = IF Live(@) THEN @ ELSE NoBox] = [slot EXCEPT ![h.s] = NoBox]
  OBVIOUS
<1> QED
  BY <1>1, <1>6, <1>7, <1>8, <1>9 DEF OpenLocked, Locked, AOpen

-----------------------------------------------------------------------------
(* Operations *)

\* A thread begins S, in which nothing has been given back yet; uses of sandboxes
\* begin and end, and new ones have none.
Opens(t, S) ==
    /\ Begins(t, S)
    /\ \A s \in Session : \A x : ~Gives(S, s, x)
    /\ \A b \in opened' \ opened : count'[b] = 0 /\ grips'[b] = 0
    /\ \A b \in opened : closed'[b] = FALSE =>
          closed[b] = FALSE /\ count'[b] - grips'[b] = count[b] - grips[b]

LEMMA OpensInv ==
    ASSUME SandboxInv, Grows, NEW t \in Thread, NEW S, Opens(t, S), SandboxTyped'
    PROVE  SandboxInv'
<1>1. Plans' /\ Tidy'
  BY BeginsKeeps DEF SandboxInv, Opens
<1>2. \A s \in Session : \A x : ~Gives(Pend(t), s, x)
  BY DEF Opens, Begins, Pend, Steps, Gives
<1>3. Still(t, S)
  BY <1>2 DEF Still, Opens, Begins
<1>4. CountsAreReferences'
  BY <1>3, StillCounts DEF Opens, Begins
<1> QED
  BY <1>1, <1>4 DEF SandboxInv, Grows

LEMMA EmptyPlan == <<>> \in Seq(Row) /\ Ordered(<<>>) /\ Steps(<<>>) = {}
  BY DEF Ordered, Steps

LEMMA OnePlan ==
    ASSUME NEW x \in Row
    PROVE  <<x>> \in Seq(Row) /\ Ordered(<<x>>) /\ Steps(<<x>>) = {x}
<1>1. DOMAIN <<x>> = {1} /\ <<x>>[1] = x
  OBVIOUS
<1>2. Steps(<<x>>) = {x}
  BY <1>1 DEF Steps
<1>3. Ordered(<<x>>)
  BY <1>1 DEF Ordered
<1> QED
  BY <1>2, <1>3

LEMMA TwoPlan ==
    ASSUME NEW x \in Row, NEW y \in Row, Precedes(x, y)
    PROVE  <<x, y>> \in Seq(Row) /\ Ordered(<<x, y>>) /\ Steps(<<x, y>>) = {x, y}
<1>1. PICK p : p = <<x, y>>
  OBVIOUS
<1>2. p \in Seq(Row) /\ DOMAIN p = {1, 2} /\ p[1] = x /\ p[2] = y
  BY <1>1
<1>3. Steps(p) = {x, y}
  BY <1>2 DEF Steps
<1>4. Ordered(p)
  BY <1>2 DEF Ordered
<1> QED
  BY <1>1, <1>2, <1>3, <1>4

Triple(p, x, y, z) == p = Append(<<x, y>>, z)

LEMMA ThreePlan ==
    ASSUME NEW x \in Row, NEW y \in Row, NEW z \in Row, Precedes(x, y), Precedes(x, z), Precedes(y, z),
           NEW p, Triple(p, x, y, z)
    PROVE  p \in Seq(Row) /\ Ordered(p) /\ Steps(p) = {x, y, z}
<1>1. p \in Seq(Row) /\ Len(p) = 3 /\ p[1] = x /\ p[2] = y /\ p[3] = z
  BY DEF Triple
<1>2. DOMAIN p = {1, 2, 3}
  BY <1>1
<1>3. Steps(p) = {x, y, z}
  BY <1>1, <1>2 DEF Steps
<1>4. Ordered(p)
  BY <1>1, <1>2 DEF Ordered
<1> QED
  BY <1>1, <1>3, <1>4

LEMMA UsableIs ==
    ASSUME NEW s, Usable(s)
    PROVE  s \in made /\ \A u \in Thread : \A y \in Pend(u) : y.do = "adopt" => y.s # s
  BY DEF Usable, Pend, Steps

\* An operation that gives the sandbox of a session back begins.
LEMMA GiveBackInv ==
    ASSUME SandboxInv, Grows, NEW t \in Thread, NEW s \in made, Usable(s), NEW p, Start(t, p),
           UNCHANGED <<made, slot, opened, count, closed, grips, opener>>,
           NEW do \in Assigning, NEW b \in opened \cup {NoBox}, do = "bind" => b \in opened,
           \/ p = <<Step("release", s, slot[s]), Assign(do, s, b)>>
           \/ \E where \in {"temp", "shared"} :
                 /\ do = "clear"
                 /\ Triple(p, Step("release", s, slot[s]), Assign(do, s, b), Step(where, s, NoBox))
    PROVE  SandboxInv'
<1>0. SandboxTyped /\ Plans /\ s \in Session /\ slot[s] \in opened \cup {NoBox} /\ opened \subseteq Box
  BY DEF SandboxInv, SandboxTyped
<1>1. PICK x : x = [do |-> "release", s |-> s, b |-> slot[s], was |-> NoBox]
  OBVIOUS
<1>2. PICK y : y = [do |-> do, s |-> s, b |-> b, was |-> slot[s]]
  OBVIOUS
<1>3. x \in Row /\ x.do = "release" /\ x.s = s /\ x.b = slot[s] /\ x.was = NoBox
  BY <1>0, <1>1 DEF Row, Deeds
<1>4. y \in Row /\ y.do = do /\ y.s = s /\ y.b = b /\ y.was = slot[s]
  BY <1>0, <1>2 DEF Row, Deeds, Assigning
<1>5. ASSUME NEW S, x \in S, y \in S, Moves(t, S),
             \A z \in S : z = x \/ z = y \/ (z \in Row /\ z.do \in {"temp", "shared"} /\ z.s = s
                                          /\ z.b = NoBox /\ z.was = NoBox)
      PROVE  SandboxInv'
  <2>1. Sound(S, made', opened')
    BY <1>0, <1>3, <1>4, <1>5 DEF Sound, Assigning
  <2>2. \A z \in S : z.s = s /\ z.do \notin Opening /\ (z.do = "release" => slot[z.s] = z.b)
    BY <1>3, <1>4, <1>5 DEF Opening, Assigning
  <2>3. Begins(t, S)
    BY <1>3, <1>4, <1>5, <2>1, <2>2, UsableIs DEF Begins, Start, Opening, Assigning
  <2>4. Opens(t, S)
    BY <1>0, <1>3, <1>5, <2>3 DEF Opens, Gives
  <2>5. SandboxTyped'
    BY <1>0 DEF SandboxTyped
  <2> QED
    BY <2>4, <2>5, OpensInv
<1>6. Step("release", s, slot[s]) = x /\ Assign(do, s, b) = y /\ Precedes(x, y)
  BY <1>1, <1>2, <1>3, <1>4 DEF Step, Assign, Precedes, Assigning
<1>7. CASE p = <<x, y>>
  <2>1. p \in Seq(Row) /\ Ordered(p) /\ Steps(p) = {x, y} /\ todo' = [todo EXCEPT ![t] = p]
    BY <1>3, <1>4, <1>6, <1>7, TwoPlan DEF Start
  <2>2. Moves(t, {x, y})
    BY <1>0, <2>1, StartMoves
  <2> QED
    BY <1>5, <2>2
<1>8. ASSUME NEW where \in {"temp", "shared"}, do = "clear", Triple(p, x, y, Step(where, s, NoBox))
      PROVE  SandboxInv'
  <2>0. PICK z : z = [do |-> where, s |-> s, b |-> NoBox, was |-> NoBox]
    OBVIOUS
  <2>1. z \in Row /\ z.do = where /\ z.s = s /\ z.b = NoBox /\ z.was = NoBox
    BY <1>0, <2>0 DEF Row, Deeds
  <2>2. Precedes(x, z) /\ Precedes(y, z)
    BY <1>3, <1>4, <1>8, <2>1 DEF Precedes
  <2>3. Triple(p, x, y, z)
    BY <1>8, <2>0 DEF Step
  <2>4. p \in Seq(Row) /\ Ordered(p) /\ Steps(p) = {x, y, z} /\ todo' = [todo EXCEPT ![t] = p]
    BY <1>3, <1>4, <1>6, <2>1, <2>2, <2>3, ThreePlan DEF Start
  <2>5. Moves(t, {x, y, z})
    BY <1>0, <2>4, StartMoves
  <2> QED
    BY <1>5, <2>1, <2>5
<1> QED
  BY <1>6, <1>7, <1>8

LEMMA ToInv ==
    ASSUME SandboxInv, Grows, NEW t \in Thread, NEW s \in Session, NEW where \in {"temp", "shared"}, To(t, s, where)
    PROVE  SandboxInv'
<1>1. /\ s \in made /\ Usable(s) /\ Start(t, Append(CloseSteps(s), Step(where, s, NoBox)))
      /\ UNCHANGED <<made, slot, opened, count, closed, grips, opener>>
  BY UsableIs DEF To, sessions, others, boxes
<1>2. CloseSteps(s) = <<Step("release", s, slot[s]), Assign("clear", s, NoBox)>>
  BY DEF CloseSteps
<1>3. PICK p : /\ Triple(p, Step("release", s, slot[s]), Assign("clear", s, NoBox), Step(where, s, NoBox))
               /\ Start(t, p)
  BY <1>1, <1>2 DEF Triple
<1>5. "clear" \in Assigning /\ NoBox \in opened \cup {NoBox} /\ "clear" # "bind"
  BY DEF Assigning
<1> QED
  BY <1>1, <1>3, <1>5, GiveBackInv

LEMMA CloseInv ==
    ASSUME SandboxInv, Grows, NEW t \in Thread, NEW s \in Session,
           CloseSandbox(t, s) \/ \E c \in Box : Bind(t, s, c)
    PROVE  SandboxInv'
<1>1. /\ s \in made /\ Usable(s)
      /\ UNCHANGED <<made, slot, opened, count, closed, grips, opener>>
  BY UsableIs DEF CloseSandbox, Bind, sessions, others, boxes
<1>2. PICK do \in Assigning, b \in opened \cup {NoBox} :
         /\ do = "bind" => b \in opened
         /\ Start(t, <<Step("release", s, slot[s]), Assign(do, s, b)>>)
  BY DEF CloseSandbox, Bind, CloseSteps, Assigning
<1>3. PICK p : p = <<Step("release", s, slot[s]), Assign(do, s, b)>>
  OBVIOUS
<1>4. Start(t, p)
  BY <1>2, <1>3
<1> QED
  BY <1>1, <1>2, <1>3, <1>4, GiveBackInv

\* A thread begins steps that neither give back nor take a sandbox.
LEMMA LightInv ==
    ASSUME SandboxInv, Grows, SandboxTyped', NEW t \in Thread, todo[t] = <<>>, NEW p \in Seq(Row), Ordered(p),
           todo' = [todo EXCEPT ![t] = p], NEW S, S = Steps(p), Sound(S, made, opened),
           \A x \in S : x.do \notin Owning /\ x.do \notin {"lock", "locked", "opened"},
           \A x \in S : x.do = "ensure" => /\ x.b = NoBox /\ x.was = NoBox
               /\ \A u \in Thread : \A y \in Pend(u) : y.do = "adopt" => y.s # x.s,
           UNCHANGED <<made, slot, opener>>, opened \subseteq opened',
           \A b \in opened' \ opened : count'[b] = 0 /\ grips'[b] = 0,
           \A b \in opened : closed'[b] = FALSE =>
               closed[b] = FALSE /\ count'[b] - grips'[b] = count[b] - grips[b]
    PROVE  SandboxInv'
<1>1. Moves(t, S)
  BY StartMoves DEF SandboxInv
<1>2. Sound(S, made', opened')
  BY DEF Sound
<1>3. Begins(t, S)
  BY <1>1, <1>2 DEF Begins, Owning, Changing, Opening, Assigning
<1>4. \A s \in Session : \A x : ~Gives(S, s, x)
  BY DEF Gives, Owning, Changing, Assigning
<1>5. Opens(t, S)
  BY <1>3, <1>4 DEF Opens
<1> QED
  BY <1>5, OpensInv

\* A step that names a session and no sandbox.
LEMMA SessionStep ==
    ASSUME SandboxInv, NEW do \in {"ensure", "deepen", "tool"}, NEW s \in made
    PROVE  /\ Step(do, s, NoBox) \in Row
           /\ Step(do, s, NoBox).do = do /\ Step(do, s, NoBox).s = s
           /\ Step(do, s, NoBox).b = NoBox /\ Step(do, s, NoBox).was = NoBox
           /\ Sound({Step(do, s, NoBox)}, made, opened)
<1>1. Step(do, s, NoBox) = [do |-> do, s |-> s, b |-> NoBox, was |-> NoBox] /\ s \in Session
  BY DEF Step, SandboxInv, SandboxTyped
<1>2. Step(do, s, NoBox) \in Row
  BY <1>1 DEF Row, Deeds
<1> QED
  BY <1>1, <1>2 DEF Sound

Same == UNCHANGED <<made, slot, opened, count, closed, grips, opener>>

\* Nothing to do, or one step about a sandbox alone.
BoxPlan(p) ==
    \/ p = <<>>
    \/ \E do \in {"aclose", "dispatch"}, b \in opened \cup {NoBox} : p = <<Step(do, First, b)>>

LEMMA BoxPlanSteps ==
    ASSUME SandboxInv, NEW p, BoxPlan(p)
    PROVE  /\ p \in Seq(Row) /\ Ordered(p) /\ Sound(Steps(p), made, opened)
           /\ \A y \in Steps(p) : y.do \notin Owning /\ y.do \notin Opening
<1>1. CASE p = <<>>
  BY <1>1, EmptyPlan DEF Sound
<1>2. CASE p # <<>>
  <2>1. PICK do \in {"aclose", "dispatch"}, b \in opened \cup {NoBox} : p = <<Step(do, First, b)>>
    BY <1>2 DEF BoxPlan
  <2>2. PICK x : x = Step(do, First, b)
    OBVIOUS
  <2>3. x \in Row /\ x.do = do /\ Sound({x}, made, opened)
    <3>1. do \in {"aclose", "rmtree", "dispatch", "call"}
      OBVIOUS
    <3>2. x.do = do
      BY <2>2 DEF Step
    <3>3. x \in Row
      BY <2>2, <3>1, BoxStep
    <3>4. Sound({x}, made, opened)
      BY <2>2, <3>1, BoxStep
    <3> QED
      BY <3>2, <3>3, <3>4
  <2>4. p \in Seq(Row) /\ Ordered(p) /\ Steps(p) = {x}
    BY <2>1, <2>2, <2>3, OnePlan
  <2>5. \A y \in {x} : y.do \notin Owning /\ y.do \notin Opening
    BY <2>3 DEF Owning, Changing, Opening
  <2> QED
    BY <2>3, <2>4, <2>5
<1> QED
  BY <1>1, <1>2

LEMMA BoxPlanInv ==
    ASSUME SandboxInv, Grows, SandboxTyped', NEW t \in Thread, NEW p, Start(t, p), BoxPlan(p),
           UNCHANGED <<made, slot, opener>>, opened \subseteq opened',
           \A b \in opened' \ opened : count'[b] = 0 /\ grips'[b] = 0,
           \A b \in opened : closed'[b] = FALSE =>
               closed[b] = FALSE /\ count'[b] - grips'[b] = count[b] - grips[b]
    PROVE  SandboxInv'
<1>1. todo[t] = <<>> /\ todo' = [todo EXCEPT ![t] = p]
  BY DEF Start
<1>2. /\ p \in Seq(Row) /\ Ordered(p) /\ Sound(Steps(p), made, opened)
      /\ \A y \in Steps(p) : y.do \notin Owning /\ y.do \notin Opening
  BY BoxPlanSteps
<1>3. PICK S : S = Steps(p)
  OBVIOUS
<1>4. \A y \in S : y.do \notin {"ensure", "lock", "locked", "opened"}
  BY <1>2, <1>3 DEF Opening
<1> QED
  BY <1>1, <1>2, <1>3, <1>4, LightInv

LEMMA SameTyped ==
    ASSUME SandboxInv, Same
    PROVE  /\ SandboxTyped' /\ opened' = opened /\ UNCHANGED <<made, slot, opener>>
           /\ \A b \in opened : closed'[b] = FALSE =>
                  closed[b] = FALSE /\ count'[b] - grips'[b] = count[b] - grips[b]
  BY DEF SandboxInv, SandboxTyped, Same

\* A thread asks for the sandbox of a session, and then enters a block or uses it.
LEMMA AskInv ==
    ASSUME SandboxInv, Grows, Same, NEW t \in Thread, NEW s \in made, NEW do \in {"deepen", "tool"},
           Usable(s),
           NEW p, Start(t, p),
           \/ p = <<Step("ensure", s, NoBox), Step(do, s, NoBox)>>
           \/ p = <<Step(do, s, NoBox)>>
    PROVE  SandboxInv'
<1>0. todo[t] = <<>> /\ todo' = [todo EXCEPT ![t] = p]
  BY DEF Start
<1>1. PICK x, y : x = Step("ensure", s, NoBox) /\ y = Step(do, s, NoBox)
  OBVIOUS
<1>2. /\ x \in Row /\ x.do = "ensure" /\ x.s = s /\ Sound({x}, made, opened) /\ x.b = NoBox /\ x.was = NoBox
      /\ y \in Row /\ y.do = do /\ y.s = s /\ Sound({y}, made, opened)
  BY <1>1, SessionStep
<1>3. Precedes(x, y)
  BY <1>2 DEF Precedes, Opening
<1>4. PICK S : S \subseteq {x, y} /\ S = Steps(p) /\ p \in Seq(Row) /\ Ordered(p)
  <2>1. CASE p = <<x, y>>
    BY <1>2, <1>3, <2>1, TwoPlan
  <2>2. CASE p = <<y>>
    BY <1>2, <2>2, OnePlan
  <2> QED
    BY <1>1, <2>1, <2>2
<1>5. \A z \in S : z.do \notin Owning /\ z.do \notin {"lock", "locked", "opened"}
  BY <1>2, <1>4 DEF Owning, Changing
<1>6. \A z \in S : z.do = "ensure" => /\ z.b = NoBox /\ z.was = NoBox
         /\ \A u \in Thread : \A w \in Pend(u) : w.do = "adopt" => w.s # z.s
  BY <1>2, <1>4, UsableIs
<1>7. Sound(S, made, opened)
  BY <1>2, <1>4 DEF Sound
<1> QED
  BY <1>0, <1>4, <1>5, <1>6, <1>7, SameTyped, LightInv

LEMMA EnterInv ==
    ASSUME SandboxInv, Grows, NEW t \in Thread, NEW s \in Session, Enter(t, s)
    PROVE  SandboxInv'
<1>1. Usable(s) /\ s \in made /\ Same
  BY UsableIs DEF Enter, Same, sessions, others, boxes
<1>2. PICK p : /\ Start(t, p)
               /\ \/ p = <<Step("ensure", s, NoBox), Step("deepen", s, NoBox)>>
                  \/ p = <<Step("deepen", s, NoBox)>>
  BY DEF Enter
<1> QED
  BY <1>1, <1>2, AskInv

LEMMA ExitInv ==
    ASSUME SandboxInv, Grows, NEW t \in Thread, NEW s \in Session, Exit(t, s)
    PROVE  SandboxInv'
<1>1. Usable(s) /\ s \in made /\ Same
  BY UsableIs DEF Exit, Same, others, boxes
<1>2. CASE Start(t, CloseSteps(s))
  <2>1. PICK p : p = <<Step("release", s, slot[s]), Assign("clear", s, NoBox)>> /\ Start(t, p)
    BY <1>2 DEF CloseSteps
  <2>2. "clear" \in Assigning /\ NoBox \in opened \cup {NoBox} /\ "clear" # "bind"
    BY DEF Assigning
  <2> QED
    BY <1>1, <2>1, <2>2, GiveBackInv DEF Same
<1>3. CASE Start(t, <<>>)
  <2>1. PICK p : BoxPlan(p) /\ Start(t, p)
    BY <1>3 DEF BoxPlan
  <2> QED
    BY <1>1, <2>1, SameTyped, BoxPlanInv
<1> QED
  BY <1>2, <1>3 DEF Exit

LEMMA RequireSandboxInv ==
    ASSUME SandboxInv, Grows, NEW t \in Thread, NEW s \in Session, RequireSandbox(t, s)
    PROVE  SandboxInv'
<1>1. Usable(s) /\ s \in made /\ Same /\ slot[s] \in opened \cup {NoBox}
  BY UsableIs DEF RequireSandbox, Same, sessions, others, boxes, SandboxInv, SandboxTyped
<1>2. CASE Start(t, <<Step("dispatch", First, slot[s])>>)
  <2>1. PICK p : BoxPlan(p) /\ Start(t, p)
    BY <1>1, <1>2 DEF BoxPlan
  <2> QED
    BY <1>1, <2>1, SameTyped, BoxPlanInv
<1>3. CASE slot[s] = NoBox /\ Start(t, <<Step("ensure", s, NoBox), Step("tool", s, NoBox)>>)
  <2>1. PICK p : p = <<Step("ensure", s, NoBox), Step("tool", s, NoBox)>> /\ Start(t, p)
    BY <1>3
  <2> QED
    BY <1>1, <1>3, <2>1, AskInv
<1> QED
  BY <1>2, <1>3 DEF RequireSandbox

\* New sessions N are made, and thread t begins to take sandboxes for them.
LEMMA AdoptInv ==
    ASSUME SandboxInv, Grows, NEW t \in Thread, NEW N \in SUBSET (Session \ made), IsFiniteSet(N),
           made' = made \cup N, UNCHANGED <<slot, opened, count, closed, grips, opener>>,
           NEW p \in Seq(Row), Ordered(p), Start(t, p),
           \A x \in Steps(p) : x.do = "adopt" /\ x.s \in N /\ x.b \in opened /\ x.was = NoBox
    PROVE  SandboxInv'
<1>0. SandboxTyped /\ Plans
  BY DEF SandboxInv
<1>1. PICK S : S = Steps(p)
  OBVIOUS
<1>2. S \subseteq Row
  <2>1. DOMAIN p = 1 .. Len(p) /\ \A i \in 1 .. Len(p) : p[i] \in Row
    OBVIOUS
  <2> QED
    BY <1>1, <2>1 DEF Steps
<1>3. Moves(t, S) /\ todo[t] = <<>>
  BY <1>0, <1>1, StartMoves DEF Start
<1>4. Sound(S, made', opened')
  BY <1>1, <1>2 DEF Sound
<1>5. \A u \in Thread : \A y \in Pend(u) : y.s \notin N
  BY <1>0 DEF Plans, Sound
<1>6. Begins(t, S)
  <2>1. \A x \in S : slot[x.s] = NoBox /\ \A u \in Thread : \A y \in Pend(u) : y.s # x.s
    BY <1>0, <1>1, <1>5 DEF SandboxTyped
  <2>2. \A x, y \in S : y # x => y.s # x.s
    <3> SUFFICES ASSUME NEW x \in S, NEW y \in S, y # x PROVE y.s # x.s
      OBVIOUS
    <3>1. Precedes(x, y) \/ Precedes(y, x)
      BY <1>1, Comparable
    <3> QED
      BY <1>1, <3>1 DEF Precedes, Opening
  <2>3. \A x \in S : x.do = "adopt" /\ x.do \notin Changing \cup Opening \cup Assigning
    BY <1>1 DEF Changing, Opening, Assigning
  <2> QED
    BY <1>3, <1>4, <2>1, <2>2, <2>3 DEF Begins
<1>7. \A s \in Session : \A x : ~Gives(S, s, x)
  BY <1>1 DEF Gives, Assigning
<1>8. SandboxTyped'
  <2>1. IsFiniteSet(made')
    BY <1>0, FS_Union DEF SandboxTyped
  <2> QED
    BY <1>0, <2>1 DEF SandboxTyped
<1>9. Opens(t, S)
  BY <1>6, <1>7 DEF Opens
<1> QED
  BY <1>8, <1>9, OpensInv

\* What a new session takes over from s.
LEMMA ShareSteps ==
    ASSUME SandboxInv, NEW s \in made, NEW n \in Session \ made, NEW x, x = Assign("adopt", n, slot[s]),
           Live(slot[s])
    PROVE  x \in Row /\ x.do = "adopt" /\ x.s = n /\ x.b \in opened /\ x.was = NoBox
<1>1. slot[s] \in opened /\ slot[n] = NoBox /\ opened \subseteq Box
  BY DEF SandboxInv, SandboxTyped, Live
<1>2. x = [do |-> "adopt", s |-> n, b |-> slot[s], was |-> NoBox]
  BY <1>1 DEF Assign
<1> QED
  BY <1>1, <1>2 DEF Row, Deeds

LEMMA DeriveInv ==
    ASSUME SandboxInv, Grows, NEW t \in Thread, NEW s \in Session, NEW n \in Session, Derive(t, s, n, Share(s, n))
    PROVE  SandboxInv'
<1>1. /\ s \in made /\ n \in Session \ made /\ made' = made \cup {n} /\ Start(t, Share(s, n))
      /\ UNCHANGED <<slot, opened, count, closed, grips, opener>>
  BY UsableIs DEF Derive, others, boxes
<1>2. PICK N : N = {n}
  OBVIOUS
<1>3. N \in SUBSET (Session \ made) /\ IsFiniteSet(N)
  BY <1>1, <1>2, FS_Singleton
<1>4. PICK p : p = Share(s, n)
  OBVIOUS
<1>5. /\ p \in Seq(Row) /\ Ordered(p)
      /\ \A x \in Steps(p) : x.do = "adopt" /\ x.s \in N /\ x.b \in opened /\ x.was = NoBox
  <2>1. CASE Live(slot[s])
    <3>1. PICK x : x = Assign("adopt", n, slot[s])
      OBVIOUS
    <3>2. x \in Row /\ x.do = "adopt" /\ x.s = n /\ x.b \in opened /\ x.was = NoBox
      BY <1>1, <2>1, <3>1, ShareSteps
    <3>3. p = <<x>>
      BY <1>4, <2>1, <3>1 DEF Share
    <3>4. p \in Seq(Row) /\ Ordered(p) /\ Steps(p) = {x}
      BY <3>2, <3>3, OnePlan
    <3> QED
      BY <1>2, <3>2, <3>4
  <2>2. CASE ~Live(slot[s])
    BY <1>4, <2>2, EmptyPlan DEF Share
  <2> QED
    BY <2>1, <2>2
<1> QED
  BY <1>1, <1>2, <1>3, <1>4, <1>5, AdoptInv

LEMMA ForwardInv ==
    ASSUME SandboxInv, Grows, NEW t \in Thread, NEW s \in Session, NEW f \in Session, NEW n \in Session,
           Forward(t, s, f, n)
    PROVE  SandboxInv'
<1>1. /\ s \in made /\ f \in Session \ made /\ n \in Session \ made /\ f # n
      /\ made' = made \cup {f, n} /\ Start(t, Share(s, f) \o Share(s, n))
      /\ UNCHANGED <<slot, opened, count, closed, grips, opener>>
  BY UsableIs DEF Forward, others, boxes
<1>2. PICK N : N = {f, n}
  OBVIOUS
<1>3. N \in SUBSET (Session \ made) /\ IsFiniteSet(N)
  <2>1. IsFiniteSet({f} \cup {n})
    BY FS_Singleton, FS_AddElement
  <2>2. N = {f} \cup {n}
    BY <1>2
  <2> QED
    BY <1>1, <1>2, <2>1, <2>2
<1>4. PICK p : p = Share(s, f) \o Share(s, n)
  OBVIOUS
<1>5. /\ p \in Seq(Row) /\ Ordered(p)
      /\ \A x \in Steps(p) : x.do = "adopt" /\ x.s \in N /\ x.b \in opened /\ x.was = NoBox
  <2>1. CASE Live(slot[s])
    <3>1. PICK x, y : x = Assign("adopt", f, slot[s]) /\ y = Assign("adopt", n, slot[s])
      OBVIOUS
    <3>2. /\ x \in Row /\ x.do = "adopt" /\ x.s = f /\ x.b \in opened /\ x.was = NoBox
          /\ y \in Row /\ y.do = "adopt" /\ y.s = n /\ y.b \in opened /\ y.was = NoBox
      BY <1>1, <2>1, <3>1, ShareSteps
    <3>3. PICK q : q = <<y>>
      OBVIOUS
    <3>4. p = <<x>> \o q
      BY <1>4, <2>1, <3>1, <3>3 DEF Share
    <3>5. q \in Seq(Row) /\ Ordered(q) /\ Steps(q) = {y}
      BY <3>2, <3>3, OnePlan
    <3>6. Precedes(x, y)
      BY <1>1, <3>2 DEF Precedes
    <3>7. p \in Seq(Row) /\ Ordered(p) /\ Steps(p) = {x} \cup {y}
      BY <3>2, <3>4, <3>5, <3>6, ThenSteps
    <3> QED
      BY <1>2, <3>2, <3>7
  <2>2. CASE ~Live(slot[s])
    <3>1. p = <<>>
      BY <1>4, <2>2 DEF Share
    <3> QED
      BY <3>1, EmptyPlan
  <2> QED
    BY <2>1, <2>2
<1> QED
  BY <1>1, <1>2, <1>3, <1>4, <1>5, AdoptInv

LEMMA OpenBareInv ==
    ASSUME SandboxInv, Grows, NEW t \in Thread, NEW b \in Box, NEW where, OpenBare(t, b, where)
    PROVE  SandboxInv'
<1>0. SandboxTyped /\ Plans
  BY DEF SandboxInv
<1>1. /\ todo[t] = <<>> /\ todo' = todo /\ b \notin opened /\ opened' = opened \cup {b}
      /\ UNCHANGED <<made, slot, count, closed, grips, opener>>
  BY DEF OpenBare, AOpen, sessions
<1>2. PICK p : p = <<>> /\ BoxPlan(p)
  BY DEF BoxPlan
<1>3. Start(t, p)
  BY <1>0, <1>1, <1>2 DEF Start, Plans
<1>4. SandboxTyped'
  BY <1>0, <1>1 DEF SandboxTyped
<1>5. /\ opened \subseteq opened' /\ \A c \in opened' \ opened : count'[c] = 0 /\ grips'[c] = 0
      /\ \A c \in opened : closed'[c] = FALSE =>
             closed[c] = FALSE /\ count'[c] - grips'[c] = count[c] - grips[c]
  BY <1>0, <1>1 DEF SandboxTyped
<1> QED
  BY <1>1, <1>2, <1>3, <1>4, <1>5, BoxPlanInv

\* A with block on the sandbox itself counts as one reference.
LEMMA WithBoxInv ==
    ASSUME SandboxInv, Grows, NEW t \in Thread, NEW b \in Box, WithBox(t, b) \/ EndWithBox(t, b)
    PROVE  SandboxInv'
<1>0. SandboxTyped /\ Plans
  BY DEF SandboxInv
<1>1. UNCHANGED <<made, slot, opened, closed, opener>>
  BY DEF WithBox, EndWithBox, sessions
<1>2. b \in opened
  <2>1. CASE WithBox(t, b)
    BY <2>1 DEF WithBox
  <2>2. CASE EndWithBox(t, b)
    BY <1>0, <2>2 DEF EndWithBox, SandboxTyped
  <2> QED
    BY <2>1, <2>2
<1>3. /\ count' \in [Box -> Int] /\ grips' \in [Box -> Nat]
      /\ \A c \in Box : c # b => count'[c] = count[c] /\ grips'[c] = grips[c]
      /\ closed[b] = FALSE => count'[b] - grips'[b] = count[b] - grips[b]
  <2>0. count[b] \in Int /\ grips[b] \in Nat /\ count \in [Box -> Int] /\ grips \in [Box -> Nat]
        /\ closed[b] \in BOOLEAN
    BY <1>0 DEF SandboxTyped
  <2>1. CASE WithBox(t, b)
    <3>1. count' = [count EXCEPT ![b] = @ + 1] /\ grips' = [grips EXCEPT ![b] = @ + 1]
      BY <2>1 DEF WithBox, Acquire
    <3> QED
      BY <2>0, <3>1
  <2>2. CASE EndWithBox(t, b)
    <3>1. grips' = [grips EXCEPT ![b] = @ - 1] /\ grips[b] > 0
      BY <2>2 DEF EndWithBox
    <3>2. CASE closed[b]
      BY <2>0, <2>2, <3>1, <3>2 DEF EndWithBox
    <3>3. CASE ~closed[b]
      <4>1. count' = [count EXCEPT ![b] = @ - 1]
        BY <2>2, <3>3 DEF EndWithBox
      <4> QED
        BY <2>0, <3>1, <4>1
    <3> QED
      BY <3>2, <3>3
  <2> QED
    BY <2>1, <2>2
<1>4. SandboxTyped'
  BY <1>0, <1>1, <1>2, <1>3 DEF SandboxTyped
<1>5. PICK p : Start(t, p) /\ BoxPlan(p)
  <2>1. CASE WithBox(t, b)
    <3>1. Start(t, <<>>)
      BY <1>0, <2>1 DEF WithBox, Start, Plans
    <3> QED
      BY <3>1 DEF BoxPlan
  <2>2. CASE EndWithBox(t, b)
    <3>1. Start(t, <<>>) \/ Start(t, <<Step("aclose", First, b)>>)
      BY <2>2 DEF EndWithBox
    <3> QED
      BY <1>2, <3>1 DEF BoxPlan
  <2> QED
    BY <2>1, <2>2
<1>6. \A c \in opened : closed'[c] = FALSE =>
         closed[c] = FALSE /\ count'[c] - grips'[c] = count[c] - grips[c]
  BY <1>0, <1>1, <1>3 DEF SandboxTyped
<1>7. /\ UNCHANGED <<made, slot, opener>> /\ opened \subseteq opened'
      /\ \A c \in opened' \ opened : count'[c] = 0 /\ grips'[c] = 0
  BY <1>1
<1> QED
  BY <1>4, <1>5, <1>6, <1>7, BoxPlanInv

LEMMA DirectoryInv ==
    ASSUME SandboxInv, Grows, NEW t \in Thread, EnsureLocal(t) \/ PruneLocal(t)
    PROVE  SandboxInv'
<1>1. Same /\ todo[t] = <<>> /\ todo' = todo
  BY DEF EnsureLocal, PruneLocal, Same, sessions, boxes
<1>2. PICK p : p = <<>> /\ BoxPlan(p)
  BY DEF BoxPlan
<1>3. Start(t, p)
  BY <1>1, <1>2 DEF Start, SandboxInv, Plans
<1> QED
  BY <1>1, <1>2, <1>3, SameTyped, BoxPlanInv

-----------------------------------------------------------------------------
(* The theorem *)

LEMMA SandboxInitInv ==
    ASSUME SandboxInit
    PROVE  SandboxInv
<1>1. SandboxTyped
  <2>1. made = {First} /\ IsFiniteSet(made)
    BY FS_Singleton DEF SandboxInit
  <2> QED
    BY <2>1, SandboxConstants DEF SandboxTyped, SandboxInit
<1>2. \A t \in Thread : todo[t] = <<>> /\ Pend(t) = {}
  BY DEF SandboxInit, Pend, Steps
<1>3. Plans
  <2>1. todo \in [Thread -> Seq(Row)]
    BY EmptyPlan DEF SandboxInit
  <2> QED
    BY <1>2, <2>1, EmptyPlan DEF Plans, Sound
<1>4. Tidy /\ NoBox \notin spoilt
  BY <1>2 DEF Tidy, Held, Newborn, Clean, Good, Clash, SandboxInit
<1>5. CountsAreReferences
  BY DEF SandboxInit, CountsAreReferences
<1> QED
  BY <1>1, <1>3, <1>4, <1>5 DEF SandboxInv

LEMMA OperationInv ==
    ASSUME SandboxInv, NEW t \in Thread, Launch(t)
    PROVE  SandboxInv'
<1>0. Operation(t) /\ Grows
  <2>1. PICK more : more = {} /\ Spoil(more)
    BY DEF Launch
  <2> QED
    BY <2>1, SpoilGrows DEF Launch, SandboxInv
<1>1. ASSUME NEW s \in Session, NEW n \in Session,
             \/ Fork(t, s, n) \/ Detach(t, s, n) \/ LoopOut(t, s, n) \/ Compress(t, s, n)
             \/ \E o \in Session : Merge(t, s, o, n)
      PROVE  SandboxInv'
  <2>1. Derive(t, s, n, Share(s, n))
    BY <1>1 DEF Fork, Detach, LoopOut, Compress, Merge
  <2> QED
    BY <1>0, <2>1, DeriveInv
<1> QED
  BY <1>0, <1>1, DirectoryInv, ToInv, CloseInv, EnterInv, ExitInv, RequireSandboxInv, ForwardInv, OpenBareInv,
     WithBoxInv DEF Operation

LEMMA ThreadStepInv ==
    ASSUME SandboxInv, NEW t \in Thread, Proceed(t)
    PROVE  SandboxInv'
<1>1. CASE ThreadStep(t) /\ Spoil({})
  <2>1. PICK more : more = {} /\ Spoil(more)
    BY <1>1
  <2>2. Grows
    BY <2>1, SpoilGrows DEF SandboxInv
  <2> QED
    BY <1>1, <2>2, ReleaseInv, ACloseInv, DispatchInv, PlainInv, ClearSlotInv, BindStepInv, EnsureInv,
       OpenLockedInv, TakeOpenedInv DEF ThreadStep
<1>2. CASE BindRaises(t) /\ Spoil({slot[Head(todo[t]).s]})
  <2>1. PICK more : more = {slot[Head(todo[t]).s]} /\ Spoil(more)
    BY <1>2
  <2>2. Grows /\ slot[Head(todo[t]).s] \in spoilt' \cup {NoBox}
    BY <2>1, SpoilGrows DEF SandboxInv
  <2> QED
    BY <1>2, <2>2, BindStepInv
<1> QED
  BY <1>1, <1>2 DEF Proceed

LEMMA SandboxStutter ==
    ASSUME SandboxInv, UNCHANGED sandboxVars
    PROVE  SandboxInv'
<1>0. UNCHANGED <<made, slot, opener, opened, count, closed, grips, todo, spoilt>>
  BY DEF sandboxVars
<1>1. \A t \in Thread : Pend(t)' = Pend(t)
  BY <1>0 DEF Pend
<1>2. SandboxTyped'
  BY <1>0 DEF SandboxInv, SandboxTyped
<1>3. Plans'
  BY <1>0, <1>1 DEF SandboxInv, Plans
<1>4. Held' /\ Newborn'
  BY <1>0, <1>1 DEF SandboxInv, Tidy, Held, Newborn
<1>5. Clean'
  <2>1. \A s \in Session : (Sullied(s) => Sullied(s)') /\ (Good(s) => Good(s)') /\ (Clash(s)' => Clash(s))
    BY <1>0, <1>1 DEF Sullied, Good, Clash
  <2> QED
    BY <2>1 DEF SandboxInv, Tidy, Clean
<1>6. CountsAreReferences'
  <2>1. \A b : Holders(b)' = Holders(b)
    BY <1>0 DEF Holders, GivenBack
  <2> QED
    BY <1>0, <2>1 DEF SandboxInv, CountsAreReferences
<1> QED
  BY <1>0, <1>2, <1>3, <1>4, <1>5, <1>6 DEF SandboxInv, Tidy

\* Whatever sessions and threads do with their sandboxes at the same time, the
\* _refcount of every open BackendSandbox is the number of sessions and with blocks
\* that refer to it, unless the sandbox was in the hands of a session when operations
\* of it overlapped that take no lock, or was left in a slot by a bind that raised:
\* racing to open, sharing, swapping and closing in different sessions lose no
\* reference and count none twice, and a mislaid reference spoils no other sandbox.
THEOREM CountsHold == SandboxSpec => []CountsAreReferences
<1>1. SandboxInit => SandboxInv
  BY SandboxInitInv
<1>2. SandboxInv /\ [SandboxNext]_sandboxVars => SandboxInv'
  BY OperationInv, ThreadStepInv, SandboxStutter DEF SandboxNext
<1>3. SandboxInv => CountsAreReferences
  BY DEF SandboxInv
<1> QED
  BY <1>1, <1>2, <1>3, PTL DEF SandboxSpec
=============================================================================
