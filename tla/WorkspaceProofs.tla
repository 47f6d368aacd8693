--------------------------- MODULE WorkspaceProofs ---------------------------
(***************************************************************************)
(* Proofs about Workspace: whatever the windows and desktops, and however  *)
(* many there are, no list, chain or pointer names a window or a desktop   *)
(* that is gone, the focus chains match the desktops, navigation leads     *)
(* back, and activation succeeds.                                          *)
(*                                                                         *)
(* The operators of Workspace stand for chains of calls, so the proof goes *)
(* operator by operator: a lemma says of each what it keeps of the state t *)
(* it is given.  Struct, Windows, ActiveOk and Listed hold between any two *)
(* of these calls; Whole and Sound put them together.  Matches holds as    *)
(* long as no desktop was inserted or removed before another one.  Inv,    *)
(* the inductive invariant, says both of s.                                *)
(*                                                                         *)
(* Loops are the folds DesktopRemoved and DesktopsRemoved; what they leave *)
(* is proved with the least number of rounds after which it would not      *)
(* hold.                                                                   *)
(***************************************************************************)
EXTENDS Workspace, WellFoundedInduction, TLAPS

-----------------------------------------------------------------------------
(* Numbers and lists.                                                      *)

\* The least-number principle; it stands for induction in what follows.
LEMMA Least ==
  ASSUME NEW S \in SUBSET Nat, S # {}
  PROVE  \E m \in S : \A n \in S : m <= n
<1> DEFINE R == {x \in Nat \X Nat : x[1] < x[2]}
<1>1. IsWellFoundedOn(R, Nat)
  BY NatLessThanWellFounded DEF OpToRel
<1> HIDE DEF R
<1>2. PICK m \in S : \A n \in S : <<n, m>> \notin R
  BY <1>1, WFMin
<1>3. \A n \in S : <<n, m>> \in Nat \X Nat
  OBVIOUS
<1>4. \A n \in S : ~(n < m)
  BY <1>2, <1>3 DEF R
<1> QED
  BY <1>4

\* Min of a set of natural numbers is its least element.
LEMMA MinIsLeast ==
  ASSUME NEW S \in SUBSET Nat, S # {}
  PROVE  Min(S) \in S /\ \A n \in S : Min(S) <= n
BY Least DEF Min

\* Max of a bounded set of natural numbers is its greatest element.
LEMMA MaxIsGreatest ==
  ASSUME NEW b \in Nat, NEW S \in SUBSET (0..b), S # {}
  PROVE  Max(S) \in S /\ \A n \in S : n <= Max(S)
<1> DEFINE T == {n \in Nat : b - n \in S}
<1>1. \A n \in S : b - n \in T
  OBVIOUS
<1>2. PICK m \in T : \A n \in T : m <= n
  BY <1>1, Least
<1>3. b - m \in S /\ \A n \in S : n <= b - m
  BY <1>1, <1>2
<1> QED
  BY <1>3 DEF Max

\* Min of two numbers.
LEMMA MinOfTwo ==
  ASSUME NEW m \in Nat, NEW n \in Nat
  PROVE  Min({m, n}) = IF m <= n THEN m ELSE n
<1>1. Min({m, n}) \in {m, n} /\ \A k \in {m, n} : Min({m, n}) <= k
  BY MinIsLeast
<1> QED
  BY <1>1

\* The position of the first occurrence.
LEMMA FirstAt ==
  ASSUME NEW S, NEW c \in Seq(S), NEW e, Contains(c, e)
  PROVE  LET i == SelectInSeq(c, LAMBDA v : v = e)
         IN i \in 1..Len(c) /\ c[i] = e
<1> DEFINE I == {i \in 1..Len(c) : c[i] = e}
<1>1. I \in SUBSET Nat /\ I # {}
  BY DEF Contains
<1>2. Min(I) \in I
  BY <1>1, MinIsLeast
<1>3. SelectInSeq(c, LAMBDA v : v = e) = Min(I)
  BY <1>1 DEF SelectInSeq
<1> QED
  BY <1>2, <1>3

\* A list without its element at i.
LEMMA RemovedAt ==
  ASSUME NEW S, NEW c \in Seq(S), NEW i \in 1..Len(c)
  PROVE  /\ RemoveAt(c, i) \in Seq(S)
         /\ Len(RemoveAt(c, i)) = Len(c) - 1
         /\ \A j \in 1..(Len(c) - 1) :
              RemoveAt(c, i)[j] = IF j < i THEN c[j] ELSE c[j + 1]
<1> DEFINE a == SubSeq(c, 1, i - 1)
           b == SubSeq(c, i + 1, Len(c))
<1>1. a \in Seq(S) /\ Len(a) = i - 1 /\ \A j \in 1..(i - 1) : a[j] = c[j]
  OBVIOUS
<1>2. b \in Seq(S) /\ Len(b) = Len(c) - i /\ \A j \in 1..(Len(c) - i) : b[j] = c[i + j]
  OBVIOUS
<1>3. RemoveAt(c, i) = a \o b
  BY DEF RemoveAt
<1> HIDE DEF a, b
<1>4. a \o b \in Seq(S) /\ Len(a \o b) = Len(c) - 1
  <2>0. a \in Seq(S) /\ b \in Seq(S)
    BY <1>1, <1>2
  <2>1. Len(a \o b) = Len(a) + Len(b) /\ a \o b \in Seq(S)
    BY <2>0
  <2> QED
    BY <1>1, <1>2, <2>1
<1>5. ASSUME NEW j \in 1..(Len(c) - 1)
      PROVE  (a \o b)[j] = IF j < i THEN c[j] ELSE c[j + 1]
  <2>1. CASE j < i
    BY <1>1, <1>2, <2>1
  <2>2. CASE ~(j < i)
    <3>1. (a \o b)[j] = b[j - (i - 1)]
      BY <1>1, <1>2, <2>2
    <3>2. j - (i - 1) \in 1..(Len(c) - i) /\ i + (j - (i - 1)) = j + 1
      BY <2>2
    <3> QED
      BY <1>2, <2>2, <3>1, <3>2
  <2> QED
    BY <2>1, <2>2
<1> QED
  BY <1>3, <1>4, <1>5

\* A window that is at most once in a list is not in it when it was removed, and
\* the others still are.
LEMMA Removed ==
  ASSUME NEW S, NEW c \in Seq(S), NEW e
  PROVE  /\ RemoveFirst(c, e) \in Seq(S)
         /\ IsInjective(c) => /\ IsInjective(RemoveFirst(c, e))
                              /\ \A v : Contains(RemoveFirst(c, e), v)
                                          <=> Contains(c, v) /\ v # e
<1>1. CASE ~Contains(c, e)
  BY <1>1 DEF RemoveFirst, Contains
<1>2. CASE Contains(c, e)
  <2> DEFINE i == SelectInSeq(c, LAMBDA v : v = e)
             r == RemoveAt(c, i)
  <2>1. i \in 1..Len(c) /\ c[i] = e
    BY <1>2, FirstAt
  <2>2. RemoveFirst(c, e) = r
    BY <1>2 DEF RemoveFirst, Contains
  <2> HIDE DEF i
  <2>3. /\ r \in Seq(S) /\ Len(r) = Len(c) - 1
        /\ \A j \in 1..(Len(c) - 1) : r[j] = IF j < i THEN c[j] ELSE c[j + 1]
    BY <2>1, RemovedAt
  <2> HIDE DEF r
  <2>4. ASSUME IsInjective(c)
        PROVE  IsInjective(r) /\ \A v : Contains(r, v) <=> Contains(c, v) /\ v # e
    <3>1. \A j, k \in 1..Len(c) : c[j] = c[k] => j = k
      BY <2>4 DEF IsInjective
    <3>2. IsInjective(r)
      BY <2>1, <2>3, <3>1 DEF IsInjective
    <3>3. ASSUME NEW v, Contains(r, v) PROVE Contains(c, v) /\ v # e
      <4>1. PICK j \in 1..Len(r) : r[j] = v
        BY <3>3 DEF Contains
      <4>2. CASE j < i
        BY <2>1, <2>3, <3>1, <4>1, <4>2 DEF Contains
      <4>3. CASE ~(j < i)
        BY <2>1, <2>3, <3>1, <4>1, <4>3 DEF Contains
      <4> QED
        BY <4>2, <4>3
    <3>4. ASSUME NEW v, Contains(c, v), v # e PROVE Contains(r, v)
      <4>1. PICK j \in 1..Len(c) : c[j] = v
        BY <3>4 DEF Contains
      <4>2. CASE j < i
        BY <2>1, <2>3, <4>1, <4>2 DEF Contains
      <4>3. CASE j > i
        <5>1. j - 1 \in 1..Len(r) /\ r[j - 1] = v
          BY <2>1, <2>3, <4>1, <4>3
        <5> QED
          BY <5>1 DEF Contains
      <4> QED
        BY <2>1, <3>4, <4>1, <4>2, <4>3
    <3> QED
      BY <3>2, <3>3, <3>4
  <2> QED
    BY <2>2, <2>3, <2>4
<1> QED
  BY <1>1, <1>2

\* more is the list c with e at i.
HasBeenInserted(more, S, c, i, e) ==
  /\ more \in Seq(S) /\ Len(more) = Len(c) + 1
  /\ \A j \in 1..(Len(c) + 1) :
       more[j] = IF j < i THEN c[j] ELSE IF j = i THEN e ELSE c[j - 1]

\* A list with e put in at i.
LEMMA Inserted ==
  ASSUME NEW S, NEW c \in Seq(S), NEW e \in S, NEW i \in 1..(Len(c) + 1)
  PROVE  HasBeenInserted(InsertAt(c, i, e), S, c, i, e)
<1> DEFINE a == SubSeq(c, 1, i - 1)
           b == SubSeq(c, i, Len(c))
<1>1. a \in Seq(S) /\ Len(a) = i - 1 /\ \A j \in 1..(i - 1) : a[j] = c[j]
  OBVIOUS
<1>2. /\ b \in Seq(S) /\ Len(b) = Len(c) - i + 1
      /\ \A j \in 1..(Len(c) - i + 1) : b[j] = c[i + j - 1]
  OBVIOUS
<1>3. InsertAt(c, i, e) = a \o <<e>> \o b
  BY DEF InsertAt
<1> HIDE DEF a, b
<1> DEFINE ae == a \o <<e>>
<1>4. /\ ae \in Seq(S) /\ Len(ae) = i /\ ae[i] = e
      /\ \A j \in 1..(i - 1) : ae[j] = c[j]
  BY <1>1
<1> HIDE DEF ae
<1>5. ae \o b \in Seq(S) /\ Len(ae \o b) = Len(c) + 1
  BY <1>2, <1>4
<1>6. ASSUME NEW j \in 1..(Len(c) + 1)
      PROVE  (ae \o b)[j] = IF j < i THEN c[j] ELSE IF j = i THEN e ELSE c[j - 1]
  <2>1. CASE j <= i
    BY <1>2, <1>4, <2>1
  <2>2. CASE j > i
    <3>1. (ae \o b)[j] = b[j - i]
      BY <1>2, <1>4, <2>2
    <3>2. j - i \in 1..(Len(c) - i + 1) /\ i + (j - i) - 1 = j - 1
      BY <2>2
    <3> QED
      BY <1>2, <2>2, <3>1, <3>2
  <2>3. j <= i \/ j > i
    OBVIOUS
  <2> QED
    BY <2>1, <2>2, <2>3, Zenon
<1> QED
  BY <1>3, <1>5, <1>6 DEF ae, HasBeenInserted

\* A list with e put in has e and what it had.
LEMMA InsertedList ==
  ASSUME NEW S, NEW c \in Seq(S), NEW e \in S, NEW i \in 1..(Len(c) + 1)
  PROVE  /\ \A v : Contains(InsertAt(c, i, e), v) <=> Contains(c, v) \/ v = e
         /\ IsInjective(c) /\ ~Contains(c, e) => IsInjective(InsertAt(c, i, e))
<1> DEFINE r == InsertAt(c, i, e)
<1>0. HasBeenInserted(r, S, c, i, e)
  BY Inserted
<1> HIDE DEF r
<1>1. /\ r \in Seq(S) /\ Len(r) = Len(c) + 1
      /\ \A j \in 1..(Len(c) + 1) :
           r[j] = IF j < i THEN c[j] ELSE IF j = i THEN e ELSE c[j - 1]
  BY <1>0 DEF HasBeenInserted
<1>2. ASSUME NEW v, Contains(r, v) PROVE Contains(c, v) \/ v = e
  <2>1. PICK j \in 1..Len(r) : r[j] = v
    BY <1>2 DEF Contains
  <2>2. j \in Int /\ i \in Int
    BY <1>1
  <2>3. CASE j < i
    <3>1. j \in 1..Len(c) /\ c[j] = v
      BY <1>1, <2>1, <2>3
    <3> QED
      BY <3>1 DEF Contains
  <2>4. CASE j > i
    <3>1. j - 1 \in 1..Len(c) /\ c[j - 1] = v
      BY <1>1, <2>1, <2>4
    <3> QED
      BY <3>1 DEF Contains
  <2> QED
    BY <1>1, <2>1, <2>2, <2>3, <2>4
<1>3. ASSUME NEW v, Contains(c, v) PROVE Contains(r, v)
  <2>1. PICK j \in 1..Len(c) : c[j] = v
    BY <1>3 DEF Contains
  <2>2. CASE j < i
    BY <1>1, <2>1, <2>2 DEF Contains
  <2>3. CASE j >= i
    <3>1. j + 1 \in 1..Len(r) /\ r[j + 1] = v
      BY <1>1, <2>1, <2>3
    <3> QED
      BY <3>1 DEF Contains
  <2> QED
    BY <2>2, <2>3
<1>4. Contains(r, e)
  BY <1>1 DEF Contains
<1>5. ASSUME IsInjective(c), ~Contains(c, e) PROVE IsInjective(r)
  <2>1. \A j, k \in 1..Len(c) : c[j] = c[k] => j = k
    BY <1>5 DEF IsInjective
  <2>2. \A j \in 1..Len(c) : c[j] # e
    BY <1>5 DEF Contains
  <2>3. ASSUME NEW j \in 1..Len(r), NEW k \in 1..Len(r), j < k, r[j] = r[k]
        PROVE  FALSE
    <3>1. CASE k < i
      BY <1>1, <2>1, <2>3, <3>1, SMTT(30)
    <3>2. CASE k = i
      BY <1>1, <2>2, <2>3, <3>2
    <3>3. CASE j < i /\ i < k
      <4>1. k - 1 \in 1..Len(c) /\ r[k] = c[k - 1] /\ r[j] = c[j] /\ j \in 1..Len(c)
        BY <1>1, <3>3
      <4> QED
        BY <2>1, <2>3, <3>3, <4>1
    <3>4. CASE j = i
      <4>1. k - 1 \in 1..Len(c) /\ r[k] = c[k - 1] /\ r[j] = e
        BY <1>1, <2>3, <3>4
      <4> QED
        BY <2>2, <2>3, <4>1
    <3>5. CASE i < j
      <4>1. /\ k - 1 \in 1..Len(c) /\ r[k] = c[k - 1]
            /\ j - 1 \in 1..Len(c) /\ r[j] = c[j - 1]
        BY <1>1, <2>3, <3>5
      <4> QED
        BY <2>1, <2>3, <4>1
    <3>6. j \in Int /\ k \in Int /\ i \in Int
      BY <1>1
    <3> QED
      BY <2>3, <3>1, <3>2, <3>3, <3>4, <3>5, <3>6
  <2>4. \A j, k \in 1..Len(r) : j < k \/ j = k \/ k < j
    BY <1>1
  <2>5. DOMAIN r = 1..Len(r)
    BY <1>1
  <2> QED
    BY <2>3, <2>4, <2>5 DEF IsInjective
<1> QED
  BY <1>2, <1>3, <1>4, <1>5 DEF r

\* A list with e at its end has e and what it had.
LEMMA Appended ==
  ASSUME NEW S, NEW c \in Seq(S), NEW e \in S
  PROVE  /\ Append(c, e) \in Seq(S)
         /\ \A v : Contains(Append(c, e), v) <=> Contains(c, v) \/ v = e
         /\ IsInjective(c) /\ ~Contains(c, e) => IsInjective(Append(c, e))
<1> DEFINE r == Append(c, e)
<1>1. /\ r \in Seq(S) /\ Len(r) = Len(c) + 1
      /\ \A j \in 1..Len(r) : r[j] = IF j <= Len(c) THEN c[j] ELSE e
  OBVIOUS
<1> HIDE DEF r
<1>2. \A v : Contains(r, v) <=> Contains(c, v) \/ v = e
  BY <1>1 DEF Contains
<1>3. IsInjective(c) /\ ~Contains(c, e) => IsInjective(r)
  BY <1>1 DEF IsInjective, Contains
<1> QED
  BY <1>1, <1>2, <1>3 DEF r

-----------------------------------------------------------------------------
(* The state between handlers, and the operations of FocusChain.           *)

\* Every list has an element at most once.
Struct(t) ==
  /\ t \in State
  /\ t.desktops # <<>> /\ IsInjective(t.desktops)
  /\ Contains(t.desktops, t.current)
  /\ IsInjective(t.mru) /\ IsInjective(t.clients)
  /\ \A n \in 1..Len(t.chains) : IsInjective(t.chains[n])
  /\ \A w \in Window : IsInjective(t.win[w].desks)
  /\ Len(t.recent) = Len(t.chains) /\ Len(t.chains) > 0
  /\ \A i \in 1..Len(t.recent) : t.recent[i] \in 1..Len(t.chains)

\* A window that draws, that is used, listed or in a chain, exists; a shown one
\* takes the focus, and one that is mapped or was active is in m_allClients.
Windows(t) ==
  /\ \A w \in Window :
       /\ t.win[w].mapped => t.win[w].buffer
       /\ t.win[w].buffer => t.win[w].exists
       /\ IsShown(t, w) => WantsFocus(t, w)
       /\ Contains(t.mru, w) => t.win[w].exists
       /\ Contains(t.clients, w) => t.win[w].exists
       /\ t.win[w].mapped => Contains(t.clients, w)
       /\ t.last_active = w => Contains(t.clients, w)
       /\ \A n \in 1..Len(t.chains) : Contains(t.chains[n], w) => t.win[w].exists

\* The active window is shown, and FocusChain knows it.
ActiveOk(t) ==
  /\ t.active \in Window => IsShown(t, t.active)
  /\ t.fc_active = t.active

\* Every window that takes the focus, but x, is in the list of used windows.
Listed(t, x) == \A w \in Window \ {x} : WantsFocus(t, w) => Contains(t.mru, w)

\* FocusChain and the task switcher know the number of the current desktop.
CurrentMatches(t) ==
  /\ t.fc_current = Number(t, t.current)
  /\ t.recent[1] = t.fc_current

\* The chain of every desktop has the windows of that desktop, but for x.
ChainsMatch(t, x) ==
  \A n \in 1..Len(t.desktops), w \in Window \ {x} :
    /\ Contains(t.chains[n], w) => OnDesktop(t, w, n)
    /\ Contains(t.mru, w) /\ OnDesktop(t, w, n) /\ ~OnAllDesktops(t, w)
         => Contains(t.chains[n], w)

\* u has the desktops and the windows of t.
Keeps(t, u) ==
  /\ u \in State
  /\ u.desktops = t.desktops /\ u.current = t.current /\ u.rows = t.rows
  /\ u.recent = t.recent /\ u.win = t.win /\ u.clients = t.clients
  /\ u.fc_current = t.fc_current
  /\ Len(u.chains) = Len(t.chains)

\* u has the focus of t.
SameFocus(t, u) ==
  u.active = t.active /\ u.last_active = t.last_active /\ u.fc_active = t.fc_active

\* x11DesktopNumber of a desktop is its position.
LEMMA NumberOf ==
  ASSUME NEW t \in State, NEW d, Contains(t.desktops, d)
  PROVE  /\ Number(t, d) \in 1..Len(t.desktops)
         /\ t.desktops[Number(t, d)] = d
BY DEF Number, Contains

\* No desktop is listed twice, so the position determines the number.
LEMMA NumberAt ==
  ASSUME NEW t \in State, IsInjective(t.desktops), NEW n \in 1..Len(t.desktops)
  PROVE  Number(t, t.desktops[n]) = n
<1>1. t.desktops \in Seq(Desktop)
  BY DEF State
<1>2. Contains(t.desktops, t.desktops[n])
  BY DEF Contains
<1>3. /\ Number(t, t.desktops[n]) \in 1..Len(t.desktops)
      /\ t.desktops[Number(t, t.desktops[n])] = t.desktops[n]
  BY <1>2, NumberOf
<1> QED
  BY <1>1, <1>3 DEF IsInjective

\* makeFirstInChain adds w, once.
LEMMA MadeFirst ==
  ASSUME NEW c \in Seq(Window), IsInjective(c), NEW w \in Window
  PROVE  /\ MakeFirst(c, w) \in Seq(Window)
         /\ IsInjective(MakeFirst(c, w))
         /\ \A v : Contains(MakeFirst(c, w), v) <=> Contains(c, v) \/ v = w
<1> DEFINE r == RemoveFirst(c, w)
<1>1. /\ r \in Seq(Window) /\ IsInjective(r)
      /\ \A v : Contains(r, v) <=> Contains(c, v) /\ v # w
  BY Removed
<1>2. MakeFirst(c, w) = Append(r, w)
  BY DEF MakeFirst, RemoveAll
<1> HIDE DEF r
<1>3. /\ Append(r, w) \in Seq(Window)
      /\ \A v : Contains(Append(r, w), v) <=> Contains(r, v) \/ v = w
      /\ IsInjective(r) /\ ~Contains(r, w) => IsInjective(Append(r, w))
  BY <1>1, Appended
<1> QED
  BY <1>1, <1>2, <1>3

\* insertClientIntoChain adds w, once, wherever it puts it.
LEMMA InsertedClient ==
  ASSUME NEW t, NEW c \in Seq(Window), IsInjective(c), NEW w \in Window
  PROVE  LET r == InsertClientIntoChain(t, w, c)
         IN /\ r \in Seq(Window) /\ IsInjective(r)
            /\ \A v : Contains(r, v) <=> Contains(c, v) \/ v = w
<1>1. CASE Contains(c, w)
  BY <1>1 DEF InsertClientIntoChain
<1>2. CASE ~Contains(c, w)
  <2>1. /\ Append(c, w) \in Seq(Window)
        /\ \A v : Contains(Append(c, w), v) <=> Contains(c, v) \/ v = w
        /\ IsInjective(Append(c, w))
    BY <1>2, Appended
  <2>2. ASSUME c # <<>>
        PROVE  /\ InsertAt(c, Len(c), w) \in Seq(Window)
               /\ \A v : Contains(InsertAt(c, Len(c), w), v) <=> Contains(c, v) \/ v = w
               /\ IsInjective(InsertAt(c, Len(c), w))
    <3>1. Len(c) \in 1..(Len(c) + 1)
      BY <2>2
    <3> QED
      BY <1>2, <3>1, Inserted, InsertedList DEF HasBeenInserted
  <2> QED
    BY <1>2, <2>1, <2>2 DEF InsertClientIntoChain
<1> QED
  BY <1>1, <1>2

\* moveAfterClientInChain adds at most w.
LEMMA MovedBehind ==
  ASSUME NEW c \in Seq(Window), IsInjective(c), NEW w \in Window, NEW f, f # w
  PROVE  LET r == MovedAfter(c, w, f)
         IN /\ r \in Seq(Window) /\ IsInjective(r)
            /\ \A v : Contains(c, v) => Contains(r, v)
            /\ \A v : Contains(r, v) => Contains(c, v) \/ v = w
<1>1. CASE ~Contains(c, f)
  BY <1>1 DEF MovedAfter
<1>2. CASE Contains(c, f)
  <2> DEFINE r == RemoveFirst(c, w)
             i == SelectInSeq(r, LAMBDA v : v = f)
  <2>1. /\ r \in Seq(Window) /\ IsInjective(r)
        /\ \A v : Contains(r, v) <=> Contains(c, v) /\ v # w
    BY Removed
  <2>2. MovedAfter(c, w, f) = InsertAt(r, i, w)
    BY <1>2 DEF MovedAfter, RemoveAll
  <2> HIDE DEF r
  <2>3. Contains(r, f)
    BY <1>2, <2>1
  <2>4. i \in 1..Len(r)
    BY <2>1, <2>3, FirstAt DEF SelectInSeq
  <2> HIDE DEF i
  <2>5. i \in 1..(Len(r) + 1)
    BY <2>1, <2>4
  <2>6. InsertAt(r, i, w) \in Seq(Window)
    BY <2>1, <2>5, Inserted DEF HasBeenInserted
  <2>7. /\ \A v : Contains(InsertAt(r, i, w), v) <=> Contains(r, v) \/ v = w
        /\ IsInjective(r) /\ ~Contains(r, w) => IsInjective(InsertAt(r, i, w))
    BY <2>1, <2>5, InsertedList
  <2> QED
    BY <2>1, <2>2, <2>6, <2>7
<1> QED
  BY <1>1, <1>2

\* update leaves every window but w where it was; w is in the list of used
\* windows, and in the chains of its desktops, if it takes the focus.
LEMMA Updated ==
  ASSUME NEW t, Struct(t), NEW w \in Window
  PROVE  LET u == Update(t, w)
         IN /\ Keeps(t, u) /\ SameFocus(t, u) /\ Struct(u)
            /\ \A v : Contains(u.mru, v)
                        <=> IF v = w THEN WantsFocus(t, w) ELSE Contains(t.mru, v)
            /\ \A n \in 1..Len(t.chains) : \A v :
                 Contains(u.chains[n], v)
                   <=> IF v = w THEN WantsFocus(t, w) /\ OnDesktop(t, w, n)
                       ELSE Contains(t.chains[n], v)
<1> DEFINE u == Update(t, w)
<1>1. /\ t \in State /\ t.mru \in Seq(Window) /\ t.chains \in Seq(Seq(Window))
      /\ DOMAIN t.chains = 1..Len(t.chains) /\ IsInjective(t.mru)
      /\ \A n \in 1..Len(t.chains) : t.chains[n] \in Seq(Window) /\ IsInjective(t.chains[n])
  BY DEF Struct, State
<1> DEFINE C == [n \in 1..Len(t.chains) |->
                   IF ~WantsFocus(t, w) THEN RemoveFirst(t.chains[n], w)
                   ELSE IF OnAllDesktops(t, w) /\ n # t.fc_current
                   THEN InsertClientIntoChain(t, w, t.chains[n])
                   ELSE IF OnDesktop(t, w, n) THEN MakeFirst(t.chains[n], w)
                   ELSE RemoveFirst(t.chains[n], w)]
           M == IF ~WantsFocus(t, w) THEN RemoveFirst(t.mru, w)
                ELSE MakeFirst(t.mru, w)
<1>2. u = [t EXCEPT !.chains = C, !.mru = M]
  BY <1>1 DEF Update, RemoveFromChains, RemoveAll
<1>3. /\ M \in Seq(Window) /\ IsInjective(M)
      /\ \A v : Contains(M, v) <=> IF v = w THEN WantsFocus(t, w) ELSE Contains(t.mru, v)
  BY <1>1, Removed, MadeFirst
<1>4. ASSUME NEW n \in 1..Len(t.chains)
      PROVE  /\ C[n] \in Seq(Window) /\ IsInjective(C[n])
             /\ \A v : Contains(C[n], v)
                         <=> IF v = w THEN WantsFocus(t, w) /\ OnDesktop(t, w, n)
                             ELSE Contains(t.chains[n], v)
  <2> DEFINE c == t.chains[n]
  <2>1. c \in Seq(Window) /\ IsInjective(c)
    BY <1>1
  <2>2. /\ RemoveFirst(c, w) \in Seq(Window) /\ IsInjective(RemoveFirst(c, w))
        /\ \A v : Contains(RemoveFirst(c, w), v) <=> Contains(c, v) /\ v # w
    BY <2>1, Removed
  <2>3. /\ MakeFirst(c, w) \in Seq(Window) /\ IsInjective(MakeFirst(c, w))
        /\ \A v : Contains(MakeFirst(c, w), v) <=> Contains(c, v) \/ v = w
    BY <2>1, MadeFirst
  <2> DEFINE r == InsertClientIntoChain(t, w, c)
  <2>4. /\ r \in Seq(Window) /\ IsInjective(r)
        /\ \A v : Contains(r, v) <=> Contains(c, v) \/ v = w
    BY <2>1, InsertedClient
  <2>5. C[n] = IF ~WantsFocus(t, w) THEN RemoveFirst(c, w)
                   ELSE IF OnAllDesktops(t, w) /\ n # t.fc_current
                   THEN r
                   ELSE IF OnDesktop(t, w, n) THEN MakeFirst(c, w)
                   ELSE RemoveFirst(c, w)
    OBVIOUS
  <2>6. OnAllDesktops(t, w) => OnDesktop(t, w, n)
    BY DEF OnDesktop
  <2>7. c = t.chains[n]
    OBVIOUS
  <2> HIDE DEF c, r, C
  <2> QED
    BY <2>2, <2>3, <2>4, <2>5, <2>6, <2>7
<1>5. C \in Seq(Seq(Window)) /\ Len(C) = Len(t.chains)
  <2>1. Len(t.chains) \in Nat
    BY <1>1
  <2>2. C \in [1..Len(t.chains) -> Seq(Window)]
    BY <1>4
  <2> HIDE DEF C
  <2> QED
    BY <2>1, <2>2
<1> HIDE DEF C, M, u
<1>6. u \in State /\ u.chains = C /\ u.mru = M
  BY <1>1, <1>2, <1>3, <1>5 DEF State
<1>7. Keeps(t, u) /\ SameFocus(t, u)
  BY <1>1, <1>2, <1>5, <1>6 DEF Keeps, SameFocus, State
<1>8. Struct(u)
  BY <1>3, <1>4, <1>5, <1>6, <1>7 DEF Struct, Keeps
<1> QED
  BY <1>3, <1>4, <1>6, <1>7, <1>8 DEF u

\* moveAfterClient adds w at most to the chains of its own desktops.
LEMMA MovedAfterClient ==
  ASSUME NEW t, Struct(t), NEW w \in Window, NEW f, f # w
  PROVE  LET u == MoveAfterClient(t, w, f)
         IN /\ Keeps(t, u) /\ SameFocus(t, u) /\ Struct(u)
            /\ \A v : v # w => (Contains(u.mru, v) <=> Contains(t.mru, v))
            /\ Contains(t.mru, w) => Contains(u.mru, w)
            /\ Contains(u.mru, w) => Contains(t.mru, w) \/ WantsFocus(t, w)
            /\ \A n \in 1..Len(t.chains) :
                 /\ \A v : v # w => (Contains(u.chains[n], v) <=> Contains(t.chains[n], v))
                 /\ Contains(t.chains[n], w) => Contains(u.chains[n], w)
                 /\ Contains(u.chains[n], w)
                      => \/ Contains(t.chains[n], w)
                         \/ WantsFocus(t, w) /\ OnDesktop(t, w, n)
<1> DEFINE u == MoveAfterClient(t, w, f)
<1>1. /\ t \in State /\ t.mru \in Seq(Window) /\ t.chains \in Seq(Seq(Window))
      /\ DOMAIN t.chains = 1..Len(t.chains) /\ IsInjective(t.mru)
      /\ \A n \in 1..Len(t.chains) : t.chains[n] \in Seq(Window) /\ IsInjective(t.chains[n])
  BY DEF Struct, State
<1>a. CASE ~WantsFocus(t, w)
  BY <1>1, <1>a DEF MoveAfterClient, Keeps, SameFocus
<1>b. CASE WantsFocus(t, w)
  <2> DEFINE C == [n \in 1..Len(t.chains) |->
                     IF OnDesktop(t, w, n) THEN MovedAfter(t.chains[n], w, f)
                     ELSE t.chains[n]]
             M == MovedAfter(t.mru, w, f)
  <2>2. u = [t EXCEPT !.chains = C, !.mru = M]
    BY <1>1, <1>b DEF MoveAfterClient
  <2>3. /\ M \in Seq(Window) /\ IsInjective(M)
        /\ \A v : Contains(t.mru, v) => Contains(M, v)
        /\ \A v : Contains(M, v) => Contains(t.mru, v) \/ v = w
    BY <1>1, MovedBehind
  <2>4. ASSUME NEW n \in 1..Len(t.chains)
        PROVE  /\ C[n] \in Seq(Window) /\ IsInjective(C[n])
               /\ \A v : v # w => (Contains(C[n], v) <=> Contains(t.chains[n], v))
               /\ Contains(t.chains[n], w) => Contains(C[n], w)
               /\ Contains(C[n], w)
                    => \/ Contains(t.chains[n], w)
                       \/ WantsFocus(t, w) /\ OnDesktop(t, w, n)
    <3> DEFINE c == t.chains[n]
               r == MovedAfter(c, w, f)
    <3>1. c \in Seq(Window) /\ IsInjective(c)
      BY <1>1
    <3>2. /\ r \in Seq(Window) /\ IsInjective(r)
          /\ \A v : Contains(c, v) => Contains(r, v)
          /\ \A v : Contains(r, v) => Contains(c, v) \/ v = w
      BY <3>1, MovedBehind
    <3>3. C[n] = IF OnDesktop(t, w, n) THEN r ELSE c
      OBVIOUS
    <3> HIDE DEF c, r, C
    <3>4. c = t.chains[n]
      BY DEF c
    <3> QED
      BY <1>b, <3>1, <3>2, <3>3, <3>4
  <2>5. C \in Seq(Seq(Window)) /\ Len(C) = Len(t.chains)
    <3>1. Len(t.chains) \in Nat
      BY <1>1
    <3>2. C \in [1..Len(t.chains) -> Seq(Window)]
      BY <2>4
    <3> HIDE DEF C
    <3> QED
      BY <3>1, <3>2
  <2> HIDE DEF C, M, u
  <2>6. u \in State /\ u.chains = C /\ u.mru = M
    BY <1>1, <2>2, <2>3, <2>5 DEF State
  <2>7. Keeps(t, u) /\ SameFocus(t, u)
    BY <1>1, <2>2, <2>5, <2>6 DEF Keeps, SameFocus, State
  <2>8. Struct(u)
    BY <2>3, <2>4, <2>5, <2>6, <2>7 DEF Struct, Keeps
  <2> QED
    BY <1>b, <2>3, <2>4, <2>6, <2>7, <2>8 DEF u
<1> QED
  BY <1>a, <1>b

-----------------------------------------------------------------------------
(* Activation.                                                             *)

\* u is t with another focus, or with its chains in another order.
Refocused(t, u) ==
  /\ Keeps(t, u) /\ Struct(u) /\ Windows(u)
  /\ \A x : Listed(t, x) => Listed(u, x)
  /\ \A x : ChainsMatch(t, x) => ChainsMatch(u, x)

\* Changes of the focus compose.
LEMMA RefocusedTwice ==
  ASSUME NEW t, NEW u, NEW v, Refocused(t, u), Refocused(u, v)
  PROVE  Refocused(t, v)
BY DEF Refocused, Keeps

\* No change is one.
LEMMA NotRefocused ==
  ASSUME NEW t, Struct(t), Windows(t)
  PROVE  Refocused(t, t)
BY DEF Refocused, Keeps, Struct

\* update lists w and puts it into the chains of its desktops, whatever they were.
LEMMA UpdateRefocused ==
  ASSUME NEW t, Struct(t), Windows(t), NEW w \in Window,
         Len(t.desktops) <= Len(t.chains)
  PROVE  LET u == Update(t, w)
         IN /\ Refocused(t, u) /\ SameFocus(t, u)
            /\ Listed(t, w) => \A x : Listed(u, x)
            /\ ChainsMatch(t, w) => \A x : ChainsMatch(u, x)
<1> DEFINE u == Update(t, w)
<1>1. /\ Keeps(t, u) /\ SameFocus(t, u) /\ Struct(u)
      /\ \A v : Contains(u.mru, v)
                  <=> IF v = w THEN WantsFocus(t, w) ELSE Contains(t.mru, v)
      /\ \A n \in 1..Len(t.chains) : \A v :
           Contains(u.chains[n], v)
             <=> IF v = w THEN WantsFocus(t, w) /\ OnDesktop(t, w, n)
                 ELSE Contains(t.chains[n], v)
  BY Updated
<1> HIDE DEF u
<1>2. Windows(u)
  BY <1>1 DEF Windows, Keeps, SameFocus, IsShown, WantsFocus
<1>3. \A v : WantsFocus(u, v) <=> WantsFocus(t, v)
  BY <1>1 DEF Keeps, WantsFocus
<1>4. \A v, n : /\ OnDesktop(u, v, n) <=> OnDesktop(t, v, n)
                /\ OnAllDesktops(u, v) <=> OnAllDesktops(t, v)
  BY <1>1 DEF Keeps, OnDesktop, OnAllDesktops
<1>5. ASSUME NEW x, Listed(t, x) PROVE Listed(u, x)
  BY <1>1, <1>3, <1>5 DEF Listed
<1>6. ASSUME NEW x, Listed(t, w) PROVE Listed(u, x)
  BY <1>1, <1>3, <1>6 DEF Listed
<1>7. Len(u.desktops) = Len(t.desktops) /\ 1..Len(u.desktops) \subseteq 1..Len(t.chains)
  <2>1. Len(t.desktops) \in Nat /\ Len(t.chains) \in Nat
    BY DEF Struct, State
  <2> QED
    BY <1>1, <2>1 DEF Keeps
<1>8. ASSUME NEW x, ChainsMatch(t, x) PROVE ChainsMatch(u, x)
  BY <1>1, <1>4, <1>7, <1>8 DEF ChainsMatch
<1>9. ASSUME NEW x, ChainsMatch(t, w) PROVE ChainsMatch(u, x)
  BY <1>1, <1>4, <1>7, <1>9 DEF ChainsMatch
<1> QED
  BY <1>1, <1>2, <1>5, <1>6, <1>8, <1>9 DEF Refocused, u

\* setActiveClient(nullptr) leaves the lists alone.
LEMMA Deactivated ==
  ASSUME NEW t, Struct(t), Windows(t)
  PROVE  LET u == Deactivate(t)
         IN /\ Refocused(t, u) /\ ActiveOk(u) /\ u.active = None
            /\ u.last_active = t.last_active
            /\ u.mru = t.mru /\ u.chains = t.chains
<1> DEFINE u == Deactivate(t)
<1>1. t \in State /\ None \in Focusable
  BY DEF Struct, Focusable
<1>2. /\ u \in State /\ u.active = None /\ u.fc_active = None
      /\ u.last_active = t.last_active /\ u.mru = t.mru /\ u.chains = t.chains
  BY <1>1 DEF Deactivate, State
<1>3. Keeps(t, u)
  BY <1>1, <1>2 DEF Deactivate, State, Keeps
<1> HIDE DEF u
<1>4. Struct(u)
  BY <1>2, <1>3 DEF Struct, Keeps
<1>5. Windows(u)
  BY <1>2, <1>3 DEF Windows, Keeps, IsShown, WantsFocus
<1>6. \A x : Listed(t, x) => Listed(u, x)
  BY <1>2, <1>3 DEF Keeps, Listed, WantsFocus
<1>7. \A x : ChainsMatch(t, x) => ChainsMatch(u, x)
  BY <1>2, <1>3 DEF Keeps, ChainsMatch, OnDesktop, OnAllDesktops
<1>8. ActiveOk(u)
  BY <1>2, WorkspaceAssumption DEF ActiveOk
<1> QED
  BY <1>2, <1>3, <1>4, <1>5, <1>6, <1>7, <1>8 DEF Refocused, u

\* What may take the focus.
MayFocus(t, w) == w = Shell \/ (w \in Window /\ IsShown(t, w) /\ WantsFocus(t, w))

\* setActiveClient makes w active and lists it.
LEMMA ActiveClientSet ==
  ASSUME NEW t, Struct(t), Windows(t), NEW w, MayFocus(t, w),
         Len(t.desktops) <= Len(t.chains), t.active = w => ActiveOk(t)
  PROVE  LET u == SetActiveClient(t, w)
         IN /\ Refocused(t, u) /\ ActiveOk(u) /\ u.active = w
            /\ t.active # w /\ Listed(t, w) => \A x : Listed(u, x)
<1>1. CASE t.active = w
  BY <1>1, NotRefocused DEF SetActiveClient
<1>2. CASE t.active # w
  <2> DEFINE d == Deactivate(t)
             e == [d EXCEPT !.active = w, !.last_active = w]
             v == IF w = Shell THEN e ELSE Update(e, w)
             u == [v EXCEPT !.fc_active = w]
  <2>1. SetActiveClient(t, w) = u
    BY <1>2 DEF SetActiveClient
  <2>2. w \in Focusable
    BY DEF MayFocus, Focusable
  <2>3. /\ Refocused(t, d) /\ d.active = None /\ d.last_active = t.last_active
        /\ d.mru = t.mru /\ d.chains = t.chains
    BY Deactivated
  <2> HIDE DEF d
  <2>4. /\ e \in State /\ Keeps(d, e) /\ e.active = w /\ e.last_active = w
        /\ e.mru = d.mru /\ e.chains = d.chains
    BY <2>2, <2>3 DEF Refocused, Keeps, State
  <2> HIDE DEF e
  <2>5. Struct(e)
    BY <2>3, <2>4 DEF Struct, Keeps, Refocused
  <2>6. Windows(e)
    BY <2>3, <2>4, WorkspaceAssumption
       DEF Windows, Keeps, IsShown, WantsFocus, Refocused, MayFocus
  <2>7. Keeps(t, e) /\ e.mru = t.mru /\ e.chains = t.chains
    BY <2>3, <2>4 DEF Refocused, Keeps
  <2>8. \A x : Listed(t, x) <=> Listed(e, x)
    BY <2>7 DEF Keeps, Listed, WantsFocus
  <2>9. \A x : ChainsMatch(t, x) <=> ChainsMatch(e, x)
    BY <2>7 DEF Keeps, ChainsMatch, OnDesktop, OnAllDesktops
  <2>10. /\ Refocused(e, v) /\ v.active = w /\ v.last_active = w
         /\ Listed(e, w) => w = Shell \/ \A x : Listed(v, x)
    <3>1. CASE w = Shell
      BY <2>4, <2>5, <2>6, <3>1, NotRefocused
    <3>2. CASE w # Shell
      <4>1. w \in Window
        BY <3>2 DEF MayFocus
      <4>2. Len(e.desktops) <= Len(e.chains)
        BY <2>7 DEF Keeps
      <4> QED
        BY <2>4, <2>5, <2>6, <3>2, <4>1, <4>2, UpdateRefocused DEF SameFocus
    <3> QED
      BY <3>1, <3>2
  <2> HIDE DEF v
  <2>11. v \in State
    BY <2>10 DEF Refocused, Struct
  <2>12. /\ u \in State /\ Keeps(v, u) /\ u.active = w /\ u.last_active = w
         /\ u.fc_active = w /\ u.mru = v.mru /\ u.chains = v.chains
    BY <2>2, <2>10, <2>11 DEF Keeps, State
  <2> HIDE DEF u
  <2>13. Keeps(t, u)
    BY <2>7, <2>10, <2>12 DEF Keeps, Refocused
  <2>14. Struct(u)
    BY <2>10, <2>12 DEF Struct, Keeps, Refocused
  <2>15. Windows(u)
    BY <2>10, <2>12 DEF Windows, Keeps, IsShown, WantsFocus, Refocused
  <2>16. \A x : Listed(v, x) <=> Listed(u, x)
    BY <2>12 DEF Keeps, Listed, WantsFocus
  <2>17. \A x : ChainsMatch(v, x) <=> ChainsMatch(u, x)
    BY <2>12 DEF Keeps, ChainsMatch, OnDesktop, OnAllDesktops
  <2>18. Refocused(t, u)
    BY <2>8, <2>9, <2>10, <2>13, <2>14, <2>15, <2>16, <2>17 DEF Refocused
  <2>19. ActiveOk(u)
    BY <2>12, <2>13, WorkspaceAssumption DEF ActiveOk, MayFocus, Keeps, IsShown
  <2>20. Listed(t, w) => \A x : Listed(u, x)
    <3>1. CASE w = Shell
      <4>1. Listed(t, w) => \A x : Listed(t, x)
        BY <3>1, WorkspaceAssumption DEF Listed
      <4> QED
        BY <2>18, <4>1 DEF Refocused
    <3> QED
      BY <2>8, <2>10, <2>16, <3>1
  <2> QED
    BY <2>1, <2>12, <2>18, <2>19, <2>20
<1> QED
  BY <1>1, <1>2

\* request_focus makes w active, or changes nothing when w may not take the
\* focus or focus changes are blocked.
LEMMA FocusRequested ==
  ASSUME NEW t, Struct(t), Windows(t), ActiveOk(t), NEW w \in Window \cup {Shell},
         NEW blocked \in BOOLEAN, Len(t.desktops) <= Len(t.chains)
  PROVE  LET u == RequestFocus(t, w, blocked)
         IN /\ Refocused(t, u) /\ ActiveOk(u)
            /\ IF MayFocus(t, w) /\ (~blocked \/ w = t.active)
               THEN /\ u.active = w
                    /\ t.active # w /\ Listed(t, w) => \A x : Listed(u, x)
               ELSE u = t
<1>1. CASE MayFocus(t, w) /\ (~blocked \/ w = t.active)
  <2>1. RequestFocus(t, w, blocked) = SetActiveClient(t, w)
    BY <1>1, WorkspaceAssumption DEF RequestFocus, MayFocus
  <2> QED
    BY <1>1, <2>1, ActiveClientSet
<1>2. CASE ~(MayFocus(t, w) /\ (~blocked \/ w = t.active))
  <2>1. CASE ~MayFocus(t, w)
    <3>1. w # Shell /\ (~IsShown(t, w) \/ ~WantsFocus(t, w))
      BY <2>1 DEF MayFocus
    <3>2. RequestFocus(t, w, blocked) = t
      BY <3>1, Zenon DEF RequestFocus
    <3> QED
      BY <1>2, <3>2, NotRefocused
  <2>2. CASE blocked /\ w # t.active
    <3>1. RequestFocus(t, w, blocked) = t
      BY <2>2, Zenon DEF RequestFocus
    <3> QED
      BY <1>2, <3>1, NotRefocused
  <2> QED
    BY <1>2, <2>1, <2>2
<1> QED
  BY <1>1, <1>2

\* The focus goes to w, to the desktop window, or stays.
LEMMA FocusedOr ==
  ASSUME NEW t, Struct(t), Windows(t), ActiveOk(t), NEW w \in Window \cup {None},
         NEW blocked \in BOOLEAN, Len(t.desktops) <= Len(t.chains)
  PROVE  LET u == FocusOr(t, w, blocked)
         IN /\ Refocused(t, u) /\ ActiveOk(u)
            /\ u.active \in {t.active, w, Shell}
            /\ w \in Window /\ MayFocus(t, w) /\ (~blocked \/ w = t.active)
                 => u.active = w
            /\ w \in Window => u.active \in {t.active, w}
<1>1. CASE w = None /\ FindDesktop = None
  BY <1>1, NotRefocused, WorkspaceAssumption DEF FocusOr
<1>2. CASE w = None /\ FindDesktop = Shell
  <2>1. FocusOr(t, w, blocked) = RequestFocus(t, Shell, blocked)
    BY <1>2, WorkspaceAssumption DEF FocusOr
  <2> QED
    BY <1>2, <2>1, FocusRequested, WorkspaceAssumption
<1>3. CASE w \in Window
  <2>1. FocusOr(t, w, blocked) = RequestFocus(t, w, blocked)
    BY <1>3, WorkspaceAssumption DEF FocusOr
  <2> QED
    BY <1>3, <2>1, FocusRequested
<1> QED
  BY <1>1, <1>2, <1>3 DEF FindDesktop

\* nextForDesktop finds a window or none.
LEMMA NextFound ==
  ASSUME NEW t \in State, NEW w, NEW n
  PROVE  NextForDesktop(t, w, n) \in Window \cup {None}
<1>1. CASE n \notin DOMAIN t.chains
  BY <1>1 DEF NextForDesktop
<1>2. CASE n \in DOMAIN t.chains
  <2> DEFINE c == t.chains[n]
             I == {i \in 1..Len(c) : c[i] # w /\ IsShown(t, c[i]) /\ OnCurrentDesktop(t, c[i])}
  <2>1. c \in Seq(Window)
    BY <1>2 DEF State
  <2>2. NextForDesktop(t, w, n) = IF (IF I # {} THEN Max(I) ELSE 0) = 0 THEN None
                                  ELSE c[IF I # {} THEN Max(I) ELSE 0]
    BY <1>2 DEF NextForDesktop, FirstUsable, SelectLastInSeq
  <2>3. I # {} => Max(I) \in I
    <3>1. Len(c) \in Nat /\ I \in SUBSET (0..Len(c))
      BY <2>1
    <3> HIDE DEF I, c
    <3> QED
      BY <3>1, MaxIsGreatest
  <2>4. I # {} => c[Max(I)] \in Window
    <3>1. I \subseteq 1..Len(c)
      OBVIOUS
    <3> HIDE DEF I, c
    <3>2. I # {} => Max(I) \in 1..Len(c)
      BY <2>3, <3>1
    <3> QED
      BY <2>1, <3>2
  <2> QED
    BY <2>2, <2>4
<1> QED
  BY <1>1, <1>2

\* clientHidden leaves a shown window active, or none.
LEMMA HiddenClient ==
  ASSUME NEW t, Struct(t), Windows(t), NEW w \in Window, t.active # w => ActiveOk(t),
         Len(t.desktops) <= Len(t.chains)
  PROVE  LET u == ClientHidden(t, w)
         IN Refocused(t, u) /\ ActiveOk(u)
<1>1. CASE t.active # w
  BY <1>1, NotRefocused DEF ClientHidden
<1>2. CASE t.active = w
  <2> DEFINE d == Deactivate(t)
             v == NextForDesktop(d, w, Number(d, d.current))
  <2>1. ClientHidden(t, w) = FocusOr(d, v, FALSE)
    BY <1>2 DEF ClientHidden
  <2>2. Refocused(t, d) /\ ActiveOk(d)
    BY Deactivated
  <2> HIDE DEF d
  <2>3. Struct(d) /\ Windows(d) /\ Len(d.desktops) <= Len(d.chains) /\ d \in State
    BY <2>2 DEF Refocused, Keeps
  <2>4. v \in Window \cup {None}
    BY <2>3, NextFound
  <2> HIDE DEF v
  <2>5. Refocused(d, FocusOr(d, v, FALSE)) /\ ActiveOk(FocusOr(d, v, FALSE))
    BY <2>2, <2>3, <2>4, FocusedOr
  <2> QED
    BY <2>1, <2>2, <2>5, RefocusedTwice
<1> QED
  BY <1>1, <1>2

-----------------------------------------------------------------------------
(* Windows on desktops.                                                    *)

\* What holds of the workspace between two handlers, and within them but for
\* the numbers of chains and desktops.
Whole(t) ==
  /\ Struct(t) /\ Windows(t) /\ ActiveOk(t) /\ Listed(t, None)
  /\ Len(t.desktops) <= Len(t.chains)

\* u is t with w on other desktops.
Rehoused(t, u, w) ==
  /\ u \in State
  /\ u.desktops = t.desktops /\ u.current = t.current /\ u.rows = t.rows
  /\ u.recent = t.recent /\ u.clients = t.clients /\ u.fc_current = t.fc_current
  /\ Len(u.chains) = Len(t.chains)
  /\ \A v \in Window : v # w => u.win[v] = t.win[v]
  /\ u.win[w].exists = t.win[w].exists /\ u.win[w].buffer = t.win[w].buffer
  /\ u.win[w].mapped = t.win[w].mapped /\ u.win[w].minimized = t.win[w].minimized

\* A change of the focus keeps what holds between handlers.
LEMMA WholeRefocused ==
  ASSUME NEW t, NEW u, Whole(t), Refocused(t, u), ActiveOk(u)
  PROVE  Whole(u)
BY DEF Whole, Refocused, Keeps

\* setDesktops, with the update of the chains that it ends with.
LEMMA DesktopsSet ==
  ASSUME NEW t, Whole(t), NEW w \in Window, NEW desks \in Seq(Desktop),
         IsInjective(desks)
  PROVE  LET u == SetDesktops(t, w, desks)
         IN /\ Rehoused(t, u, w) /\ Whole(u) /\ SameFocus(t, u)
            /\ ChainsMatch(t, None) => ChainsMatch(u, None)
            /\ u.win[w].desks = desks
<1>0. t \in State /\ t.win \in [Window -> Toplevel]
  BY DEF Whole, Struct, State
<1>1. CASE t.win[w].desks = desks
  <2>1. SetDesktops(t, w, desks) = t
    BY <1>1 DEF SetDesktops
  <2> QED
    BY <1>0, <1>1, <2>1 DEF Rehoused, SameFocus
<1>2. CASE t.win[w].desks # desks
  <2> DEFINE e == [t EXCEPT !.win[w].desks = desks]
             u == Update(e, w)
             o == [t.win[w] EXCEPT !.desks = desks]
             W == [t.win EXCEPT ![w] = o]
  <2>1. SetDesktops(t, w, desks) = u
    BY <1>2 DEF SetDesktops
  <2>2. /\ o \in Toplevel /\ o.exists = t.win[w].exists /\ o.buffer = t.win[w].buffer
        /\ o.mapped = t.win[w].mapped /\ o.minimized = t.win[w].minimized
        /\ o.desks = desks
    BY <1>0 DEF Toplevel
  <2>3. e = [t EXCEPT !.win = W]
    BY <1>0 DEF State
  <2> HIDE DEF o
  <2>4. W \in [Window -> Toplevel] /\ W[w] = o /\ \A v \in Window : v # w => W[v] = t.win[v]
    BY <1>0, <2>2
  <2> HIDE DEF W, e
  <2>5. /\ e \in State /\ e.win = W /\ e.mru = t.mru /\ e.chains = t.chains
        /\ e.desktops = t.desktops /\ e.current = t.current /\ e.rows = t.rows
        /\ e.recent = t.recent /\ e.clients = t.clients
        /\ e.fc_current = t.fc_current
    BY <1>0, <2>3, <2>4 DEF State
  <2>6. SameFocus(t, e)
    BY <1>0, <2>3, <2>4 DEF State, SameFocus
  <2>7. Struct(e)
    BY <2>2, <2>4, <2>5 DEF Struct, Whole
  <2>8. Windows(e)
    BY <2>2, <2>4, <2>5, <2>6 DEF Windows, Whole, IsShown, WantsFocus, SameFocus
  <2>9. Listed(e, None)
    BY <2>2, <2>4, <2>5 DEF Listed, Whole, WantsFocus
  <2>10. ChainsMatch(t, None) => ChainsMatch(e, w)
    BY <2>4, <2>5, WorkspaceAssumption DEF ChainsMatch, OnDesktop, OnAllDesktops
  <2>11. ActiveOk(e)
    BY <2>2, <2>4, <2>5, <2>6 DEF ActiveOk, Whole, SameFocus, IsShown
  <2>12. Len(e.desktops) <= Len(e.chains)
    BY <2>5 DEF Whole
  <2>13. /\ Refocused(e, u) /\ SameFocus(e, u)
         /\ ChainsMatch(e, w) => \A x : ChainsMatch(u, x)
    BY <2>7, <2>8, <2>12, UpdateRefocused
  <2> HIDE DEF u
  <2>14. Rehoused(t, u, w)
    BY <2>2, <2>4, <2>5, <2>13 DEF Rehoused, Refocused, Keeps
  <2>15. ActiveOk(u)
    BY <2>11, <2>13 DEF ActiveOk, SameFocus, Refocused, Keeps, IsShown
  <2>16. Whole(u)
    BY <2>9, <2>12, <2>13, <2>15 DEF Whole, Refocused, Keeps
  <2>17. SameFocus(t, u)
    BY <2>6, <2>13 DEF SameFocus
  <2>18. u.win[w].desks = desks
    BY <2>2, <2>4, <2>5, <2>13 DEF Refocused, Keeps
  <2> QED
    BY <2>1, <2>10, <2>13, <2>14, <2>16, <2>17, <2>18
<1> QED
  BY <1>1, <1>2

\* set_desktop to one desktop or to all.
LEMMA DesktopSet ==
  ASSUME NEW t, Whole(t), NEW w \in Window, NEW n \in 0..Len(t.desktops)
  PROVE  LET u == SetDesktop(t, w, n)
         IN /\ Rehoused(t, u, w) /\ Whole(u) /\ SameFocus(t, u)
            /\ ChainsMatch(t, None) => ChainsMatch(u, None)
            /\ u.win[w].desks = IF n = 0 THEN <<>> ELSE <<t.desktops[n]>>
<1> DEFINE desks == IF n = 0 THEN <<>> ELSE <<t.desktops[n]>>
<1>1. t.desktops \in Seq(Desktop)
  BY DEF Whole, Struct, State
<1>2. desks \in Seq(Desktop) /\ IsInjective(desks)
  <2>1. CASE n = 0
    BY <2>1 DEF IsInjective
  <2>2. CASE n # 0
    <3>1. t.desktops[n] \in Desktop
      BY <1>1, <2>2
    <3> QED
      BY <2>2, <3>1 DEF IsInjective
  <2> QED
    BY <2>1, <2>2
<1>3. SetDesktop(t, w, n) = SetDesktops(t, w, desks)
  BY DEF SetDesktop
<1> HIDE DEF desks
<1>4. /\ Rehoused(t, SetDesktops(t, w, desks), w) /\ Whole(SetDesktops(t, w, desks))
      /\ SameFocus(t, SetDesktops(t, w, desks))
      /\ ChainsMatch(t, None) => ChainsMatch(SetDesktops(t, w, desks), None)
      /\ SetDesktops(t, w, desks).win[w].desks = desks
  BY <1>2, DesktopsSet
<1> QED
  BY <1>3, <1>4 DEF desks

\* leaveDesktop takes d, and only d, from the desktops of w.
LEMMA DesktopLeft ==
  ASSUME NEW t, Whole(t), NEW w \in Window, NEW d
  PROVE  LET u == LeaveDesktop(t, w, d)
         IN /\ Rehoused(t, u, w) /\ Whole(u) /\ SameFocus(t, u)
            /\ ChainsMatch(t, None) => ChainsMatch(u, None)
            /\ \A e : Contains(u.win[w].desks, e)
                 <=> /\ Contains(IF OnAllDesktops(t, w) THEN t.desktops
                                 ELSE t.win[w].desks, e)
                     /\ e # d
<1> DEFINE old == IF OnAllDesktops(t, w) THEN t.desktops ELSE t.win[w].desks
           desks == RemoveFirst(old, d)
<1>1. old \in Seq(Desktop) /\ IsInjective(old)
  BY DEF Whole, Struct, State, Toplevel
<1>2. LeaveDesktop(t, w, d) = SetDesktops(t, w, desks)
  BY DEF LeaveDesktop
<1> HIDE DEF old
<1>3. /\ desks \in Seq(Desktop) /\ IsInjective(desks)
      /\ \A e : Contains(desks, e) <=> Contains(old, e) /\ e # d
  BY <1>1, Removed
<1> HIDE DEF desks
<1>4. /\ Rehoused(t, SetDesktops(t, w, desks), w) /\ Whole(SetDesktops(t, w, desks))
      /\ SameFocus(t, SetDesktops(t, w, desks))
      /\ ChainsMatch(t, None) => ChainsMatch(SetDesktops(t, w, desks), None)
      /\ SetDesktops(t, w, desks).win[w].desks = desks
  BY <1>3, DesktopsSet
<1> QED
  BY <1>2, <1>3, <1>4 DEF old

\* moveAfterClient keeps what holds between handlers.
LEMMA MoveAfterRefocused ==
  ASSUME NEW t, Whole(t), NEW w \in Window, NEW f, f # w
  PROVE  LET u == MoveAfterClient(t, w, f)
         IN /\ Keeps(t, u) /\ Whole(u) /\ SameFocus(t, u)
            /\ ChainsMatch(t, None) => ChainsMatch(u, None)
<1> DEFINE u == MoveAfterClient(t, w, f)
<1>1. /\ Keeps(t, u) /\ SameFocus(t, u) /\ Struct(u)
      /\ \A v : v # w => (Contains(u.mru, v) <=> Contains(t.mru, v))
      /\ Contains(t.mru, w) => Contains(u.mru, w)
      /\ Contains(u.mru, w) => Contains(t.mru, w) \/ WantsFocus(t, w)
      /\ \A n \in 1..Len(t.chains) :
           /\ \A v : v # w => (Contains(u.chains[n], v) <=> Contains(t.chains[n], v))
           /\ Contains(t.chains[n], w) => Contains(u.chains[n], w)
           /\ Contains(u.chains[n], w)
                => \/ Contains(t.chains[n], w)
                   \/ WantsFocus(t, w) /\ OnDesktop(t, w, n)
  BY MovedAfterClient DEF Whole
<1> HIDE DEF u
<1>2. Windows(u)
  BY <1>1 DEF Whole, Windows, Keeps, SameFocus, IsShown, WantsFocus
<1>3. \A v : WantsFocus(u, v) <=> WantsFocus(t, v)
  BY <1>1 DEF Keeps, WantsFocus
<1>4. \A v, n : /\ OnDesktop(u, v, n) <=> OnDesktop(t, v, n)
                /\ OnAllDesktops(u, v) <=> OnAllDesktops(t, v)
  BY <1>1 DEF Keeps, OnDesktop, OnAllDesktops
<1>5. Listed(u, None)
  BY <1>1, <1>3 DEF Listed, Whole
<1>6. Len(u.desktops) = Len(t.desktops) /\ 1..Len(u.desktops) \subseteq 1..Len(t.chains)
  <2>1. Len(t.desktops) \in Nat /\ Len(t.chains) \in Nat /\ Len(t.desktops) <= Len(t.chains)
    BY DEF Whole, Struct, State
  <2> QED
    BY <1>1, <2>1 DEF Keeps
<1>7. WantsFocus(t, w) => Contains(t.mru, w)
  BY WorkspaceAssumption DEF Whole, Listed
<1>8. ASSUME ChainsMatch(t, None) PROVE ChainsMatch(u, None)
  <2>1. ASSUME NEW n \in 1..Len(u.desktops), NEW v \in Window \ {None}
        PROVE  /\ Contains(u.chains[n], v) => OnDesktop(u, v, n)
               /\ Contains(u.mru, v) /\ OnDesktop(u, v, n) /\ ~OnAllDesktops(u, v)
                    => Contains(u.chains[n], v)
    <3>1. n \in 1..Len(t.desktops) /\ n \in 1..Len(t.chains)
      BY <1>6
    <3>2. /\ Contains(t.chains[n], v) => OnDesktop(t, v, n)
          /\ Contains(t.mru, v) /\ OnDesktop(t, v, n) /\ ~OnAllDesktops(t, v)
                    => Contains(t.chains[n], v)
      BY <1>8, <3>1 DEF ChainsMatch
    <3>3. CASE v = w
      BY <1>1, <1>4, <1>7, <3>1, <3>2, <3>3
    <3>4. CASE v # w
      BY <1>1, <1>4, <3>1, <3>2, <3>4
    <3> QED
      BY <3>3, <3>4
  <2> QED
    BY <2>1 DEF ChainsMatch
<1>9. ActiveOk(u)
  BY <1>1 DEF Whole, ActiveOk, SameFocus, Keeps, IsShown
<1>10. Len(u.desktops) <= Len(u.chains)
  BY <1>1 DEF Whole, Keeps
<1> QED
  BY <1>1, <1>2, <1>5, <1>8, <1>9, <1>10 DEF Whole, u

\* sendClientToDesktop puts w on one desktop, and makes no window active when it
\* is told so.
LEMMA SentToDesktop ==
  ASSUME NEW t, Whole(t), NEW w \in Window, NEW n \in 1..Len(t.desktops),
         NEW dont_activate \in BOOLEAN
  PROVE  LET u == SendClientToDesktop(t, w, n, dont_activate)
         IN /\ Rehoused(t, u, w) /\ Whole(u)
            /\ ChainsMatch(t, None) => ChainsMatch(u, None)
            /\ u.win[w].desks = <<t.desktops[n]>>
            /\ dont_activate => u.active = t.active
<1> DEFINE m == SetDesktop(t, w, n)
           u == SendClientToDesktop(t, w, n, dont_activate)
<1>1. /\ Rehoused(t, m, w) /\ Whole(m) /\ SameFocus(t, m)
      /\ ChainsMatch(t, None) => ChainsMatch(m, None)
      /\ m.win[w].desks = <<t.desktops[n]>>
  <2>1. n \in 0..Len(t.desktops) /\ n # 0
    BY DEF Whole, Struct, State
  <2> QED
    BY <2>1, DesktopSet
<1>2. \/ u = m
      \/ u = RequestFocus(m, w, FALSE) /\ ~dont_activate
      \/ u = MoveAfterClient(m, w, m.active) /\ m.active # w
  BY DEF SendClientToDesktop
<1> HIDE DEF m, u
<1>3. CASE u = m
  BY <1>1, <1>3 DEF u, SameFocus
<1>4. CASE u = RequestFocus(m, w, FALSE) /\ ~dont_activate
  <2>1. Refocused(m, u) /\ ActiveOk(u)
    BY <1>1, <1>4, FocusRequested DEF Whole
  <2>2. Whole(u)
    BY <1>1, <2>1, WholeRefocused
  <2>3. Rehoused(t, u, w) /\ u.win[w].desks = <<t.desktops[n]>>
    BY <1>1, <2>1 DEF Rehoused, Refocused, Keeps
  <2> QED
    BY <1>1, <1>4, <2>1, <2>2, <2>3 DEF u, Refocused
<1>5. CASE u = MoveAfterClient(m, w, m.active) /\ m.active # w
  <2>1. /\ Keeps(m, u) /\ Whole(u) /\ SameFocus(m, u)
        /\ ChainsMatch(m, None) => ChainsMatch(u, None)
    BY <1>1, <1>5, MoveAfterRefocused
  <2>2. Rehoused(t, u, w) /\ u.win[w].desks = <<t.desktops[n]>>
    BY <1>1, <2>1 DEF Rehoused, Keeps
  <2> QED
    BY <1>1, <2>1, <2>2 DEF u, SameFocus
<1> QED
  BY <1>2, <1>3, <1>4, <1>5

\* The loop of desktopRemoved takes w from d; d is no longer one of the desktops.
LEMMA RemovedLeft ==
  ASSUME NEW t, Whole(t), NEW w \in Window, NEW d, ~Contains(t.desktops, d),
         NEW number \in Nat \ {0}
  PROVE  LET u == LeaveRemoved(t, w, d, number)
         IN /\ Rehoused(t, u, w) /\ Whole(u) /\ u.active = t.active
            /\ ChainsMatch(t, None) => ChainsMatch(u, None)
            /\ ~Contains(u.win[w].desks, d)
            /\ \A e : Contains(u.win[w].desks, e)
                        => Contains(t.win[w].desks, e) \/ Contains(t.desktops, e)
            /\ \A n : OnDesktop(t, w, n) => OnDesktop(u, w, n)
<1> DEFINE u == LeaveRemoved(t, w, d, number)
<1>0. t \in State /\ t.win[w].desks \in Seq(Desktop) /\ t.desktops \in Seq(Desktop)
  BY DEF Whole, Struct, State, Toplevel
<1>1. CASE ~Contains(t.win[w].desks, d)
  BY <1>0, <1>1 DEF LeaveRemoved, Rehoused
<1>2. CASE Contains(t.win[w].desks, d) /\ Len(t.win[w].desks) > 1
  <2>1. u = LeaveDesktop(t, w, d)
    BY <1>2 DEF LeaveRemoved
  <2>2. ~OnAllDesktops(t, w)
    BY <1>2 DEF OnAllDesktops
  <2>3. /\ Rehoused(t, u, w) /\ Whole(u) /\ SameFocus(t, u)
        /\ ChainsMatch(t, None) => ChainsMatch(u, None)
        /\ \A e : Contains(u.win[w].desks, e) <=> Contains(t.win[w].desks, e) /\ e # d
    BY <2>1, <2>2, DesktopLeft
  <2> HIDE DEF u
  <2>4. ASSUME NEW n, OnDesktop(t, w, n) PROVE OnDesktop(u, w, n)
    <3>1. n \in 1..Len(t.desktops) /\ Contains(t.win[w].desks, t.desktops[n])
      BY <2>2, <2>4 DEF OnDesktop
    <3>2. t.desktops[n] # d
      BY <3>1 DEF Contains
    <3> QED
      BY <2>3, <3>1, <3>2 DEF OnDesktop, Rehoused
  <2> QED
    BY <2>3, <2>4 DEF u, SameFocus
<1>3. CASE Contains(t.win[w].desks, d) /\ ~(Len(t.win[w].desks) > 1)
  <2> DEFINE k == Min({number, Len(t.desktops)})
  <2>1. u = SendClientToDesktop(t, w, k, TRUE)
    BY <1>3 DEF LeaveRemoved
  <2>2. k \in 1..Len(t.desktops)
    <3>1. Len(t.desktops) \in Nat \ {0}
      BY <1>0 DEF Whole, Struct
    <3> QED
      BY <3>1, MinOfTwo
  <2> HIDE DEF k
  <2>3. /\ Rehoused(t, u, w) /\ Whole(u) /\ u.active = t.active
        /\ ChainsMatch(t, None) => ChainsMatch(u, None)
        /\ u.win[w].desks = <<t.desktops[k]>>
    <3>1. ASSUME NEW b \in BOOLEAN
          PROVE  LET v == SendClientToDesktop(t, w, k, b)
                 IN /\ Rehoused(t, v, w) /\ Whole(v) /\ (b => v.active = t.active)
                    /\ ChainsMatch(t, None) => ChainsMatch(v, None)
                    /\ v.win[w].desks = <<t.desktops[k]>>
      BY <2>2, SentToDesktop
    <3> QED
      BY <2>1, <3>1, Zenon
  <2> HIDE DEF u
  <2>4. \A e : Contains(u.win[w].desks, e) => e = t.desktops[k]
    BY <2>3 DEF Contains
  <2>5. Contains(t.desktops, t.desktops[k])
    BY <2>2 DEF Contains
  <2>6. \A e : Contains(t.win[w].desks, e) => e = d
    BY <1>0, <1>3 DEF Contains
  <2>7. ASSUME NEW n, OnDesktop(t, w, n) PROVE FALSE
    BY <1>0, <1>3, <2>6, <2>7 DEF OnDesktop, OnAllDesktops, Contains
  <2> QED
    BY <2>3, <2>4, <2>5, <2>7 DEF u
<1> QED
  BY <1>1, <1>2, <1>3

-----------------------------------------------------------------------------
(* The handler of desktopRemoved.                                          *)

\* u is t with windows on other desktops: they have left some, and are on more
\* only of those there are.
Moved(t, u) ==
  /\ Whole(u)
  /\ u.desktops = t.desktops /\ u.current = t.current /\ u.rows = t.rows
  /\ u.recent = t.recent /\ u.clients = t.clients /\ u.fc_current = t.fc_current
  /\ Len(u.chains) = Len(t.chains) /\ u.active = t.active
  /\ ChainsMatch(t, None) => ChainsMatch(u, None)
  /\ \A v \in Window :
       /\ \A e : Contains(u.win[v].desks, e)
                   => Contains(t.win[v].desks, e) \/ Contains(t.desktops, e)
       /\ \A n : OnDesktop(t, v, n) => OnDesktop(u, v, n)

\* Moves of windows compose.
LEMMA MovedTwice ==
  ASSUME NEW t, NEW u, NEW v, Moved(t, u), Moved(u, v)
  PROVE  Moved(t, v)
BY DEF Moved

\* After the body of the loop w is not on the removed desktop.
LEMMA RemovedLeftMoves ==
  ASSUME NEW t, Whole(t), NEW w \in Window, NEW d, ~Contains(t.desktops, d),
         NEW number \in Nat \ {0}
  PROVE  LET u == LeaveRemoved(t, w, d, number)
         IN Moved(t, u) /\ ~Contains(u.win[w].desks, d)
<1> DEFINE u == LeaveRemoved(t, w, d, number)
<1>1. /\ Rehoused(t, u, w) /\ Whole(u) /\ u.active = t.active
      /\ ChainsMatch(t, None) => ChainsMatch(u, None)
      /\ ~Contains(u.win[w].desks, d)
      /\ \A e : Contains(u.win[w].desks, e)
                  => Contains(t.win[w].desks, e) \/ Contains(t.desktops, e)
      /\ \A n : OnDesktop(t, w, n) => OnDesktop(u, w, n)
  BY RemovedLeft
<1> HIDE DEF u
<1>2. \A v \in Window : \A n : v # w => (OnDesktop(t, v, n) <=> OnDesktop(u, v, n))
  BY <1>1 DEF Rehoused, OnDesktop, OnAllDesktops
<1>3. Moved(t, u)
  BY <1>1, <1>2 DEF Moved, Rehoused
<1> QED
  BY <1>1, <1>3 DEF u

\* The greatest number of an interval, and the others.
LEMMA MaxOfInterval ==
  ASSUME NEW m \in Nat \ {0}
  PROVE  Max(1..m) = m /\ (1..m) \ {m} = 1..(m - 1)
<1>1. 1..m \in SUBSET (0..m) /\ 1..m # {}
  OBVIOUS
<1>2. Max(1..m) \in 1..m /\ \A n \in 1..m : n <= Max(1..m)
  BY <1>1, MaxIsGreatest
<1> QED
  BY <1>2

\* The loop over the windows after d was removed.
LEMMA AllMoved ==
  ASSUME NEW t, Whole(t), NEW d, ~Contains(t.desktops, d), NEW number \in Nat \ {0}
  PROVE  LET u == DesktopRemoved(t, d, number)
         IN /\ Moved(t, u)
            /\ \A v \in Window : Contains(t.clients, v) => ~Contains(u.win[v].desks, d)
<1> DEFINE c == t.clients
           Loop(g, m) ==
             g = [S \in SUBSET (1..m) |->
                    IF S = {} THEN t
                    ELSE LeaveRemoved(g[S \ {Max(S)}], c[Max(S)], d, number)]
<1>1. c \in Seq(Window) /\ Len(c) \in Nat
  BY DEF Whole, Struct, State
<1>2. \A m \in Nat : \E g : Loop(g, m)
  <2> DEFINE Bad == {m \in Nat : ~\E g : Loop(g, m)}
  <2>1. SUFFICES ASSUME Bad # {} PROVE FALSE
    OBVIOUS
  <2>2. PICK m \in Bad : \A n \in Bad : m <= n
    <3>1. Bad \in SUBSET Nat
      OBVIOUS
    <3> HIDE DEF Bad
    <3> QED
      BY <2>1, <3>1, Least
  <2>3. CASE m = 0
    <3> DEFINE g == [S \in SUBSET (1..0) |-> t]
    <3>1. \A S \in SUBSET (1..0) : S = {}
      OBVIOUS
    <3>2. Loop(g, 0)
      BY <3>1
    <3> QED
      BY <2>2, <2>3, <3>2
  <2>4. CASE m # 0
    <3>1. m \in Nat /\ m - 1 \in Nat /\ m - 1 \notin Bad
      <4>1. m \in Nat
        BY <2>2
      <4>2. m - 1 \in Nat /\ ~(m <= m - 1)
        BY <2>4, <4>1
      <4> HIDE DEF Bad
      <4> QED
        BY <2>2, <4>1, <4>2
    <3>2. PICK g : Loop(g, m - 1)
      BY <3>1
    <3> DEFINE h == [S \in SUBSET (1..m) |->
                       IF m \in S THEN LeaveRemoved(g[S \ {m}], c[m], d, number)
                       ELSE g[S]]
    <3>3. ASSUME NEW S \in SUBSET (1..m), m \in S
          PROVE  Max(S) = m /\ h[S \ {m}] = g[S \ {m}] /\ S # {}
      <4>1. S \in SUBSET (0..m) /\ S # {}
        BY <3>1, <3>3
      <4>2. Max(S) \in S /\ \A n \in S : n <= Max(S)
        BY <3>1, <4>1, MaxIsGreatest
      <4>3. Max(S) = m
        <5>1. Max(S) \in 1..m /\ m <= Max(S)
          BY <3>3, <4>2
        <5> QED
          BY <3>1, <5>1
      <4> QED
        BY <4>1, <4>3
    <3>4. ASSUME NEW S \in SUBSET (1..m), m \notin S, S # {}
          PROVE  /\ S \in SUBSET (1..(m - 1)) /\ Max(S) \in S
                 /\ h[S \ {Max(S)}] = g[S \ {Max(S)}]
      <4>1. S \in SUBSET (0..m) /\ S \in SUBSET (1..(m - 1))
        BY <3>1, <3>4
      <4>2. Max(S) \in S
        BY <3>1, <3>4, <4>1, MaxIsGreatest
      <4> QED
        BY <3>4, <4>1, <4>2
    <3>5. ASSUME NEW S \in SUBSET (1..m)
          PROVE  h[S] = IF S = {} THEN t
                        ELSE LeaveRemoved(h[S \ {Max(S)}], c[Max(S)], d, number)
      <4>1. CASE m \in S
        BY <3>3, <4>1
      <4>2. CASE m \notin S /\ S # {}
        <5>1. g[S] = LeaveRemoved(g[S \ {Max(S)}], c[Max(S)], d, number)
          BY <3>2, <3>4, <4>2
        <5> QED
          BY <3>4, <4>2, <5>1
      <4>3. CASE S = {}
        <5>1. S \in SUBSET (1..(m - 1))
          BY <4>3
        <5> QED
          BY <3>2, <4>3, <5>1
      <4> QED
        BY <4>1, <4>2, <4>3
    <3>6. Loop(h, m)
      BY <3>5
    <3> QED
      BY <2>2, <3>6
  <2> QED
    BY <2>3, <2>4
<1> DEFINE g == CHOOSE g : Loop(g, Len(c))
<1>3. DesktopRemoved(t, d, number) = g[1..Len(c)]
  <2>1. DOMAIN c = 1..Len(c)
    BY <1>1
  <2>2. DesktopRemoved(t, d, number) =
          (CHOOSE h : h = [S \in SUBSET (DOMAIN c) |->
                    IF S = {} THEN t
                    ELSE LeaveRemoved(h[S \ {Max(S)}], c[Max(S)], d, number)])[DOMAIN c]
    BY DEF DesktopRemoved, FoldLeft, MapThenFoldSet
  <2> QED
    BY <2>1, <2>2, Zenon
<1>4. Loop(g, Len(c))
  <2> HIDE DEF Loop
  <2> QED
    BY <1>1, <1>2
<1> HIDE DEF g
<1>5. g[1..0] = t
  <2>1. 1..0 = {} /\ 1..0 \in SUBSET (1..Len(c))
    OBVIOUS
  <2> QED
    BY <1>4, <2>1
<1>6. ASSUME NEW k \in 1..Len(c)
      PROVE  g[1..k] = LeaveRemoved(g[1..(k - 1)], c[k], d, number)
  <2>1. 1..k \in SUBSET (1..Len(c)) /\ 1..k # {} /\ k \in Nat \ {0}
    <3> DEFINE l == Len(c)
    <3>1. l \in Nat /\ k \in 1..l
      BY <1>1
    <3> HIDE DEF l
    <3>2. 1..k \in SUBSET (1..l) /\ 1..k # {} /\ k \in Nat \ {0}
      BY <3>1
    <3> QED
      BY <3>2 DEF l
  <2>2. Max(1..k) = k /\ (1..k) \ {k} = 1..(k - 1)
    BY <2>1, MaxOfInterval
  <2> QED
    BY <1>4, <2>1, <2>2
<1> HIDE DEF Loop, c
<1> DEFINE P(k) == /\ Moved(t, g[1..k])
                   /\ \A j \in 1..k : ~Contains(g[1..k].win[c[j]].desks, d)
<1>7. P(0)
  BY <1>5 DEF Moved
<1>8. ASSUME NEW k \in 1..Len(c), P(k - 1) PROVE P(k)
  <2> DEFINE u == g[1..(k - 1)]
             v == g[1..k]
  <2>1. v = LeaveRemoved(u, c[k], d, number)
    BY <1>6
  <2>2. Moved(t, u) /\ \A j \in 1..(k - 1) : ~Contains(u.win[c[j]].desks, d)
    BY <1>8
  <2> HIDE DEF u, v
  <2>3. c[k] \in Window /\ \A j \in 1..k : c[j] \in Window
    BY <1>1
  <2>4. Whole(u) /\ u.desktops = t.desktops
    BY <2>2 DEF Moved
  <2>5. Moved(u, v) /\ ~Contains(v.win[c[k]].desks, d)
    BY <2>1, <2>3, <2>4, RemovedLeftMoves
  <2>6. Moved(t, v)
    BY <2>2, <2>5, MovedTwice
  <2>7. ASSUME NEW j \in 1..k PROVE ~Contains(v.win[c[j]].desks, d)
    <3>1. CASE j = k
      BY <2>5, <3>1
    <3>2. CASE j # k
      <4>1. j \in 1..(k - 1)
        BY <1>1, <3>2
      <4> QED
        BY <2>2, <2>3, <2>4, <2>5, <4>1 DEF Moved
    <3> QED
      BY <3>1, <3>2
  <2> QED
    BY <2>6, <2>7 DEF v
<1>9. P(Len(c))
  <2> DEFINE Bad == {k \in 0..Len(c) : ~P(k)}
  <2>1. SUFFICES ASSUME Bad # {} PROVE FALSE
    BY <1>1
  <2>2. PICK k \in Bad : \A n \in Bad : k <= n
    <3>1. Bad \in SUBSET Nat
      OBVIOUS
    <3> HIDE DEF Bad
    <3> QED
      BY <2>1, <3>1, Least
  <2> HIDE DEF P
  <2>3. k # 0 /\ k \in 1..Len(c)
    BY <1>1, <1>7, <2>2
  <2>4. k - 1 \in 0..Len(c) /\ ~(k <= k - 1)
    BY <1>1, <2>3
  <2>5. P(k - 1)
    BY <2>2, <2>4
  <2> QED
    BY <1>8, <2>2, <2>3, <2>5
<1>10. ASSUME NEW v \in Window, Contains(t.clients, v)
       PROVE  ~Contains(g[1..Len(c)].win[v].desks, d)
  BY <1>9, <1>10 DEF Contains, c
<1> QED
  BY <1>3, <1>9, <1>10

-----------------------------------------------------------------------------
(* Activation on a new current desktop.                                    *)

\* DesktopChain::add puts n first and keeps the length.
LEMMA RecentAdded ==
  ASSUME NEW c \in Seq(Nat), NEW n \in 1..Len(c)
  PROVE  LET r == AddRecent(c, n)
         IN /\ r \in Seq(Nat) /\ Len(r) = Len(c) /\ r[1] = n
            /\ \A i \in 1..Len(r) : r[i] = n \/ \E j \in 1..Len(c) : r[i] = c[j]
<1> DEFINE at == SelectInSeq(c, LAMBDA m : m = n)
           k == IF at = 0 THEN Len(c) ELSE at
           q == RemoveAt(c, k)
           r == <<n>> \o q
<1>0. Len(c) \in Nat /\ n \in Nat /\ Len(c) > 0
  OBVIOUS
<1>1. AddRecent(c, n) = r
  <2>1. ~(n > Len(c))
    BY <1>0
  <2> QED
    BY <2>1 DEF AddRecent
<1>2. k \in 1..Len(c)
  <2> DEFINE I == {i \in 1..Len(c) : c[i] = n}
  <2>1. at = IF I # {} THEN Min(I) ELSE 0
    BY DEF SelectInSeq
  <2>2. I \in SUBSET Nat /\ I \subseteq 1..Len(c)
    OBVIOUS
  <2> HIDE DEF I, at
  <2>3. I # {} => Min(I) \in 1..Len(c)
    BY <2>2, MinIsLeast
  <2> QED
    BY <1>0, <2>1, <2>3
<1> HIDE DEF k
<1>3. /\ q \in Seq(Nat) /\ Len(q) = Len(c) - 1
      /\ \A j \in 1..(Len(c) - 1) : q[j] = IF j < k THEN c[j] ELSE c[j + 1]
  BY <1>2, RemovedAt
<1> HIDE DEF q
<1>4. r \in Seq(Nat) /\ Len(r) = Len(c) /\ r[1] = n
  BY <1>0, <1>3
<1>5. ASSUME NEW i \in 1..Len(r)
      PROVE  r[i] = n \/ \E j \in 1..Len(c) : r[i] = c[j]
  <2>1. CASE i = 1
    BY <1>4, <2>1
  <2>2. CASE i # 1
    <3>1. i - 1 \in 1..(Len(c) - 1)
      BY <1>0, <1>4, <2>2
    <3>2. r[i] = q[i - 1]
      BY <1>0, <1>3, <3>1
    <3>3. i - 1 \in 1..Len(c) /\ i \in 1..Len(c) /\ (i - 1) + 1 = i
      BY <1>0, <3>1, <1>4
    <3> QED
      BY <1>3, <3>1, <3>2, <3>3
  <2> QED
    BY <2>1, <2>2
<1> QED
  BY <1>1, <1>4, <1>5

\* getForActivation finds a window if one of the chain is shown.
LEMMA FoundForActivation ==
  ASSUME NEW t \in State, NEW n \in 1..Len(t.chains)
  PROVE  LET c == GetForActivation(t, n)
         IN \/ c \in Window /\ Contains(t.chains[n], c) /\ IsShown(t, c)
            \/ c = None /\ \A w \in Window : Contains(t.chains[n], w) => ~IsShown(t, w)
<1> DEFINE c == t.chains[n]
           I == {i \in 1..Len(c) : IsShown(t, c[i])}
           i == IF I # {} THEN Max(I) ELSE 0
<1>1. c \in Seq(Window) /\ n \in DOMAIN t.chains
  BY DEF State
<1>2. GetForActivation(t, n) = IF i = 0 THEN None ELSE c[i]
  BY <1>1 DEF GetForActivation, FirstUsable, SelectLastInSeq
<1>3. CASE I = {}
  BY <1>1, <1>2, <1>3 DEF Contains
<1>4. CASE I # {}
  <2>1. Len(c) \in Nat /\ I \in SUBSET (0..Len(c)) /\ I \subseteq 1..Len(c)
    BY <1>1
  <2>2. Max(I) \in I
    <3> HIDE DEF I
    <3> QED
      BY <1>4, <2>1, MaxIsGreatest
  <2>3. Max(I) \in 1..Len(c) /\ IsShown(t, c[Max(I)])
    BY <2>2
  <2>4. GetForActivation(t, n) = c[Max(I)]
    <3> HIDE DEF I, c
    <3> QED
      BY <1>2, <1>4, <2>1, <2>3
  <2> HIDE DEF I
  <2> QED
    BY <1>1, <2>3, <2>4 DEF Contains
<1> QED
  BY <1>3, <1>4

\* activateClientOnNewDesktop makes a window of the chain of n active, if one is
\* shown and the focus may change; the moved window stays active.
LEMMA ActivatedOnNew ==
  ASSUME NEW t, Struct(t), Windows(t), ActiveOk(t), Len(t.desktops) <= Len(t.chains),
         NEW n \in 1..Len(t.chains), NEW blocked \in BOOLEAN,
         NEW moving \in Window \cup {None}
  PROVE  LET u == ActivateOnNewDesktop(t, n, blocked, moving)
         IN /\ Refocused(t, u) /\ ActiveOk(u)
            /\ u.active \in Window => Contains(t.chains[n], u.active)
            /\ u.active \in Window /\ u.active # t.active => ~blocked
            /\ ~blocked /\ (\E w \in Window : Contains(t.chains[n], w) /\ IsShown(t, w))
                 => u.active \in Window
            /\ (/\ moving \in Window /\ moving = t.active
                /\ Contains(t.chains[n], moving) /\ OnCurrentDesktop(t, moving))
                 => u.active = moving
<1> DEFINE stays == /\ moving # None /\ moving = t.active
                    /\ Contains(t.chains[n], moving)
                    /\ IsShown(t, moving) /\ OnCurrentDesktop(t, moving)
           c == IF stays THEN moving ELSE GetForActivation(t, n)
           found == IF c = None THEN FindDesktop ELSE c
           e == IF found = t.active THEN t ELSE Deactivate(t)
           u == FocusOr(e, c, blocked)
<1>0. t \in State
  BY DEF Struct
<1>1. ActivateOnNewDesktop(t, n, blocked, moving) = u
  BY DEF ActivateOnNewDesktop
<1>2. \/ c \in Window /\ Contains(t.chains[n], c) /\ IsShown(t, c)
      \/ c = None /\ \A w \in Window : Contains(t.chains[n], w) => ~IsShown(t, w)
  BY <1>0, FoundForActivation
<1>3. stays => c = moving
  OBVIOUS
<1> HIDE DEF c, stays
<1>4. /\ Refocused(t, e) /\ ActiveOk(e)
      /\ e.active = IF found = t.active THEN t.active ELSE None
  BY NotRefocused, Deactivated
<1> HIDE DEF e
<1>5. /\ Struct(e) /\ Windows(e) /\ Len(e.desktops) <= Len(e.chains)
      /\ e.win = t.win /\ c \in Window \cup {None}
  BY <1>2, <1>4 DEF Refocused, Keeps
<1>6. /\ Refocused(e, u) /\ ActiveOk(u)
      /\ u.active \in {e.active, c, Shell}
      /\ c \in Window /\ MayFocus(e, c) /\ (~blocked \/ c = e.active)
           => u.active = c
      /\ c \in Window => u.active \in {e.active, c}
  BY <1>4, <1>5, FocusedOr
<1> HIDE DEF u
<1>7. Refocused(t, u)
  BY <1>4, <1>6, RefocusedTwice
<1>8. c \in Window => MayFocus(e, c)
  BY <1>2, <1>5, WorkspaceAssumption DEF MayFocus, Windows, IsShown, WantsFocus
<1>9. CASE c \in Window
  <2>1. found = c /\ e.active = IF c = t.active THEN c ELSE None
    BY <1>4, <1>9, WorkspaceAssumption
  <2>2. u.active \in Window => u.active = c
    BY <1>6, <1>9, <2>1, WorkspaceAssumption
  <2>3. ~blocked \/ c = t.active => u.active = c
    BY <1>6, <1>8, <1>9, <2>1
  <2>4. u.active \in Window /\ u.active # t.active => ~blocked
    <3> SUFFICES ASSUME u.active \in Window, u.active # t.active, blocked PROVE FALSE
      OBVIOUS
    <3>1. u.active = c /\ c # t.active /\ e.active = None
      BY <2>1, <2>2, WorkspaceAssumption
    <3>2. u = RequestFocus(e, c, blocked)
      BY <1>9, WorkspaceAssumption DEF FocusOr, u
    <3>3. u = e
      BY <3>1, <3>2, <1>4, <1>5, <1>9, FocusRequested, WorkspaceAssumption
    <3> QED
      BY <3>1, <3>3, WorkspaceAssumption
  <2>5. (/\ moving \in Window /\ moving = t.active /\ Contains(t.chains[n], moving)
         /\ OnCurrentDesktop(t, moving)) => stays
    BY WorkspaceAssumption DEF ActiveOk, stays
  <2>6. u.active \in Window => Contains(t.chains[n], u.active)
    BY <1>2, <1>9, <2>2, WorkspaceAssumption
  <2>7. ~blocked => u.active \in Window
    BY <1>9, <2>3
  <2>8. (/\ moving \in Window /\ moving = t.active /\ Contains(t.chains[n], moving)
         /\ OnCurrentDesktop(t, moving)) => u.active = moving
    BY <1>3, <2>3, <2>5
  <2> QED
    BY <1>1, <1>6, <1>7, <2>4, <2>6, <2>7, <2>8
<1>10. CASE c = None
  <2>1. found = FindDesktop /\ FindDesktop \in {Shell, None}
    BY <1>10 DEF FindDesktop
  <2>2. e.active \notin Window
    BY <1>4, <2>1, WorkspaceAssumption
  <2>3. u.active \notin Window
    BY <1>6, <1>10, <2>2, WorkspaceAssumption
  <2>4. ~\E w \in Window : Contains(t.chains[n], w) /\ IsShown(t, w)
    BY <1>2, <1>10, WorkspaceAssumption
  <2>5. ~(/\ moving \in Window /\ moving = t.active /\ Contains(t.chains[n], moving)
          /\ OnCurrentDesktop(t, moving))
    BY <2>4 DEF ActiveOk
  <2> QED
    BY <1>1, <1>6, <1>7, <2>3, <2>4, <2>5
<1> QED
  BY <1>5, <1>9, <1>10

-----------------------------------------------------------------------------
(* slotCurrentDesktopChanged.                                              *)

\* u is t after the current desktop has become another one.
Switched(t, u) ==
  /\ u \in State
  /\ u.desktops = t.desktops /\ u.current = t.current /\ u.rows = t.rows
  /\ u.clients = t.clients /\ Len(u.chains) = Len(t.chains)
  /\ Struct(u) /\ Windows(u) /\ ActiveOk(u) /\ CurrentMatches(u)

\* The slots of DesktopChainManager and FocusChain note the new number.
LEMMA NumberNoted ==
  ASSUME NEW t, Struct(t), Windows(t), ActiveOk(t), Len(t.desktops) <= Len(t.chains)
  PROVE  LET n == Number(t, t.current)
             u == [t EXCEPT !.recent = AddRecent(@, n), !.fc_current = n]
         IN /\ Switched(t, u) /\ SameFocus(t, u) /\ u.win = t.win
            /\ u.mru = t.mru /\ u.chains = t.chains
            /\ n \in 1..Len(t.desktops) /\ n \in 1..Len(t.chains)
            /\ \A x : Listed(t, x) => Listed(u, x)
            /\ \A x : ChainsMatch(t, x) => ChainsMatch(u, x)
<1> DEFINE n == Number(t, t.current)
           r == AddRecent(t.recent, n)
           u == [t EXCEPT !.recent = AddRecent(@, n), !.fc_current = n]
<1>1. /\ t \in State /\ t.recent \in Seq(Nat) /\ Len(t.recent) = Len(t.chains)
      /\ Len(t.desktops) \in Nat /\ Len(t.chains) \in Nat
  BY DEF Struct, State
<1>2. n \in 1..Len(t.desktops)
  BY <1>1, NumberOf DEF Struct
<1> HIDE DEF n
<1>3. n \in 1..Len(t.chains) /\ n \in 1..Len(t.recent) /\ n \in Nat
  BY <1>1, <1>2
<1>4. /\ r \in Seq(Nat) /\ Len(r) = Len(t.recent) /\ r[1] = n
      /\ \A i \in 1..Len(r) : r[i] = n \/ \E j \in 1..Len(t.recent) : r[i] = t.recent[j]
  BY <1>1, <1>3, RecentAdded
<1> HIDE DEF r
<1>5. /\ u \in State /\ u.recent = r /\ u.fc_current = n
      /\ u.desktops = t.desktops /\ u.current = t.current /\ u.rows = t.rows
      /\ u.clients = t.clients /\ u.win = t.win /\ u.mru = t.mru
      /\ u.chains = t.chains /\ SameFocus(t, u)
  BY <1>1, <1>3, <1>4 DEF State, SameFocus, r
<1> HIDE DEF u
<1>6. \A i \in 1..Len(r) : r[i] \in 1..Len(t.chains)
  BY <1>3, <1>4 DEF Struct
<1>7. Struct(u)
  BY <1>1, <1>4, <1>5, <1>6 DEF Struct
<1>8. Windows(u)
  BY <1>5 DEF Windows, SameFocus, IsShown, WantsFocus
<1>9. ActiveOk(u)
  BY <1>5 DEF ActiveOk, SameFocus, IsShown
<1>10. CurrentMatches(u)
  BY <1>4, <1>5 DEF CurrentMatches, Number, n
<1>11. \A x : Listed(t, x) => Listed(u, x)
  BY <1>5 DEF Listed, WantsFocus
<1>12. \A x : ChainsMatch(t, x) => ChainsMatch(u, x)
  BY <1>5 DEF ChainsMatch, OnDesktop, OnAllDesktops
<1>13. Switched(t, u)
  BY <1>5, <1>7, <1>8, <1>9, <1>10 DEF Switched
<1> QED
  BY <1>2, <1>3, <1>5, <1>11, <1>12, <1>13 DEF n, u

\* Whoever leaves desktops and numbers alone keeps them in agreement.
LEMMA CurrentMatchesKept ==
  ASSUME NEW t, NEW u, CurrentMatches(t), u.desktops = t.desktops,
         u.current = t.current, u.recent = t.recent, u.fc_current = t.fc_current
  PROVE  CurrentMatches(u)
BY DEF CurrentMatches, Number

\* slotCurrentDesktopChanged without a moved window.
LEMMA CurrentChangedStays ==
  ASSUME NEW t, Struct(t), Windows(t), ActiveOk(t), Len(t.desktops) <= Len(t.chains),
         NEW blocked \in BOOLEAN
  PROVE  LET u == CurrentChanged(t, blocked, None)
             n == Number(t, t.current)
         IN /\ Switched(t, u) /\ u.win = t.win
            /\ \A x : Listed(t, x) => Listed(u, x)
            /\ \A x : ChainsMatch(t, x) => ChainsMatch(u, x)
            /\ u.active \in Window => Contains(t.chains[n], u.active)
            /\ u.active \in Window /\ u.active # t.active => ~blocked
            /\ ~blocked /\ (\E w \in Window : Contains(t.chains[n], w) /\ IsShown(t, w))
                 => u.active \in Window
<1> DEFINE n == Number(t, t.current)
           e == [t EXCEPT !.recent = AddRecent(@, n), !.fc_current = n]
           u == ActivateOnNewDesktop(e, n, blocked, None)
<1>1. CurrentChanged(t, blocked, None) = u
  BY DEF CurrentChanged
<1>2. /\ Switched(t, e) /\ SameFocus(t, e) /\ e.win = t.win
      /\ e.mru = t.mru /\ e.chains = t.chains
      /\ n \in 1..Len(t.desktops) /\ n \in 1..Len(t.chains)
      /\ \A x : Listed(t, x) => Listed(e, x)
      /\ \A x : ChainsMatch(t, x) => ChainsMatch(e, x)
  BY NumberNoted
<1> HIDE DEF e, n
<1>3. /\ Struct(e) /\ Windows(e) /\ ActiveOk(e) /\ n \in 1..Len(e.chains)
      /\ Len(e.desktops) <= Len(e.chains)
  BY <1>2 DEF Switched
<1>4. /\ Refocused(e, u) /\ ActiveOk(u)
      /\ u.active \in Window => Contains(e.chains[n], u.active)
      /\ u.active \in Window /\ u.active # e.active => ~blocked
      /\ ~blocked /\ (\E w \in Window : Contains(e.chains[n], w) /\ IsShown(e, w))
           => u.active \in Window
  BY <1>3, ActivatedOnNew
<1> HIDE DEF u
<1>5. CurrentMatches(u)
  BY <1>2, <1>4, CurrentMatchesKept DEF Refocused, Keeps, Switched
<1>6. Switched(t, u) /\ u.win = t.win
  BY <1>2, <1>4, <1>5 DEF Switched, Refocused, Keeps
<1>7. \A w : IsShown(e, w) <=> IsShown(t, w)
  BY <1>2 DEF IsShown
<1>8. /\ \A x : Listed(t, x) => Listed(u, x)
      /\ \A x : ChainsMatch(t, x) => ChainsMatch(u, x)
  BY <1>2, <1>4 DEF Refocused
<1>9. /\ u.active \in Window => Contains(t.chains[n], u.active)
      /\ u.active \in Window /\ u.active # t.active => ~blocked
      /\ ~blocked /\ (\E w \in Window : Contains(t.chains[n], w) /\ IsShown(t, w))
           => u.active \in Window
  BY <1>2, <1>4, <1>7 DEF SameFocus
<1> QED
  BY <1>1, <1>6, <1>8, <1>9 DEF n

\* With movingClient, which is the active window.
LEMMA CurrentChangedMoves ==
  ASSUME NEW t, Whole(t), NEW w \in Window, t.active = w
  PROVE  LET u == CurrentChanged(t, TRUE, w)
             n == Number(t, t.current)
         IN /\ Switched(t, u) /\ Whole(u)
            /\ ChainsMatch(t, None) => ChainsMatch(u, None)
            /\ u.active \in Window /\ ChainsMatch(t, None) => OnDesktop(u, u.active, n)
            /\ \A v \in Window : v # w => u.win[v] = t.win[v]
            /\ u.win[w].exists = t.win[w].exists
            /\ \A e : Contains(u.win[w].desks, e)
                 => Contains(t.win[w].desks, e) \/ Contains(t.desktops, e)
            /\ ChainsMatch(t, None) /\ ~OnAllDesktops(t, w) => u.active = w
<1> DEFINE n == Number(t, t.current)
           e == [t EXCEPT !.recent = AddRecent(@, n), !.fc_current = n]
           v == IF ~OnDesktop(e, w, n) THEN SetDesktop(e, w, n) ELSE e
           u == ActivateOnNewDesktop(v, n, TRUE, w)
<1>1. CurrentChanged(t, TRUE, w) = u
  BY WorkspaceAssumption DEF CurrentChanged
<1>2. /\ Switched(t, e) /\ SameFocus(t, e) /\ e.win = t.win
      /\ e.mru = t.mru /\ e.chains = t.chains
      /\ n \in 1..Len(t.desktops) /\ n \in 1..Len(t.chains)
      /\ \A x : Listed(t, x) => Listed(e, x)
      /\ \A x : ChainsMatch(t, x) => ChainsMatch(e, x)
  BY NumberNoted DEF Whole
<1>n. n = Number(t, t.current)
  OBVIOUS
<1> HIDE DEF e, n
<1>3. Whole(e)
  BY <1>2 DEF Switched, Whole
<1>4. /\ Rehoused(e, v, w) /\ Whole(v) /\ SameFocus(e, v)
      /\ ChainsMatch(e, None) => ChainsMatch(v, None)
      /\ OnDesktop(v, w, n)
      /\ \A d : Contains(v.win[w].desks, d)
           => Contains(t.win[w].desks, d) \/ Contains(t.desktops, d)
      /\ ~OnAllDesktops(e, w) => ~OnAllDesktops(v, w)
  <2>0. e \in State /\ n \in 1..Len(e.desktops) /\ e.desktops = t.desktops
    BY <1>2 DEF Switched
  <2>1. CASE OnDesktop(e, w, n)
    BY <1>2, <1>3, <2>0, <2>1 DEF Rehoused, SameFocus
  <2>2. CASE ~OnDesktop(e, w, n)
    <3>1. n \in 0..Len(e.desktops) /\ n # 0
      BY <2>0 DEF State
    <3>2. v = SetDesktop(e, w, n)
      BY <2>2
    <3> HIDE DEF v
    <3>3. /\ Rehoused(e, v, w) /\ Whole(v) /\ SameFocus(e, v)
          /\ ChainsMatch(e, None) => ChainsMatch(v, None)
          /\ v.win[w].desks = <<e.desktops[n]>>
      BY <1>3, <3>1, <3>2, DesktopSet
    <3>4. v.desktops = e.desktops
      BY <3>3 DEF Rehoused
    <3>5. OnDesktop(v, w, n)
      BY <2>0, <3>3, <3>4 DEF OnDesktop, Contains
    <3>6. ~OnAllDesktops(v, w)
      BY <3>3 DEF OnAllDesktops
    <3>7. \A d : Contains(v.win[w].desks, d) => Contains(t.desktops, d)
      BY <2>0, <3>3 DEF Contains
    <3> QED
      BY <3>3, <3>5, <3>6, <3>7
  <2> QED
    BY <2>1, <2>2
<1> HIDE DEF v
<1>5. /\ Struct(v) /\ Windows(v) /\ ActiveOk(v) /\ n \in 1..Len(v.chains)
      /\ Len(v.desktops) <= Len(v.chains) /\ v.active = w
      /\ v.desktops = t.desktops /\ v.current = t.current
  BY <1>2, <1>4 DEF Whole, Rehoused, Switched, SameFocus
<1>6. /\ Refocused(v, u) /\ ActiveOk(u)
      /\ u.active \in Window => Contains(v.chains[n], u.active)
      /\ w \in Window /\ w = v.active /\ Contains(v.chains[n], w) /\ OnCurrentDesktop(v, w)
           => u.active = w
  BY <1>5, ActivatedOnNew
<1> HIDE DEF u
<1>7. CurrentMatches(u)
  BY <1>2, <1>4, <1>6, CurrentMatchesKept DEF Refocused, Keeps, Switched, Rehoused
<1>8. Switched(t, u) /\ u.win = v.win
  BY <1>2, <1>4, <1>6, <1>7 DEF Switched, Refocused, Keeps, Rehoused
<1>9. Whole(u)
  BY <1>4, <1>6, WholeRefocused
<1>10. ASSUME ChainsMatch(t, None)
       PROVE  /\ ChainsMatch(u, None)
              /\ u.active \in Window => OnDesktop(u, u.active, n)
              /\ ~OnAllDesktops(t, w) => u.active = w
  <2>1. ChainsMatch(v, None)
    BY <1>2, <1>4, <1>10
  <2>2. n \in 1..Len(v.desktops)
    BY <1>2, <1>5
  <2>3. u.active \in Window => OnDesktop(v, u.active, n)
    BY <1>6, <2>1, <2>2, WorkspaceAssumption DEF ChainsMatch
  <2>4. u.active \in Window => OnDesktop(u, u.active, n)
    BY <1>6, <2>3 DEF Refocused, Keeps, OnDesktop, OnAllDesktops
  <2>5. ~OnAllDesktops(t, w) => ~OnAllDesktops(v, w)
    BY <1>2, <1>4 DEF OnAllDesktops
  <2>6. Contains(v.mru, w)
    BY <1>4, <1>5, WorkspaceAssumption DEF Whole, Listed, ActiveOk, Windows
  <2>7. ~OnAllDesktops(t, w) => Contains(v.chains[n], w)
    BY <1>4, <2>1, <2>2, <2>5, <2>6, WorkspaceAssumption DEF ChainsMatch
  <2>8. OnCurrentDesktop(v, w)
    BY <1>4, <1>5, <1>n DEF OnCurrentDesktop, Number
  <2> QED
    BY <1>5, <1>6, <2>1, <2>4, <2>7, <2>8 DEF Refocused
<1> QED
  BY <1>1, <1>2, <1>4, <1>8, <1>9, <1>10 DEF n, Rehoused

\* m_current alone, before currentChanged is emitted.
LEMMA CurrentSet ==
  ASSUME NEW t, Struct(t), Windows(t), ActiveOk(t), NEW d, Contains(t.desktops, d)
  PROVE  LET e == [t EXCEPT !.current = d]
         IN /\ e \in State /\ Struct(e) /\ Windows(e) /\ ActiveOk(e) /\ SameFocus(t, e)
            /\ e.desktops = t.desktops /\ e.current = d /\ e.rows = t.rows
            /\ e.clients = t.clients /\ e.chains = t.chains /\ e.mru = t.mru
            /\ e.win = t.win /\ e.recent = t.recent
            /\ \A x : Listed(t, x) <=> Listed(e, x)
            /\ \A x : ChainsMatch(t, x) <=> ChainsMatch(e, x)
<1> DEFINE e == [t EXCEPT !.current = d]
<1>1. t \in State /\ d \in Desktop
  BY DEF Struct, State, Contains
<1>2. /\ e \in State /\ SameFocus(t, e)
      /\ e.desktops = t.desktops /\ e.current = d /\ e.rows = t.rows
      /\ e.clients = t.clients /\ e.chains = t.chains /\ e.mru = t.mru
      /\ e.win = t.win /\ e.recent = t.recent
  BY <1>1 DEF State, SameFocus
<1> HIDE DEF e
<1>3. Struct(e)
  BY <1>2 DEF Struct
<1>4. Windows(e) /\ ActiveOk(e)
  BY <1>2 DEF Windows, ActiveOk, SameFocus, IsShown, WantsFocus
<1>5. \A x : Listed(t, x) <=> Listed(e, x)
  BY <1>2 DEF Listed, WantsFocus
<1>6. \A x : ChainsMatch(t, x) <=> ChainsMatch(e, x)
  BY <1>2 DEF ChainsMatch, OnDesktop, OnAllDesktops
<1> QED
  BY <1>2, <1>3, <1>4, <1>5, <1>6 DEF e

-----------------------------------------------------------------------------
(* setCurrent, activateClient and countChanged.                            *)

\* u is t after a switch to d, with the same windows.
Arrived(t, u, d) ==
  /\ u \in State /\ u.desktops = t.desktops /\ u.current = d
  /\ u.rows = t.rows /\ u.clients = t.clients /\ u.win = t.win
  /\ Len(u.chains) = Len(t.chains)
  /\ Struct(u) /\ Windows(u) /\ ActiveOk(u) /\ CurrentMatches(u)
  /\ \A x : Listed(t, x) => Listed(u, x)
  /\ \A x : ChainsMatch(t, x) => ChainsMatch(u, x)
  /\ u.active \in Window => Contains(t.chains[Number(t, d)], u.active)

\* A window is shown that the chain of desktop d has.
Candidate(t, d) ==
  \E w \in Window : Contains(t.chains[Number(t, d)], w) /\ IsShown(t, w)

\* setCurrent to another desktop; nothing becomes active while it is blocked.
LEMMA SwitchedTo ==
  ASSUME NEW t, Struct(t), Windows(t), ActiveOk(t), Len(t.desktops) <= Len(t.chains),
         NEW d, Contains(t.desktops, d), d # t.current, NEW blocked \in BOOLEAN
  PROVE  LET u == SetCurrent(t, d, blocked, None)
         IN /\ Arrived(t, u, d)
            /\ u.active \in Window /\ u.active # t.active => ~blocked
            /\ ~blocked /\ Candidate(t, d) => u.active \in Window
<1> DEFINE e == [t EXCEPT !.current = d]
           u == CurrentChanged(e, blocked, None)
           n == Number(t, d)
<1>1. SetCurrent(t, d, blocked, None) = u
  BY DEF SetCurrent
<1>2. /\ e \in State /\ Struct(e) /\ Windows(e) /\ ActiveOk(e) /\ SameFocus(t, e)
      /\ e.desktops = t.desktops /\ e.current = d /\ e.rows = t.rows
      /\ e.clients = t.clients /\ e.chains = t.chains /\ e.mru = t.mru
      /\ e.win = t.win /\ e.recent = t.recent
      /\ \A x : Listed(t, x) <=> Listed(e, x)
      /\ \A x : ChainsMatch(t, x) <=> ChainsMatch(e, x)
  BY CurrentSet
<1> HIDE DEF e
<1>3. Len(e.desktops) <= Len(e.chains) /\ Number(e, e.current) = n
  BY <1>2 DEF Number
<1> HIDE DEF n
<1>4. /\ Switched(e, u) /\ u.win = e.win
      /\ \A x : Listed(e, x) => Listed(u, x)
      /\ \A x : ChainsMatch(e, x) => ChainsMatch(u, x)
      /\ u.active \in Window => Contains(e.chains[n], u.active)
      /\ u.active \in Window /\ u.active # e.active => ~blocked
      /\ ~blocked /\ (\E w \in Window : Contains(e.chains[n], w) /\ IsShown(e, w))
           => u.active \in Window
  BY <1>2, <1>3, CurrentChangedStays
<1> HIDE DEF u
<1>5. \A w : IsShown(e, w) <=> IsShown(t, w)
  BY <1>2 DEF IsShown
<1>6. /\ u.active \in Window => Contains(t.chains[n], u.active)
      /\ u.active \in Window /\ u.active # t.active => ~blocked
      /\ ~blocked /\ (\E w \in Window : Contains(t.chains[n], w) /\ IsShown(t, w))
           => u.active \in Window
  BY <1>2, <1>4, <1>5 DEF SameFocus
<1>7. /\ u \in State /\ u.desktops = t.desktops /\ u.current = d
      /\ u.rows = t.rows /\ u.clients = t.clients /\ u.win = t.win
      /\ Len(u.chains) = Len(t.chains)
      /\ Struct(u) /\ Windows(u) /\ ActiveOk(u) /\ CurrentMatches(u)
  BY <1>2, <1>4 DEF Switched
<1>8. /\ \A x : Listed(t, x) => Listed(u, x)
      /\ \A x : ChainsMatch(t, x) => ChainsMatch(u, x)
  BY <1>2, <1>4
<1> QED
  BY <1>1, <1>6, <1>7, <1>8 DEF n, Arrived, Candidate

\* set_minimized(false) before windowShown.
Restored(t, w) == [t EXCEPT !.win[w].minimized = FALSE]

\* A mapped window that is not minimised may take the focus.
LEMMA Unminimized ==
  ASSUME NEW t, Struct(t), Windows(t), ActiveOk(t), NEW w \in Window, t.win[w].mapped
  PROVE  LET u == Restored(t, w)
         IN /\ u \in State /\ Struct(u) /\ Windows(u) /\ ActiveOk(u) /\ SameFocus(t, u)
            /\ u.desktops = t.desktops /\ u.current = t.current /\ u.rows = t.rows
            /\ u.recent = t.recent /\ u.clients = t.clients
            /\ u.fc_current = t.fc_current /\ u.chains = t.chains /\ u.mru = t.mru
            /\ u.win[w].exists = t.win[w].exists /\ u.win[w].buffer = t.win[w].buffer
            /\ u.win[w].mapped /\ ~u.win[w].minimized
            /\ \A v \in Window : v # w => u.win[v] = t.win[v]
            /\ \A v \in Window : u.win[v].desks = t.win[v].desks
            /\ MayFocus(u, w)
            /\ \A x : Listed(t, x) => Listed(u, x)
            /\ \A x : ChainsMatch(t, x) => ChainsMatch(u, x)
<1> DEFINE u == Restored(t, w)
           o == [t.win[w] EXCEPT !.minimized = FALSE]
           W == [t.win EXCEPT ![w] = o]
<1>0. t \in State /\ t.win \in [Window -> Toplevel]
  BY DEF Struct, State
<1>2. /\ o \in Toplevel /\ o.exists = t.win[w].exists /\ o.buffer = t.win[w].buffer
      /\ o.mapped = t.win[w].mapped /\ o.minimized = FALSE
      /\ o.desks = t.win[w].desks
  BY <1>0 DEF Toplevel
<1>3. u = [t EXCEPT !.win = W]
  BY <1>0 DEF State, Restored
<1>o. o = [t.win[w] EXCEPT !.minimized = FALSE]
  OBVIOUS
<1> HIDE DEF o
<1>4. W \in [Window -> Toplevel] /\ W[w] = o /\ \A v \in Window : v # w => W[v] = t.win[v]
  BY <1>0, <1>2
<1> HIDE DEF W, u
<1>5. /\ u \in State /\ u.win = W /\ u.mru = t.mru /\ u.chains = t.chains
      /\ u.desktops = t.desktops /\ u.current = t.current /\ u.rows = t.rows
      /\ u.recent = t.recent /\ u.clients = t.clients
      /\ u.fc_current = t.fc_current /\ SameFocus(t, u)
  BY <1>0, <1>3, <1>4 DEF State, SameFocus
<1>6. \A v \in Window : u.win[v].desks = t.win[v].desks
  BY <1>2, <1>4, <1>5
<1>7. Struct(u)
  BY <1>5, <1>6 DEF Struct
<1>8. Windows(u)
  BY <1>2, <1>4, <1>5 DEF Windows, IsShown, WantsFocus, SameFocus
<1>9. ActiveOk(u)
  BY <1>2, <1>4, <1>5 DEF ActiveOk, IsShown, SameFocus
<1>10. MayFocus(u, w)
  BY <1>2, <1>4, <1>5 DEF MayFocus, IsShown, WantsFocus, Windows
<1>11. \A x : Listed(t, x) => Listed(u, x)
  BY <1>2, <1>4, <1>5 DEF Listed, WantsFocus
<1>12. \A x : ChainsMatch(t, x) => ChainsMatch(u, x)
  BY <1>5, <1>6 DEF ChainsMatch, OnDesktop, OnAllDesktops
<1> QED
  BY <1>2, <1>4, <1>5, <1>6, <1>7, <1>8, <1>9, <1>10, <1>11, <1>12 DEF u

\* No window is on a desktop that there is not.
Alive(t) ==
  \A w \in Window : \A d : Contains(t.win[w].desks, d) => Contains(t.desktops, d)

\* activateClient ends with w active on the current desktop, also when it has to
\* go to another desktop first.
LEMMA Activated ==
  ASSUME NEW t, Struct(t), Windows(t), ActiveOk(t), Len(t.desktops) <= Len(t.chains),
         NEW w \in Window, t.win[w].mapped, Alive(t),
         Listed(t, w), t.active = w => Listed(t, None)
  PROVE  LET u == ActivateClient(t, w)
         IN /\ Whole(u) /\ Alive(u)
            /\ u.desktops = t.desktops /\ u.rows = t.rows /\ u.clients = t.clients
            /\ Len(u.chains) = Len(t.chains)
            /\ \A v \in Window : u.win[v].desks = t.win[v].desks
            /\ u.active = w /\ OnCurrentDesktop(u, w)
            /\ ChainsMatch(t, None) => ChainsMatch(u, None)
            /\ CurrentMatches(t) => CurrentMatches(u)
<1> DEFINE there == IF OnCurrentDesktop(t, w) THEN t
                    ELSE SetCurrent(t, Last(t.win[w].desks), TRUE, None)
           e == Restored(there, w)
           u == RequestFocus(e, w, FALSE)
<1>0. t \in State /\ t.win[w] \in Toplevel /\ Len(t.desktops) \in Nat
  BY DEF Struct, State
<1>1. ActivateClient(t, w) = u
  BY DEF ActivateClient, Restored
<1>2. /\ there \in State /\ there.desktops = t.desktops /\ there.rows = t.rows
      /\ there.clients = t.clients /\ there.win = t.win
      /\ Len(there.chains) = Len(t.chains)
      /\ Struct(there) /\ Windows(there) /\ ActiveOk(there)
      /\ CurrentMatches(t) => CurrentMatches(there)
      /\ \A x : Listed(t, x) => Listed(there, x)
      /\ \A x : ChainsMatch(t, x) => ChainsMatch(there, x)
      /\ OnCurrentDesktop(there, w)
      /\ there.active = w => t.active = w
  <2>1. CASE OnCurrentDesktop(t, w)
    BY <1>0, <2>1
  <2>2. CASE ~OnCurrentDesktop(t, w)
    <3> DEFINE desks == t.win[w].desks
               d == Last(desks)
    <3>1. desks \in Seq(Desktop) /\ desks # <<>>
      BY <1>0, <2>2 DEF Toplevel, OnCurrentDesktop, OnDesktop, OnAllDesktops
    <3>2. Contains(desks, d)
      BY <3>1 DEF Contains, Last
    <3>3. Contains(t.desktops, d)
      BY <3>2 DEF Alive
    <3>4. d # t.current
      <4> SUFFICES ASSUME d = t.current PROVE FALSE
        OBVIOUS
      <4>1. /\ Number(t, t.current) \in 1..Len(t.desktops)
            /\ t.desktops[Number(t, t.current)] = t.current
        BY <1>0, <3>3, NumberOf
      <4> QED
        BY <2>2, <3>2, <4>1 DEF OnCurrentDesktop, OnDesktop
    <3>5. there = SetCurrent(t, d, TRUE, None)
      BY <2>2
    <3> HIDE DEF d, there
    <3>6. /\ there \in State /\ there.desktops = t.desktops /\ there.current = d
          /\ there.rows = t.rows /\ there.clients = t.clients /\ there.win = t.win
          /\ Len(there.chains) = Len(t.chains)
          /\ Struct(there) /\ Windows(there) /\ ActiveOk(there) /\ CurrentMatches(there)
          /\ \A x : Listed(t, x) => Listed(there, x)
          /\ \A x : ChainsMatch(t, x) => ChainsMatch(there, x)
          /\ there.active \in Window => there.active = t.active
      <4>1. ASSUME NEW b \in BOOLEAN
            PROVE  LET v == SetCurrent(t, d, b, None)
                   IN /\ Arrived(t, v, d)
                      /\ v.active \in Window /\ v.active # t.active => ~b
        BY <3>3, <3>4, SwitchedTo
      <4>2. LET v == SetCurrent(t, d, TRUE, None)
            IN Arrived(t, v, d) /\ (v.active \in Window => v.active = t.active)
        BY <4>1
      <4> QED
        BY <3>5, <4>2 DEF Arrived
    <3>7. /\ Number(there, d) \in 1..Len(there.desktops)
          /\ there.desktops[Number(there, d)] = d
      BY <3>3, <3>6, NumberOf
    <3>8. OnCurrentDesktop(there, w)
      BY <3>2, <3>6, <3>7 DEF OnCurrentDesktop, OnDesktop
    <3> QED
      BY <3>6, <3>8
  <2> QED
    BY <2>1, <2>2
<1> HIDE DEF there
<1>3. there.win[w].mapped
  BY <1>2
<1>4. /\ e \in State /\ Struct(e) /\ Windows(e) /\ ActiveOk(e) /\ SameFocus(there, e)
      /\ e.desktops = there.desktops /\ e.current = there.current /\ e.rows = there.rows
      /\ e.recent = there.recent /\ e.clients = there.clients
      /\ e.fc_current = there.fc_current /\ e.chains = there.chains /\ e.mru = there.mru
      /\ \A v \in Window : e.win[v].desks = there.win[v].desks
      /\ MayFocus(e, w)
      /\ \A x : Listed(there, x) => Listed(e, x)
      /\ \A x : ChainsMatch(there, x) => ChainsMatch(e, x)
  <2>1. Struct(there) /\ Windows(there) /\ ActiveOk(there)
    BY <1>2
  <2> QED
    BY <2>1, <1>3, Unminimized
<1> HIDE DEF e
<1>5. Len(e.desktops) <= Len(e.chains)
  BY <1>2, <1>4
<1>6. /\ Refocused(e, u) /\ ActiveOk(u) /\ u.active = w
      /\ e.active # w /\ Listed(e, w) => \A x : Listed(u, x)
  BY <1>4, <1>5, FocusRequested
<1> HIDE DEF u
<1>7. Listed(u, None)
  <2>1. CASE e.active = w
    <3>1. t.active = w
      BY <1>2, <1>4, <2>1 DEF SameFocus
    <3> QED
      BY <1>2, <1>4, <1>6, <3>1 DEF Refocused
  <2>2. CASE e.active # w
    BY <1>2, <1>4, <1>6, <2>2
  <2> QED
    BY <2>1, <2>2
<1>8. Whole(u)
  BY <1>5, <1>6, <1>7 DEF Whole, Refocused, Keeps
<1>9. /\ u.desktops = t.desktops /\ u.rows = t.rows /\ u.clients = t.clients
      /\ Len(u.chains) = Len(t.chains)
      /\ \A v \in Window : u.win[v].desks = t.win[v].desks
  BY <1>2, <1>4, <1>6 DEF Refocused, Keeps
<1>10. Alive(u)
  BY <1>9 DEF Alive
<1>11. OnCurrentDesktop(u, w)
  BY <1>2, <1>4, <1>6 DEF Refocused, Keeps, OnCurrentDesktop, OnDesktop, OnAllDesktops, Number
<1>12. CurrentMatches(there) => CurrentMatches(u)
  BY <1>4, <1>6, CurrentMatchesKept DEF Refocused, Keeps
<1>13. ChainsMatch(t, None) => ChainsMatch(u, None)
  BY <1>2, <1>4, <1>6 DEF Refocused
<1> QED
  BY <1>1, <1>2, <1>6, <1>8, <1>9, <1>10, <1>11, <1>12, <1>13

\* The slots of countChanged: chains and rows fit the desktops again.
LEMMA CountAdjusted ==
  ASSUME NEW t, Struct(t), Windows(t), ActiveOk(t), Listed(t, None), t.rows > 0
  PROVE  LET u == CountChanged(t)
             k == Len(t.desktops)
         IN /\ Whole(u) /\ Len(u.chains) = k /\ u.rows \in 1..k
            /\ u.desktops = t.desktops /\ u.current = t.current /\ u.win = t.win
            /\ u.mru = t.mru /\ u.fc_current = t.fc_current /\ u.active = t.active
            /\ \A i \in 1..k : u.chains[i] = IF i <= Len(t.chains) THEN t.chains[i] ELSE <<>>
            /\ u.recent[1] = IF t.recent[1] <= k THEN t.recent[1] ELSE k
<1> DEFINE u == CountChanged(t)
           k == Len(t.desktops)
           C == [i \in 1..k |-> IF i \in DOMAIN t.chains THEN t.chains[i] ELSE <<>>]
           R == [i \in 1..k |-> IF i <= Len(t.recent) THEN Min({t.recent[i], k}) ELSE i]
           r == Min({t.rows, k})
<1>0. /\ t \in State /\ t.desktops \in Seq(Desktop) /\ t.chains \in Seq(Seq(Window))
      /\ t.recent \in Seq(Nat) /\ Len(t.recent) = Len(t.chains) /\ t.rows \in Nat
      /\ Len(t.chains) \in Nat /\ Len(t.chains) > 0
      /\ \A i \in 1..Len(t.recent) : t.recent[i] \in 1..Len(t.chains)
      /\ DOMAIN t.chains = 1..Len(t.chains)
  BY DEF Struct, State
<1>1. k \in Nat /\ k > 0
  BY <1>0 DEF Struct
<1>2. u = [[t EXCEPT !.chains = C] EXCEPT !.recent = R, !.rows = r]
  BY <1>0 DEF CountChanged, Resize, ResizeRecent, ValidRows, State
<1> HIDE DEF k
<1>3. \A i \in 1..k : C[i] = IF i <= Len(t.chains) THEN t.chains[i] ELSE <<>>
  BY <1>0, <1>1
<1>4. C \in [1..k -> Seq(Window)]
  BY <1>0, <1>1
<1>5. C \in Seq(Seq(Window)) /\ Len(C) = k
  BY <1>1, <1>4
<1>6. \A i \in 1..k : R[i] \in 1..k
  <2> SUFFICES ASSUME NEW i \in 1..k PROVE R[i] \in 1..k
    OBVIOUS
  <2>1. CASE i <= Len(t.recent)
    <3>1. i \in 1..Len(t.recent)
      BY <1>0, <1>1, <2>1
    <3>2. t.recent[i] \in Nat /\ t.recent[i] > 0
      BY <1>0, <3>1
    <3>3. Min({t.recent[i], k}) = IF t.recent[i] <= k THEN t.recent[i] ELSE k
      BY <1>1, <3>2, MinOfTwo
    <3>4. R[i] = Min({t.recent[i], k})
      BY <2>1
    <3> HIDE DEF R
    <3> QED
      BY <1>1, <3>2, <3>3, <3>4
  <2>2. CASE ~(i <= Len(t.recent))
    BY <1>1, <2>2
  <2> QED
    BY <2>1, <2>2
<1>7. R[1] = IF t.recent[1] <= k THEN t.recent[1] ELSE k
  <2>1. t.recent[1] \in Nat /\ 1 <= Len(t.recent) /\ 1 \in 1..k
    BY <1>0, <1>1
  <2>2. Min({t.recent[1], k}) = IF t.recent[1] <= k THEN t.recent[1] ELSE k
    BY <1>1, <2>1, MinOfTwo
  <2>3. R[1] = Min({t.recent[1], k})
    BY <2>1
  <2> HIDE DEF R
  <2> QED
    BY <2>2, <2>3
<1>8. R \in Seq(Nat) /\ Len(R) = k
  <2>1. R \in [1..k -> Nat]
    BY <1>1, <1>6
  <2> HIDE DEF R
  <2> QED
    BY <1>1, <2>1
<1>9. r \in 1..k
  <2>1. r = IF t.rows <= k THEN t.rows ELSE k
    BY <1>0, <1>1, MinOfTwo
  <2> HIDE DEF r
  <2> QED
    BY <1>0, <1>1, <2>1
<1> HIDE DEF C, R, r, u
<1>10. /\ u \in State /\ u.chains = C /\ u.recent = R /\ u.rows = r
       /\ u.desktops = t.desktops /\ u.current = t.current /\ u.win = t.win
       /\ u.mru = t.mru /\ u.clients = t.clients /\ u.fc_current = t.fc_current
       /\ SameFocus(t, u)
  <2>1. r \in Nat
    BY <1>1, <1>9
  <2> QED
    BY <1>0, <1>2, <1>5, <1>8, <2>1 DEF State, SameFocus
<1>11. \A i \in 1..k : /\ IsInjective(C[i])
                       /\ \A v : Contains(C[i], v)
                            => i \in 1..Len(t.chains) /\ Contains(t.chains[i], v)
  <2> SUFFICES ASSUME NEW i \in 1..k
               PROVE  /\ IsInjective(C[i])
                      /\ \A v : Contains(C[i], v)
                            => i \in 1..Len(t.chains) /\ Contains(t.chains[i], v)
    OBVIOUS
  <2>1. CASE i <= Len(t.chains)
    BY <1>0, <1>1, <1>3, <2>1 DEF Struct
  <2>2. CASE ~(i <= Len(t.chains))
    BY <1>3, <2>2 DEF IsInjective, Contains
  <2> QED
    BY <2>1, <2>2
<1>12. Struct(u)
  BY <1>1, <1>5, <1>6, <1>8, <1>10, <1>11 DEF Struct
<1>13. Windows(u)
  BY <1>5, <1>10, <1>11 DEF Windows, IsShown, WantsFocus, SameFocus
<1>14. ActiveOk(u) /\ Listed(u, None)
  BY <1>10 DEF ActiveOk, Listed, IsShown, WantsFocus, SameFocus
<1>15. Len(u.desktops) <= Len(u.chains) /\ Len(u.chains) = k
  BY <1>1, <1>5, <1>10 DEF k
<1>16. Whole(u)
  BY <1>12, <1>13, <1>14, <1>15 DEF Whole
<1> QED
  BY <1>3, <1>7, <1>9, <1>10, <1>15, <1>16 DEF u, k, SameFocus

-----------------------------------------------------------------------------
(* The invariant of the workspace.                                         *)

\* What holds between two handlers, but for the active window.
Steady(t) ==
  /\ Struct(t) /\ Windows(t) /\ Listed(t, None) /\ Alive(t)
  /\ Len(t.chains) = Len(t.desktops) /\ t.rows \in 1..Len(t.desktops)

\* What holds between two handlers.
Sound(t) == Steady(t) /\ ActiveOk(t)

\* What holds as long as the numbers of the desktops have not shifted.
Matches(t) == CurrentMatches(t) /\ ChainsMatch(t, None)

\* The operation that leads from t to u keeps the workspace sound.
StaysSound(t, u) == Sound(u) /\ (Matches(t) => Matches(u))

\* It stays on the current desktop, too.
StaysHere(t, u) == StaysSound(t, u) /\ u.current = t.current

\* It ends with w active on the current desktop.
Activates(t, u, w) == StaysSound(t, u) /\ u.active = w /\ OnCurrentDesktop(u, w)

\* In particular, what the handlers need.
LEMMA SoundWhole ==
  ASSUME NEW t, Sound(t)
  PROVE  /\ Whole(t) /\ t \in State /\ t.desktops \in Seq(Desktop)
         /\ Len(t.desktops) \in Nat /\ Len(t.desktops) > 0
BY DEF Sound, Steady, Whole, Struct, State

\* Whatever only changes the focus keeps it.
LEMMA SoundRefocused ==
  ASSUME NEW t, Steady(t), NEW u, Refocused(t, u), ActiveOk(u)
  PROVE  StaysSound(t, u)
<1>1. Alive(u)
  BY DEF Steady, Alive, Refocused, Keeps
<1>2. CurrentMatches(t) => CurrentMatches(u)
  BY CurrentMatchesKept DEF Refocused, Keeps
<1> QED
  BY <1>1, <1>2 DEF StaysSound, Sound, Steady, Matches, Refocused, Keeps

\* t with o for the window w.
WithWindow(t, w, o) == [t EXCEPT !.win[w] = o]

\* Only the windows differ.
OtherWindows(t, u) ==
  /\ u \in State
  /\ u.desktops = t.desktops /\ u.current = t.current /\ u.rows = t.rows
  /\ u.recent = t.recent /\ u.clients = t.clients /\ u.fc_current = t.fc_current
  /\ u.mru = t.mru /\ u.chains = t.chains /\ SameFocus(t, u)

\* Nothing but the window changes.
LEMMA WindowSet ==
  ASSUME NEW t, t \in State, NEW w \in Window, NEW o \in Toplevel
  PROVE  LET u == WithWindow(t, w, o)
         IN /\ OtherWindows(t, u) /\ u.win[w] = o
            /\ \A v \in Window : v # w => u.win[v] = t.win[v]
BY DEF WithWindow, OtherWindows, State, SameFocus

\* A new window on the current desktop that has not drawn.
LEMMA CreatedSound ==
  ASSUME NEW t, Sound(t), NEW w \in Window, ~t.win[w].exists,
         NEW o \in Toplevel, o.desks = <<t.current>>, ~o.buffer, ~o.mapped
  PROVE  StaysHere(t, WithWindow(t, w, o))
<1> DEFINE u == WithWindow(t, w, o)
<1>0. t \in State /\ Struct(t) /\ Windows(t) /\ Listed(t, None) /\ Alive(t) /\ ActiveOk(t)
  BY DEF Sound, Steady, Struct
<1>1. /\ OtherWindows(t, u) /\ u.win[w] = o
      /\ \A v \in Window : v # w => u.win[v] = t.win[v]
  BY <1>0, WindowSet
<1> HIDE DEF u
<1>2. IsInjective(o.desks) /\ \A d : Contains(o.desks, d) => d = t.current
  BY DEF IsInjective, Contains
<1>3. Struct(u)
  BY <1>0, <1>1, <1>2 DEF Struct, OtherWindows
<1>4. ~t.win[w].buffer /\ ~t.win[w].mapped /\ ~Contains(t.mru, w) /\ ~Contains(t.clients, w)
      /\ t.last_active # w /\ \A n \in 1..Len(t.chains) : ~Contains(t.chains[n], w)
  BY <1>0 DEF Windows
<1>5. Windows(u)
  BY <1>0, <1>1, <1>4 DEF Windows, OtherWindows, IsShown, WantsFocus, SameFocus
<1>6. ActiveOk(u) /\ Listed(u, None)
  BY <1>0, <1>1, <1>4 DEF ActiveOk, Listed, OtherWindows, IsShown, WantsFocus, SameFocus
<1>7. Alive(u)
  BY <1>0, <1>1, <1>2 DEF Alive, OtherWindows, Struct
<1>8. ChainsMatch(t, None) => ChainsMatch(u, None)
  <2>1. Len(t.desktops) = Len(t.chains)
    BY DEF Sound, Steady
  <2> QED
    BY <1>1, <1>4, <2>1 DEF ChainsMatch, OnDesktop, OnAllDesktops, OtherWindows
<1>9. CurrentMatches(t) => CurrentMatches(u)
  BY <1>1, CurrentMatchesKept DEF OtherWindows
<1> QED
  BY <1>1, <1>3, <1>5, <1>6, <1>7, <1>8, <1>9
     DEF StaysHere, StaysSound, Sound, Steady, Matches, OtherWindows, u

\* A window of other flags on the same desktops.
LEMMA FlagsSet ==
  ASSUME NEW t, Steady(t), NEW w \in Window, NEW o \in Toplevel,
         o.desks = t.win[w].desks, o.exists, o.mapped => o.buffer,
         o.buffer /\ ~o.minimized => o.mapped,
         o.mapped => t.win[w].mapped, t.win[w].exists
  PROVE  LET u == WithWindow(t, w, o)
         IN /\ Steady(u) /\ OtherWindows(t, u) /\ u.win[w] = o
            /\ \A v \in Window : v # w => u.win[v] = t.win[v]
            /\ Matches(t) => Matches(u)
<1> DEFINE u == WithWindow(t, w, o)
<1>0. t \in State /\ Struct(t) /\ Windows(t) /\ Listed(t, None) /\ Alive(t)
  BY DEF Steady, Struct
<1>1. /\ OtherWindows(t, u) /\ u.win[w] = o
      /\ \A v \in Window : v # w => u.win[v] = t.win[v]
  BY <1>0, WindowSet
<1> HIDE DEF u
<1>2. \A v \in Window : u.win[v].desks = t.win[v].desks
  BY <1>1
<1>3. Struct(u)
  BY <1>0, <1>1, <1>2 DEF Struct, OtherWindows
<1>5. Windows(u)
  BY <1>0, <1>1 DEF Windows, OtherWindows, IsShown, WantsFocus, SameFocus
<1>6. Listed(u, None)
  BY <1>0, <1>1 DEF Listed, OtherWindows, WantsFocus
<1>7. Alive(u)
  BY <1>0, <1>1, <1>2 DEF Alive, OtherWindows
<1>8. ChainsMatch(t, None) => ChainsMatch(u, None)
  BY <1>1, <1>2 DEF ChainsMatch, OnDesktop, OnAllDesktops, OtherWindows
<1>9. CurrentMatches(t) => CurrentMatches(u)
  BY <1>1, CurrentMatchesKept DEF OtherWindows
<1> QED
  BY <1>1, <1>3, <1>5, <1>6, <1>7, <1>8, <1>9 DEF Steady, Matches, OtherWindows, u

\* clientHidden restores what is asked of the active window.
LEMMA HiddenSound ==
  ASSUME NEW t, Steady(t), NEW w \in Window, t.active # w => ActiveOk(t)
  PROVE  StaysHere(t, ClientHidden(t, w))
<1>1. Struct(t) /\ Windows(t) /\ Len(t.desktops) <= Len(t.chains)
  BY DEF Steady, Struct, State
<1>2. Refocused(t, ClientHidden(t, w)) /\ ActiveOk(ClientHidden(t, w))
  BY <1>1, HiddenClient
<1> QED
  BY <1>2, SoundRefocused DEF StaysHere, Refocused, Keeps

\* Unmap and Minimize: w is no longer shown.
LEMMA HidingSound ==
  ASSUME NEW t, Sound(t), NEW w \in Window, NEW o \in Toplevel,
         o.desks = t.win[w].desks, o.exists, ~o.buffer \/ o.minimized,
         o.mapped => o.buffer, o.mapped => t.win[w].mapped, t.win[w].exists
  PROVE  StaysHere(t, ClientHidden(WithWindow(t, w, o), w))
<1> DEFINE u == WithWindow(t, w, o)
<1>0. Steady(t) /\ ActiveOk(t)
  BY DEF Sound
<1>1. /\ Steady(u) /\ OtherWindows(t, u) /\ u.win[w] = o
      /\ \A v \in Window : v # w => u.win[v] = t.win[v]
      /\ Matches(t) => Matches(u)
  BY <1>0, FlagsSet
<1> HIDE DEF u
<1>2. u.active # w => ActiveOk(u)
  BY <1>0, <1>1 DEF ActiveOk, OtherWindows, SameFocus, IsShown
<1>3. StaysHere(u, ClientHidden(u, w))
  BY <1>1, <1>2, HiddenSound
<1>4. u.current = t.current
  BY <1>1 DEF OtherWindows
<1> QED
  BY <1>1, <1>3, <1>4 DEF StaysHere, StaysSound, u

\* activateClient of a mapped window.
LEMMA ActivatedSound ==
  ASSUME NEW t, Steady(t), ActiveOk(t), NEW w \in Window, t.win[w].mapped
  PROVE  Activates(t, ActivateClient(t, w), w)
<1> DEFINE u == ActivateClient(t, w)
<1>1. Struct(t) /\ Windows(t) /\ Len(t.desktops) <= Len(t.chains) /\ Alive(t)
      /\ Listed(t, None) /\ Listed(t, w) /\ t.rows \in 1..Len(t.desktops)
      /\ Len(t.chains) = Len(t.desktops)
  <2>1. Listed(t, None) => Listed(t, w)
    BY WorkspaceAssumption DEF Listed
  <2>2. Steady(t) => Len(t.desktops) <= Len(t.chains)
    BY DEF Steady, Struct, State
  <2> QED
    BY <2>1, <2>2 DEF Steady
<1>2. /\ Whole(u) /\ Alive(u)
      /\ u.desktops = t.desktops /\ u.rows = t.rows
      /\ Len(u.chains) = Len(t.chains)
      /\ u.active = w /\ OnCurrentDesktop(u, w)
      /\ ChainsMatch(t, None) => ChainsMatch(u, None)
      /\ CurrentMatches(t) => CurrentMatches(u)
  BY <1>1, Activated
<1> HIDE DEF u
<1> QED
  BY <1>1, <1>2 DEF Activates, StaysSound, Sound, Steady, Whole, Matches, u

-----------------------------------------------------------------------------
(* The operations on windows.                                              *)

\* The inductive invariant: the workspace is sound, and the numbers that the
\* chains and the task switcher use are those of the desktops, unless these have
\* shifted.
Inv ==
  /\ Sound(s) /\ (~shifted => Matches(s))
  /\ shell \in BOOLEAN /\ shifted \in BOOLEAN /\ scenario \in Scenarios

\* A handler that keeps the workspace sound keeps the invariant.
LEMMA StepSound ==
  ASSUME Inv, NEW u, StaysSound(s, u), Step(u)
  PROVE  Inv'
<1>1. s' = u /\ shell' = shell /\ shifted' = shifted /\ scenario' = scenario
  BY DEF Step
<1>2. Sound(s)' = Sound(u) /\ Matches(s)' = Matches(u)
  BY <1>1 DEF Sound, Steady, Matches, Struct, Windows, Listed, Alive, ActiveOk,
              CurrentMatches, ChainsMatch, IsShown, WantsFocus, OnDesktop, OnAllDesktops,
              Number
<1> QED
  BY <1>1, <1>2 DEF StaysSound, Inv

\* The same, when the current desktop stays.
LEMMA StepHere ==
  ASSUME Inv, NEW u, StaysHere(s, u), Step(u)
  PROVE  Inv' /\ s'.current = s.current
<1>1. StaysSound(s, u) /\ u.current = s.current
  BY DEF StaysHere
<1>2. Inv'
  BY <1>1, StepSound
<1> QED
  BY <1>1, <1>2 DEF Step

\* The same, when w is active in the end.
LEMMA StepActivates ==
  ASSUME Inv, NEW u, NEW w, Activates(s, u, w), Step(u)
  PROVE  Inv' /\ s'.active = w /\ OnCurrentDesktop(s', w)
<1>1. StaysSound(s, u) /\ u.active = w /\ OnCurrentDesktop(u, w)
  BY DEF Activates
<1>2. Inv'
  BY <1>1, StepSound
<1> QED
  BY <1>1, <1>2 DEF Step

\* create_toplevel_window
LEMMA CreateKeeps ==
  ASSUME Inv, NEW w \in Window, CreateToplevel(w)
  PROVE  Inv' /\ s'.current = s.current
<1> DEFINE o == [Absent EXCEPT !.exists = TRUE, !.desks = <<s.current>>]
<1>1. s.current \in Desktop /\ s \in State /\ Sound(s)
  BY DEF Inv, Sound, Steady, Struct, State
<1>2. o \in Toplevel /\ o.desks = <<s.current>> /\ ~o.buffer /\ ~o.mapped
  <2> DEFINE q == <<s.current>>
  <2>1. q \in Seq(Desktop)
    BY <1>1
  <2>2. o = [Absent EXCEPT !.exists = TRUE, !.desks = q] /\ q = <<s.current>>
    OBVIOUS
  <2> HIDE DEF q, o
  <2> QED
    BY <2>1, <2>2 DEF Absent, Toplevel
<1>3. Step(WithWindow(s, w, o)) /\ ~s.win[w].exists
  BY DEF CreateToplevel, WithWindow
<1> HIDE DEF o
<1>4. StaysHere(s, WithWindow(s, w, o))
  BY <1>1, <1>2, <1>3, CreatedSound
<1> QED
  BY <1>3, <1>4, StepHere

\* A window that has drawn for the first time, and is added to m_allClients.
LEMMA MappedSound ==
  ASSUME NEW t, Sound(t), NEW w \in Window, NEW o \in Toplevel, NEW c,
         t.win[w].exists, ~t.win[w].mapped,
         o.desks = t.win[w].desks, o.exists, o.buffer, o.mapped,
         c = IF Contains(t.clients, w) THEN t.clients ELSE Append(t.clients, w)
  PROVE  LET u == [t EXCEPT !.win = [t.win EXCEPT ![w] = o], !.clients = c]
         IN Activates(t, ActivateClient(u, w), w)
<1> DEFINE u == [t EXCEPT !.win = [t.win EXCEPT ![w] = o], !.clients = c]
           r == ActivateClient(u, w)
<1>0. /\ t \in State /\ Struct(t) /\ Windows(t) /\ Listed(t, None) /\ Alive(t) /\ ActiveOk(t)
      /\ Len(t.chains) = Len(t.desktops) /\ t.rows \in 1..Len(t.desktops)
  BY DEF Sound, Steady, Struct
<1>1. c \in Seq(Window) /\ IsInjective(c)
      /\ \A v : Contains(c, v) <=> Contains(t.clients, v) \/ v = w
  <2>1. t.clients \in Seq(Window) /\ IsInjective(t.clients)
    BY <1>0 DEF Struct, State
  <2> QED
    BY <2>1, Appended
<1>2. /\ u \in State
      /\ u.desktops = t.desktops /\ u.current = t.current /\ u.rows = t.rows
      /\ u.recent = t.recent /\ u.clients = c /\ u.fc_current = t.fc_current
      /\ u.mru = t.mru /\ u.chains = t.chains /\ SameFocus(t, u) /\ u.win[w] = o
      /\ \A v \in Window : v # w => u.win[v] = t.win[v]
  BY <1>0, <1>1 DEF State, SameFocus
<1> HIDE DEF u
<1>3. \A v \in Window : u.win[v].desks = t.win[v].desks
  BY <1>2
<1>4. Struct(u)
  BY <1>0, <1>1, <1>2, <1>3 DEF Struct
<1>5. Windows(u)
  BY <1>0, <1>1, <1>2 DEF Windows, IsShown, WantsFocus, SameFocus
<1>6. t.active # w
  BY <1>0 DEF ActiveOk, Windows, WantsFocus
<1>7. ActiveOk(u)
  BY <1>0, <1>2, <1>6 DEF ActiveOk, SameFocus, IsShown
<1>8. Listed(u, w)
  BY <1>0, <1>2, WorkspaceAssumption DEF Listed, WantsFocus
<1>9. Alive(u)
  BY <1>0, <1>2, <1>3 DEF Alive
<1>10. ChainsMatch(t, None) => ChainsMatch(u, None)
  BY <1>2, <1>3 DEF ChainsMatch, OnDesktop, OnAllDesktops
<1>11. CurrentMatches(t) => CurrentMatches(u)
  BY <1>2, CurrentMatchesKept
<1>12. Len(u.desktops) <= Len(u.chains) /\ u.active # w /\ u.win[w].mapped
  <2>1. Len(t.desktops) \in Nat
    BY <1>0 DEF State
  <2> QED
    BY <2>1, <1>0, <1>2, <1>6 DEF SameFocus
<1>13. /\ Whole(r) /\ Alive(r)
       /\ r.desktops = u.desktops /\ r.rows = u.rows
       /\ Len(r.chains) = Len(u.chains) /\ r.active = w /\ OnCurrentDesktop(r, w)
       /\ ChainsMatch(u, None) => ChainsMatch(r, None)
       /\ CurrentMatches(u) => CurrentMatches(r)
  BY <1>4, <1>5, <1>7, <1>8, <1>9, <1>12, Activated
<1> HIDE DEF r
<1> QED
  BY <1>0, <1>2, <1>10, <1>11, <1>13 DEF Activates, StaysSound, Sound, Steady, Whole, Matches, r, u

\* handle_commit with a buffer: the window is drawn only, or mapped and activated.
LEMMA CommitKeeps ==
  ASSUME Inv, NEW w \in Window, Commit(w)
  PROVE  /\ Inv'
         /\ s'.current = s.current \/ (s'.active = w /\ OnCurrentDesktop(s', w))
<1> DEFINE drawn == [s EXCEPT !.win[w].buffer = TRUE]
           mapped == [drawn EXCEPT
                        !.win[w].mapped = TRUE,
                        !.clients = IF Contains(@, w) THEN @ ELSE Append(@, w)]
           o == [s.win[w] EXCEPT !.buffer = TRUE]
           m == [s.win[w] EXCEPT !.buffer = TRUE, !.mapped = TRUE]
           c == IF Contains(s.clients, w) THEN s.clients ELSE Append(s.clients, w)
           W == [s.win EXCEPT ![w] = m]
           u == [s EXCEPT !.win = W, !.clients = c]
<1>1. s \in State /\ Sound(s) /\ s.win \in [Window -> Toplevel] /\ s.win[w] \in Toplevel
      /\ Windows(s) /\ Steady(s) /\ ActiveOk(s)
  BY DEF Inv, Sound, Steady, Struct, State
<1>2. /\ s.win[w].exists /\ ~s.win[w].mapped
      /\ Step(IF IsShown(drawn, w) THEN ActivateClient(mapped, w) ELSE drawn)
  BY DEF Commit
<1>3. /\ o \in Toplevel /\ o.exists = s.win[w].exists /\ o.buffer
      /\ o.mapped = s.win[w].mapped /\ o.minimized = s.win[w].minimized
      /\ o.desks = s.win[w].desks
  BY <1>1 DEF Toplevel
<1>4. /\ m \in Toplevel /\ m.exists = s.win[w].exists /\ m.buffer /\ m.mapped
      /\ m.desks = s.win[w].desks
  BY <1>1 DEF Toplevel
<1>5. drawn = WithWindow(s, w, o)
  BY <1>1 DEF WithWindow, State
<1>6. mapped = u
  BY <1>1 DEF State, Toplevel
<1> HIDE DEF o, m, drawn, mapped, c
<1>7. CASE IsShown(drawn, w)
  <2>1. Activates(s, ActivateClient(u, w), w)
    BY <1>1, <1>2, <1>4, MappedSound DEF c
  <2> QED
    BY <1>2, <1>6, <1>7, <2>1, StepActivates
<1>8. CASE ~IsShown(drawn, w)
  <2>1. drawn.win[w] = o
    BY <1>1, <1>3, <1>5, WindowSet
  <2>2. o.minimized
    BY <1>3, <1>8, <2>1 DEF IsShown
  <2>3. /\ Steady(drawn) /\ OtherWindows(s, drawn)
        /\ \A v \in Window : v # w => drawn.win[v] = s.win[v]
        /\ Matches(s) => Matches(drawn)
    <3> DEFINE d == WithWindow(s, w, o)
    <3>2. /\ o.desks = s.win[w].desks /\ o.exists /\ (o.mapped => o.buffer)
          /\ (o.buffer /\ ~o.minimized => o.mapped)
          /\ (o.mapped => s.win[w].mapped) /\ s.win[w].exists
      BY <1>2, <1>3, <2>2
    <3>3. /\ Steady(d) /\ OtherWindows(s, d) /\ d.win[w] = o
          /\ \A v \in Window : v # w => d.win[v] = s.win[v]
          /\ Matches(s) => Matches(d)
      BY <1>1, <1>3, <3>2, FlagsSet
    <3> HIDE DEF d
    <3> QED
      BY <1>5, <3>3 DEF d
  <2>4. s.active # w
    BY <1>1, <1>2 DEF ActiveOk, Windows, WantsFocus
  <2>5. ActiveOk(drawn)
    BY <1>1, <2>3, <2>4 DEF ActiveOk, OtherWindows, SameFocus, IsShown
  <2>6. StaysHere(s, drawn)
    BY <2>3, <2>5 DEF StaysHere, StaysSound, Sound, OtherWindows
  <2> QED
    BY <1>2, <1>8, <2>6, StepHere
<1> QED
  BY <1>7, <1>8

\* handle_commit without a buffer.
LEMMA UnmapKeeps ==
  ASSUME Inv, NEW w \in Window, Unmap(w)
  PROVE  Inv' /\ s'.current = s.current
<1> DEFINE o == [s.win[w] EXCEPT !.buffer = FALSE, !.mapped = FALSE]
<1>1. s \in State /\ Sound(s) /\ s.win[w] \in Toplevel /\ Windows(s)
  BY DEF Inv, Sound, Steady, Struct, State
<1>2. s.win[w].exists
  BY <1>1 DEF Unmap, Windows
<1>3. /\ o \in Toplevel /\ o.exists = s.win[w].exists /\ ~o.buffer /\ ~o.mapped
      /\ o.desks = s.win[w].desks
  BY <1>1 DEF Toplevel
<1>4. [s EXCEPT !.win[w].buffer = FALSE, !.win[w].mapped = FALSE] = WithWindow(s, w, o)
  BY <1>1 DEF WithWindow, State, Toplevel
<1>5. Step(ClientHidden(WithWindow(s, w, o), w))
  BY <1>4 DEF Unmap
<1> HIDE DEF o
<1>6. StaysHere(s, ClientHidden(WithWindow(s, w, o), w))
  BY <1>1, <1>2, <1>3, HidingSound
<1> QED
  BY <1>5, <1>6, StepHere

\* set_minimized(true)
LEMMA MinimizeKeeps ==
  ASSUME Inv, NEW w \in Window, Minimize(w)
  PROVE  Inv' /\ s'.current = s.current
<1> DEFINE o == [s.win[w] EXCEPT !.minimized = TRUE]
<1>1. s \in State /\ Sound(s) /\ s.win[w] \in Toplevel /\ Windows(s)
  BY DEF Inv, Sound, Steady, Struct, State
<1>2. s.win[w].exists /\ s.win[w].mapped /\ s.win[w].buffer
  BY <1>1 DEF Minimize, Windows
<1>3. /\ o \in Toplevel /\ o.exists = s.win[w].exists /\ o.buffer = s.win[w].buffer
      /\ o.mapped = s.win[w].mapped /\ o.minimized
      /\ o.desks = s.win[w].desks
  BY <1>1 DEF Toplevel
<1>4. [s EXCEPT !.win[w].minimized = TRUE] = WithWindow(s, w, o)
  BY <1>1 DEF WithWindow, State, Toplevel
<1>5. Step(ClientHidden(WithWindow(s, w, o), w))
  BY <1>4 DEF Minimize
<1> HIDE DEF o
<1>6. StaysHere(s, ClientHidden(WithWindow(s, w, o), w))
  BY <1>1, <1>2, <1>3, HidingSound
<1> QED
  BY <1>5, <1>6, StepHere

\* set_minimized(false)
LEMMA UnminimizeKeeps ==
  ASSUME Inv, NEW w \in Window, Unminimize(w)
  PROVE  Inv' /\ s'.active = w /\ OnCurrentDesktop(s', w)
<1> DEFINE u == Restored(s, w)
<1>1. Sound(s) /\ Struct(s) /\ Windows(s) /\ ActiveOk(s) /\ s.win[w].mapped /\ Steady(s)
  BY DEF Inv, Sound, Steady, Unminimize
<1>2. /\ Struct(u) /\ Windows(u) /\ ActiveOk(u)
      /\ u.desktops = s.desktops /\ u.current = s.current /\ u.rows = s.rows
      /\ u.recent = s.recent
      /\ u.fc_current = s.fc_current /\ u.chains = s.chains
      /\ u.win[w].mapped
      /\ \A v \in Window : u.win[v].desks = s.win[v].desks
      /\ \A x : Listed(s, x) => Listed(u, x)
      /\ \A x : ChainsMatch(s, x) => ChainsMatch(u, x)
  BY <1>1, Unminimized
<1>3. Step(ActivateClient(u, w))
  BY DEF Unminimize, Restored
<1> HIDE DEF u
<1>4. Steady(u) /\ (Matches(s) => Matches(u))
  BY <1>1, <1>2, CurrentMatchesKept DEF Steady, Alive, Matches
<1>5. Activates(u, ActivateClient(u, w), w)
  BY <1>2, <1>4, ActivatedSound
<1>6. Activates(s, ActivateClient(u, w), w)
  BY <1>4, <1>5 DEF Activates, StaysSound
<1> QED
  BY <1>3, <1>6, StepActivates

\* FocusChain::remove takes w from all chains, and no other window.
LEMMA RemovedFromChains ==
  ASSUME NEW t, Struct(t), NEW w \in Window
  PROVE  LET u == RemoveFromChains(t, w)
         IN /\ Keeps(t, u) /\ SameFocus(t, u) /\ Struct(u)
            /\ \A v : Contains(u.mru, v) <=> Contains(t.mru, v) /\ v # w
            /\ \A n \in 1..Len(t.chains) : \A v :
                 Contains(u.chains[n], v) <=> Contains(t.chains[n], v) /\ v # w
<1> DEFINE u == RemoveFromChains(t, w)
           M == RemoveFirst(t.mru, w)
           C == [n \in DOMAIN t.chains |-> RemoveFirst(t.chains[n], w)]
<1>0. /\ t \in State /\ t.chains \in Seq(Seq(Window)) /\ t.mru \in Seq(Window)
      /\ DOMAIN t.chains = 1..Len(t.chains) /\ Len(t.chains) \in Nat
      /\ IsInjective(t.mru)
      /\ \A n \in 1..Len(t.chains) : t.chains[n] \in Seq(Window) /\ IsInjective(t.chains[n])
  BY DEF Struct, State
<1>1. u = [t EXCEPT !.chains = C, !.mru = M]
  BY <1>0 DEF RemoveFromChains, RemoveAll, State
<1>2. M \in Seq(Window) /\ IsInjective(M) /\ \A v : Contains(M, v) <=> Contains(t.mru, v) /\ v # w
  BY <1>0, Removed
<1>3. ASSUME NEW n \in 1..Len(t.chains)
      PROVE  /\ C[n] \in Seq(Window) /\ IsInjective(C[n])
             /\ \A v : Contains(C[n], v) <=> Contains(t.chains[n], v) /\ v # w
  <2>1. C[n] = RemoveFirst(t.chains[n], w)
    BY <1>0
  <2> HIDE DEF C
  <2> QED
    BY <1>0, <2>1, Removed
<1>4. C \in [1..Len(t.chains) -> Seq(Window)]
  BY <1>0, <1>3
<1> HIDE DEF C, M, u
<1>5. C \in Seq(Seq(Window)) /\ Len(C) = Len(t.chains)
  <2> DEFINE k == Len(t.chains)
  <2>1. k \in Nat /\ C \in [1..k -> Seq(Window)]
    BY <1>0, <1>4
  <2> HIDE DEF k
  <2>2. C \in Seq(Seq(Window)) /\ Len(C) = k
    BY <2>1
  <2> QED
    BY <2>2 DEF k
<1>6. /\ Keeps(t, u) /\ SameFocus(t, u) /\ u.mru = M /\ u.chains = C
  BY <1>0, <1>1, <1>2, <1>5 DEF State, Keeps, SameFocus
<1>7. Struct(u)
  BY <1>2, <1>3, <1>5, <1>6 DEF Struct, Keeps
<1> QED
  BY <1>2, <1>3, <1>6, <1>7 DEF u

\* window_removed: the focus goes on, the lists drop the window, and it is deleted.
LEMMA ForgottenSound ==
  ASSUME NEW t, Sound(t), NEW w \in Window, Absent \in Toplevel, Closed \in Toplevel,
         t.win[w].exists
  PROVE  LET c == RemoveFirst(t.clients, w)
             l == IF t.last_active = w THEN None ELSE t.last_active
             e == [t EXCEPT !.win = [t.win EXCEPT ![w] = Closed],
                            !.clients = c, !.last_active = l]
         IN StaysHere(t, WithWindow(RemoveFromChains(ClientHidden(e, w), w), w, Absent))
<1> DEFINE c == RemoveFirst(t.clients, w)
           l == IF t.last_active = w THEN None ELSE t.last_active
           e == [t EXCEPT !.win = [t.win EXCEPT ![w] = Closed],
                          !.clients = c, !.last_active = l]
           h == ClientHidden(e, w)
           r == RemoveFromChains(h, w)
           u == WithWindow(r, w, Absent)
<1>0. /\ t \in State /\ Struct(t) /\ Windows(t) /\ Listed(t, None) /\ Alive(t) /\ ActiveOk(t)
      /\ Len(t.chains) = Len(t.desktops) /\ t.rows \in 1..Len(t.desktops)
      /\ t.last_active \in Focusable
  BY DEF Sound, Steady, Struct, State
<1>a. /\ Closed.exists /\ ~Closed.buffer /\ ~Closed.mapped /\ Closed.desks = <<>>
      /\ ~Absent.exists /\ ~Absent.buffer /\ ~Absent.mapped /\ Absent.desks = <<>>
  BY DEF Closed, Absent
<1>b. IsInjective(<<>>) /\ \A v : ~Contains(<<>>, v)
  BY DEF IsInjective, Contains
<1>1. c \in Seq(Window) /\ IsInjective(c)
      /\ \A v : Contains(c, v) <=> Contains(t.clients, v) /\ v # w
  <2>1. t.clients \in Seq(Window) /\ IsInjective(t.clients)
    BY <1>0 DEF Struct, State
  <2> QED
    BY <2>1, Removed
<1>2. l \in Focusable /\ l # w /\ (l \in Window => l = t.last_active)
  BY <1>0, WorkspaceAssumption DEF Focusable
<1> HIDE DEF c, l
<1>3. /\ e \in State
      /\ e.desktops = t.desktops /\ e.current = t.current /\ e.rows = t.rows
      /\ e.recent = t.recent /\ e.clients = c /\ e.fc_current = t.fc_current
      /\ e.mru = t.mru /\ e.chains = t.chains /\ e.active = t.active
      /\ e.fc_active = t.fc_active /\ e.last_active = l /\ e.win[w] = Closed
      /\ \A v \in Window : v # w => e.win[v] = t.win[v]
  BY <1>0, <1>1, <1>2 DEF State
<1> HIDE DEF e
<1>4. Struct(e)
  BY <1>0, <1>1, <1>3, <1>a, <1>b DEF Struct
<1>5. Windows(e)
  BY <1>0, <1>1, <1>2, <1>3, <1>a DEF Windows, IsShown, WantsFocus
<1>6. e.active # w => ActiveOk(e)
  BY <1>0, <1>3 DEF ActiveOk, IsShown
<1>7. Listed(e, None)
  BY <1>0, <1>3, <1>a DEF Listed, WantsFocus
<1>8. Alive(e)
  BY <1>0, <1>3, <1>a, <1>b DEF Alive
<1>10. Steady(e)
  BY <1>0, <1>3, <1>4, <1>5, <1>7, <1>8 DEF Steady
<1>11. Struct(e) /\ Windows(e) /\ Len(e.desktops) <= Len(e.chains)
  BY <1>0, <1>3, <1>4, <1>5 DEF State
<1>12. Refocused(e, h) /\ ActiveOk(h)
  BY <1>6, <1>11, HiddenClient
<1>13. Sound(h) /\ (CurrentMatches(e) => CurrentMatches(h))
  BY <1>10, <1>12, SoundRefocused, CurrentMatchesKept DEF StaysSound, Refocused, Keeps
<1> HIDE DEF h
<1>14. /\ Keeps(h, r) /\ SameFocus(h, r) /\ Struct(r)
       /\ \A v : Contains(r.mru, v) <=> Contains(h.mru, v) /\ v # w
       /\ \A n \in 1..Len(h.chains) : \A v :
            Contains(r.chains[n], v) <=> Contains(h.chains[n], v) /\ v # w
  <2>1. Struct(h)
    BY <1>12 DEF Refocused
  <2> QED
    BY <2>1, RemovedFromChains
<1> HIDE DEF r
<1>15. /\ OtherWindows(r, u) /\ u.win[w] = Absent
       /\ \A v \in Window : v # w => u.win[v] = r.win[v]
  <2>1. r \in State
    BY <1>14 DEF Keeps
  <2> QED
    BY <2>1, WindowSet
<1> HIDE DEF u
<1>16. /\ h.win[w] = Closed /\ h.clients = c
       /\ u.desktops = h.desktops /\ u.current = h.current /\ u.rows = h.rows
       /\ u.recent = h.recent /\ u.clients = h.clients /\ u.fc_current = h.fc_current
       /\ u.mru = r.mru /\ u.chains = r.chains /\ SameFocus(h, u)
       /\ Len(u.chains) = Len(h.chains) /\ u \in State
       /\ \A v \in Window : v # w => u.win[v] = h.win[v]
  BY <1>3, <1>12, <1>14, <1>15 DEF Keeps, Refocused, OtherWindows, SameFocus
<1>17. h.active # w /\ h.last_active # w
  BY <1>1, <1>12, <1>16, <1>a DEF ActiveOk, IsShown, Refocused, Windows
<1>h. /\ Struct(h) /\ Windows(h) /\ Listed(h, None) /\ Alive(h) /\ ActiveOk(h)
      /\ Len(h.chains) = Len(h.desktops) /\ h.rows \in 1..Len(h.desktops)
  BY <1>13 DEF Sound, Steady
<1>18. Struct(u)
  BY <1>14, <1>15, <1>16, <1>a, <1>b DEF Struct, OtherWindows, Keeps
<1>19. Windows(u)
  <2>1. ASSUME NEW v \in Window, v # w
        PROVE  /\ u.win[v] = h.win[v]
               /\ Contains(u.mru, v) <=> Contains(h.mru, v)
               /\ Contains(u.clients, v) <=> Contains(h.clients, v)
               /\ \A n \in 1..Len(u.chains) : Contains(u.chains[n], v) => Contains(h.chains[n], v)
    BY <1>14, <1>16, <2>1
  <2>2. /\ ~Contains(u.mru, w) /\ ~Contains(u.clients, w)
        /\ \A n \in 1..Len(u.chains) : ~Contains(u.chains[n], w)
    BY <1>1, <1>14, <1>16
  <2>3. u.last_active = h.last_active /\ u.last_active # w /\ u.active = h.active
    BY <1>16, <1>17 DEF SameFocus
  <2>4. u.win[w] = Absent
    BY <1>15
  <2> QED
    BY <1>h, <1>16, <1>a, <2>1, <2>2, <2>3, <2>4 DEF Windows, IsShown, WantsFocus
<1>20. ActiveOk(u) /\ Listed(u, None)
  BY <1>h, <1>14, <1>15, <1>16, <1>17, <1>a DEF ActiveOk, Listed, IsShown, WantsFocus, SameFocus
<1>21. Alive(u)
  BY <1>h, <1>15, <1>16, <1>a, <1>b DEF Alive
<1>22. CurrentMatches(t) => CurrentMatches(u)
  <2>1. CurrentMatches(t) => CurrentMatches(e)
    BY <1>3, CurrentMatchesKept
  <2>2. CurrentMatches(h) => CurrentMatches(u)
    BY <1>16, CurrentMatchesKept
  <2> QED
    BY <1>13, <2>1, <2>2
<1>23. ChainsMatch(t, None) => ChainsMatch(u, None)
  <2>1. ChainsMatch(t, None) => ChainsMatch(e, w)
    BY <1>3, WorkspaceAssumption DEF ChainsMatch, OnDesktop, OnAllDesktops
  <2>2. ChainsMatch(e, w) => ChainsMatch(h, w)
    BY <1>12 DEF Refocused
  <2>3. ASSUME ChainsMatch(h, w) PROVE ChainsMatch(u, None)
    <3> SUFFICES ASSUME NEW n \in 1..Len(u.desktops), NEW v \in Window
                 PROVE  /\ Contains(u.chains[n], v) => OnDesktop(u, v, n)
                        /\ Contains(u.mru, v) /\ OnDesktop(u, v, n) /\ ~OnAllDesktops(u, v)
                             => Contains(u.chains[n], v)
      BY DEF ChainsMatch
    <3>1. n \in 1..Len(h.desktops) /\ n \in 1..Len(h.chains)
      BY <1>h, <1>16
    <3>2. /\ Contains(u.chains[n], v) <=> Contains(h.chains[n], v) /\ v # w
          /\ Contains(u.mru, v) <=> Contains(h.mru, v) /\ v # w
      BY <1>14, <1>16, <3>1
    <3>3. v # w => /\ OnDesktop(u, v, n) <=> OnDesktop(h, v, n)
                   /\ OnAllDesktops(u, v) <=> OnAllDesktops(h, v)
      BY <1>16 DEF OnDesktop, OnAllDesktops
    <3> QED
      BY <2>3, <3>1, <3>2, <3>3 DEF ChainsMatch
  <2> QED
    BY <2>1, <2>2, <2>3
<1>24. u.current = t.current
  BY <1>3, <1>12, <1>16 DEF Refocused, Keeps
<1> QED
  BY <1>h, <1>16, <1>18, <1>19, <1>20, <1>21, <1>22, <1>23, <1>24
     DEF StaysHere, StaysSound, Sound, Steady, Matches, u, r, h, e, c, l

\* destroy and the handler of window_removed.
LEMMA DestroyKeeps ==
  ASSUME Inv, NEW w \in Window, Destroy(w)
  PROVE  Inv' /\ s'.current = s.current
<1> DEFINE c == RemoveFirst(s.clients, w)
           l == IF s.last_active = w THEN None ELSE s.last_active
           e == [s EXCEPT !.win = [s.win EXCEPT ![w] = Closed],
                          !.clients = c, !.last_active = l]
           e1 == [s EXCEPT !.win[w] = Closed, !.clients = RemoveAll(@, w),
                           !.last_active = IF @ = w THEN None ELSE @]
           u == WithWindow(RemoveFromChains(ClientHidden(e, w), w), w, Absent)
<1>1. s \in State /\ Sound(s)
  BY DEF Inv, Sound, Steady, Struct
<1>2. Absent \in Toplevel /\ Closed \in Toplevel
  <2>1. <<>> \in Seq(Desktop)
    OBVIOUS
  <2>2. Absent \in Toplevel
    BY <2>1 DEF Absent, Toplevel
  <2> QED
    BY <2>2 DEF Closed, Toplevel
<1>3. e1 = e
  BY <1>1 DEF State, RemoveAll
<1>4. s.win[w].exists /\ Step(WithWindow(RemoveFromChains(ClientHidden(e1, w), w), w, Absent))
  BY DEF Destroy, WithWindow
<1> HIDE DEF e1
<1>5. StaysHere(s, u)
  BY <1>1, <1>2, <1>4, ForgottenSound
<1> HIDE DEF e
<1>6. Step(u)
  BY <1>3, <1>4
<1> QED
  BY <1>5, <1>6, StepHere

\* A click.
LEMMA ClickKeeps ==
  ASSUME Inv, NEW w \in Window, Click(w)
  PROVE  Inv' /\ s'.current = s.current
<1>1. /\ Struct(s) /\ Windows(s) /\ ActiveOk(s) /\ Len(s.desktops) <= Len(s.chains)
      /\ Steady(s)
  BY SoundWhole DEF Inv, Whole, Sound
<1>2. Refocused(s, RequestFocus(s, w, FALSE)) /\ ActiveOk(RequestFocus(s, w, FALSE))
  BY <1>1, FocusRequested
<1>3. StaysHere(s, RequestFocus(s, w, FALSE))
  BY <1>1, <1>2, SoundRefocused DEF StaysHere, Refocused, Keeps
<1> QED
  BY <1>3, StepHere DEF Click

\* activateClient from the task bar.
LEMMA ActivateKeeps ==
  ASSUME Inv, NEW w \in Window, Activate(w)
  PROVE  Inv' /\ s'.active = w /\ OnCurrentDesktop(s', w)
<1>1. Steady(s) /\ ActiveOk(s) /\ s.win[w].mapped /\ Step(ActivateClient(s, w))
  BY DEF Inv, Sound, Activate
<1>2. Activates(s, ActivateClient(s, w), w)
  BY <1>1, ActivatedSound
<1> QED
  BY <1>1, <1>2, StepActivates

\* A window is put on desktops that there are.
LEMMA RehousedSound ==
  ASSUME NEW t, Sound(t), NEW u, NEW w \in Window, Rehoused(t, u, w), Whole(u),
         ChainsMatch(t, None) => ChainsMatch(u, None),
         \A d : Contains(u.win[w].desks, d) => Contains(t.desktops, d)
  PROVE  StaysHere(t, u)
<1>1. Alive(u)
  BY DEF Sound, Steady, Alive, Rehoused
<1>2. CurrentMatches(t) => CurrentMatches(u)
  BY CurrentMatchesKept DEF Rehoused
<1> QED
  BY <1>1, <1>2 DEF StaysHere, StaysSound, Sound, Steady, Matches, Rehoused, Whole

\* The desktop of number n is one of the desktops.
LEMMA OneDesktop ==
  ASSUME NEW t \in State, NEW n \in 1..Len(t.desktops), NEW d,
         Contains(<<t.desktops[n]>>, d)
  PROVE  Contains(t.desktops, d)
<1>1. d = t.desktops[n]
  BY DEF Contains
<1>2. t.desktops \in Seq(Desktop)
  BY DEF State
<1> QED
  BY <1>1, <1>2 DEF Contains

\* slotSendToDesktop
LEMMA SendToDesktopKeeps ==
  ASSUME Inv, NEW w \in Window, NEW n \in 1..Len(s.desktops), SendToDesktop(w, n)
  PROVE  Inv' /\ s'.current = s.current
<1> DEFINE u == SendClientToDesktop(s, w, n, FALSE)
<1>1. Sound(s) /\ Whole(s) /\ s \in State
  BY SoundWhole DEF Inv
<1>2. /\ Rehoused(s, u, w) /\ Whole(u)
      /\ ChainsMatch(s, None) => ChainsMatch(u, None)
      /\ u.win[w].desks = <<s.desktops[n]>>
  BY <1>1, SentToDesktop
<1>3. Step(u)
  BY DEF SendToDesktop
<1> HIDE DEF u
<1>4. \A d : Contains(u.win[w].desks, d) => Contains(s.desktops, d)
  BY <1>1, <1>2, OneDesktop
<1>5. StaysHere(s, u)
  BY <1>1, <1>2, <1>4, RehousedSound
<1> QED
  BY <1>3, <1>5, StepHere

\* On all desktops, or only on the current one.
LEMMA ToggleOnAllDesktopsKeeps ==
  ASSUME Inv, NEW w \in Window, ToggleOnAllDesktops(w)
  PROVE  Inv' /\ s'.current = s.current
<1> DEFINE n == IF OnAllDesktops(s, w) THEN Number(s, s.current) ELSE 0
           u == SetDesktop(s, w, n)
<1>1. Sound(s) /\ Whole(s) /\ s \in State /\ Contains(s.desktops, s.current)
      /\ Len(s.desktops) \in Nat
  BY SoundWhole DEF Inv, Sound, Steady, Struct
<1>2. Number(s, s.current) \in 1..Len(s.desktops)
  BY <1>1, NumberOf
<1>3. n \in 0..Len(s.desktops)
  BY <1>1, <1>2
<1>4. Step(u)
  BY DEF ToggleOnAllDesktops
<1> HIDE DEF n
<1>5. /\ Rehoused(s, u, w) /\ Whole(u)
      /\ ChainsMatch(s, None) => ChainsMatch(u, None)
      /\ u.win[w].desks = IF n = 0 THEN <<>> ELSE <<s.desktops[n]>>
  BY <1>1, <1>3, DesktopSet
<1> HIDE DEF u
<1>6. \A d : Contains(u.win[w].desks, d) => Contains(s.desktops, d)
  <2>1. CASE n = 0
    BY <1>5, <2>1 DEF Contains
  <2>2. CASE n # 0
    <3>1. n \in 1..Len(s.desktops)
      BY <1>1, <1>3, <2>2
    <3> QED
      BY <1>1, <1>5, <2>2, <3>1, OneDesktop
  <2> QED
    BY <2>1, <2>2
<1>7. StaysHere(s, u)
  BY <1>1, <1>5, <1>6, RehousedSound
<1> QED
  BY <1>4, <1>7, StepHere

\* slotToggleOnVirtualDesktop
LEMMA ToggleOnDesktopKeeps ==
  ASSUME Inv, NEW w \in Window, NEW n \in 1..Len(s.desktops),
         ToggleOnDesktop(w, s.desktops[n])
  PROVE  Inv' /\ s'.current = s.current
<1> DEFINE d == s.desktops[n]
           desks == s.win[w].desks
<1>1. Sound(s) /\ Whole(s) /\ s \in State /\ s.desktops \in Seq(Desktop)
      /\ s.win[w] \in Toplevel /\ Alive(s)
  BY SoundWhole DEF Inv, Sound, Steady, State
<1>2. d \in Desktop /\ Contains(s.desktops, d) /\ desks \in Seq(Desktop) /\ IsInjective(desks)
  BY <1>1 DEF Contains, Toplevel, Whole, Struct
<1>3. CASE Contains(desks, d)
  <2> DEFINE u == LeaveDesktop(s, w, d)
  <2>1. /\ Rehoused(s, u, w) /\ Whole(u)
        /\ ChainsMatch(s, None) => ChainsMatch(u, None)
        /\ \A e : Contains(u.win[w].desks, e)
             => Contains(IF OnAllDesktops(s, w) THEN s.desktops ELSE s.win[w].desks, e)
    BY <1>1, DesktopLeft
  <2>2. Step(u)
    BY <1>3 DEF ToggleOnDesktop
  <2> HIDE DEF u
  <2>3. \A e : Contains(u.win[w].desks, e) => Contains(s.desktops, e)
    BY <1>1, <2>1 DEF Alive
  <2>4. StaysHere(s, u)
    BY <1>1, <2>1, <2>3, RehousedSound
  <2> QED
    BY <2>2, <2>4, StepHere
<1>4. CASE ~Contains(desks, d)
  <2> DEFINE more == Append(desks, d)
             u == SetDesktops(s, w, more)
  <2>1. /\ more \in Seq(Desktop) /\ IsInjective(more)
        /\ \A v : Contains(more, v) <=> Contains(desks, v) \/ v = d
    BY <1>2, <1>4, Appended
  <2>2. Step(u)
    BY <1>4 DEF ToggleOnDesktop
  <2> HIDE DEF more, d
  <2>3. /\ Rehoused(s, u, w) /\ Whole(u)
        /\ ChainsMatch(s, None) => ChainsMatch(u, None)
        /\ u.win[w].desks = more
    BY <1>1, <2>1, DesktopsSet
  <2> HIDE DEF u
  <2>4. \A e : Contains(u.win[w].desks, e) => Contains(s.desktops, e)
    BY <1>1, <1>2, <2>1, <2>3 DEF Alive
  <2>5. StaysHere(s, u)
    BY <1>1, <2>3, <2>4, RehousedSound
  <2> QED
    BY <2>2, <2>5, StepHere
<1> QED
  BY <1>3, <1>4

\* setCurrent to any of the desktops.
LEMMA SwitchSound ==
  ASSUME NEW t, Sound(t), NEW d, Contains(t.desktops, d)
  PROVE  StaysSound(t, SetCurrent(t, d, FALSE, None))
<1> DEFINE u == SetCurrent(t, d, FALSE, None)
<1>1. Struct(t) /\ Windows(t) /\ ActiveOk(t) /\ Len(t.desktops) <= Len(t.chains)
  BY SoundWhole DEF Whole
<1>2. CASE d = t.current
  BY <1>2 DEF SetCurrent, StaysSound
<1>3. CASE d # t.current
  <2>1. ASSUME NEW b \in BOOLEAN PROVE Arrived(t, SetCurrent(t, d, b, None), d)
    BY <1>1, <1>3, SwitchedTo
  <2>2. Arrived(t, u, d)
    BY <2>1
  <2> HIDE DEF u
  <2>3. Alive(u)
    BY <2>2 DEF Arrived, Sound, Steady, Alive
  <2>4. StaysSound(t, u)
    BY <2>2, <2>3 DEF Arrived, StaysSound, Sound, Steady, Matches
  <2> QED
    BY <2>4 DEF u
<1> QED
  BY <1>2, <1>3

\* A switch to a desktop.
LEMMA SwitchToKeeps ==
  ASSUME Inv, NEW n \in 1..Len(s.desktops), SwitchTo(s.desktops[n])
  PROVE  Inv'
<1>1. Sound(s) /\ Contains(s.desktops, s.desktops[n])
  BY SoundWhole DEF Inv, Contains
<1>2. StaysSound(s, SetCurrent(s, s.desktops[n], FALSE, None))
  BY <1>1, SwitchSound
<1> QED
  BY <1>2, StepSound DEF SwitchTo

\* setRows
LEMMA SetRowsKeeps ==
  ASSUME Inv, NEW rows, SetRows(rows)
  PROVE  Inv' /\ s'.current = s.current
<1> DEFINE u == [s EXCEPT !.rows = rows]
<1>1. Sound(s) /\ s \in State /\ Len(s.desktops) \in Nat /\ rows \in 1..Len(s.desktops)
  BY SoundWhole DEF Inv, SetRows
<1>2. /\ u \in State
      /\ u.desktops = s.desktops /\ u.current = s.current /\ u.rows = rows
      /\ u.recent = s.recent /\ u.clients = s.clients /\ u.fc_current = s.fc_current
      /\ u.mru = s.mru /\ u.chains = s.chains /\ u.win = s.win /\ SameFocus(s, u)
  <2>1. rows \in Nat
    BY <1>1
  <2> QED
    BY <1>1, <2>1 DEF State, SameFocus
<1>3. Step(u)
  BY DEF SetRows
<1> HIDE DEF u
<1>4. Struct(u) /\ Windows(u)
  BY <1>1, <1>2 DEF Sound, Steady, Struct, Windows, IsShown, WantsFocus, SameFocus
<1>5. Listed(u, None) /\ Alive(u) /\ ActiveOk(u)
  BY <1>1, <1>2 DEF Sound, Steady, Listed, Alive, ActiveOk, IsShown, WantsFocus, SameFocus
<1>6. CurrentMatches(s) => CurrentMatches(u)
  BY <1>2, CurrentMatchesKept
<1>7. ChainsMatch(s, None) => ChainsMatch(u, None)
  BY <1>2 DEF ChainsMatch, OnDesktop, OnAllDesktops
<1>8. StaysHere(s, u)
  BY <1>1, <1>2, <1>4, <1>5, <1>6, <1>7 DEF StaysHere, StaysSound, Sound, Steady, Matches
<1> QED
  BY <1>3, <1>8, StepHere

\* windowToDesktop: the active window is taken along.
LEMMA TakenAlong ==
  ASSUME NEW t, Sound(t), NEW d, Contains(t.desktops, d), t.active \in Window
  PROVE  LET u == SetCurrent(t, d, TRUE, t.active)
         IN /\ StaysSound(t, u) /\ u.desktops = t.desktops
            /\ (d # t.current /\ ChainsMatch(t, None))
                 => /\ u.active \in Window => OnCurrentDesktop(u, u.active)
                    /\ ~OnAllDesktops(t, t.active) => u.active \in Window
<1> DEFINE w == t.active
           u == SetCurrent(t, d, TRUE, w)
           e == [t EXCEPT !.current = d]
<1>0. /\ Struct(t) /\ Windows(t) /\ ActiveOk(t) /\ Listed(t, None) /\ Alive(t)
      /\ Len(t.desktops) <= Len(t.chains)
  BY SoundWhole DEF Whole, Sound, Steady
<1>1. CASE d = t.current
  BY <1>1 DEF SetCurrent, StaysSound
<1>2. CASE d # t.current
  <2>1. u = CurrentChanged(e, TRUE, w)
    BY <1>2 DEF SetCurrent
  <2>2. /\ e \in State /\ Struct(e) /\ Windows(e) /\ ActiveOk(e) /\ SameFocus(t, e)
        /\ e.desktops = t.desktops /\ e.current = d /\ e.rows = t.rows
        /\ e.clients = t.clients /\ e.chains = t.chains /\ e.mru = t.mru
        /\ e.win = t.win /\ e.recent = t.recent
        /\ \A x : Listed(t, x) <=> Listed(e, x)
        /\ \A x : ChainsMatch(t, x) <=> ChainsMatch(e, x)
    <3>1. Struct(t) /\ Windows(t) /\ ActiveOk(t)
      BY <1>0
    <3> QED
      BY ONLY <3>1, Contains(t.desktops, d), CurrentSet
  <2> HIDE DEF e
  <2>3. Whole(e) /\ e.active = w
    BY <1>0, <2>2 DEF Whole, SameFocus
  <2> DEFINE v == CurrentChanged(e, TRUE, w)
             n == Number(e, e.current)
  <2>4. /\ Switched(e, v) /\ Whole(v)
        /\ ChainsMatch(e, None) => ChainsMatch(v, None)
        /\ v.active \in Window /\ ChainsMatch(e, None) => OnDesktop(v, v.active, n)
        /\ \A x \in Window : x # w => v.win[x] = e.win[x]
        /\ \A x : Contains(v.win[w].desks, x)
             => Contains(e.win[w].desks, x) \/ Contains(e.desktops, x)
        /\ ChainsMatch(e, None) /\ ~OnAllDesktops(e, w) => v.active = w
    BY <2>3, CurrentChangedMoves, ZenonT(30)
  <2> HIDE DEF v
  <2>5. Alive(v)
    BY <1>0, <2>2, <2>4 DEF Alive, Switched
  <2>6. Number(v, v.current) = n /\ v.desktops = t.desktops
    BY <2>2, <2>4 DEF Switched, Number
  <2>7. StaysSound(t, v)
    BY <2>2, <2>4, <2>5 DEF Switched, Whole, Sound, Steady, StaysSound, Matches
  <2>8. ChainsMatch(t, None)
          => /\ v.active \in Window => OnCurrentDesktop(v, v.active)
             /\ ~OnAllDesktops(t, w) => v.active \in Window
    BY <2>2, <2>4, <2>6 DEF OnCurrentDesktop, OnAllDesktops
  <2>9. u = v
    BY <2>1 DEF v
  <2> HIDE DEF u
  <2>10. StaysSound(t, u) /\ u.desktops = t.desktops
    BY <2>6, <2>7, <2>9
  <2>11. ChainsMatch(t, None)
          => /\ u.active \in Window => OnCurrentDesktop(u, u.active)
             /\ ~OnAllDesktops(t, w) => u.active \in Window
    BY <2>8, <2>9
  <2> QED
    BY <2>10, <2>11 DEF u
<1> QED
  BY <1>1, <1>2

-----------------------------------------------------------------------------
(* Removal of desktops.                                                    *)

\* The loop over the removed desktops.
LEMMA AllRemoved ==
  ASSUME NEW t, Whole(t), NEW before, NEW c \in Seq(Desktop),
         \A i \in 1..Len(c) : /\ ~Contains(t.desktops, c[i])
                              /\ Number(before, c[i]) \in Nat \ {0}
  PROVE  LET u == DesktopsRemoved(t, before, c)
         IN /\ Moved(t, u)
            /\ \A v \in Window, i \in 1..Len(c) :
                 Contains(t.clients, v) => ~Contains(u.win[v].desks, c[i])
<1> DEFINE Loop(g, m) ==
             g = [S \in SUBSET (1..m) |->
                    IF S = {} THEN t
                    ELSE DesktopRemoved(g[S \ {Max(S)}], c[Max(S)], Number(before, c[Max(S)]))]
<1>1. Len(c) \in Nat
  OBVIOUS
<1>2. \A m \in Nat : \E g : Loop(g, m)
  <2> DEFINE Bad == {m \in Nat : ~\E g : Loop(g, m)}
  <2>1. SUFFICES ASSUME Bad # {} PROVE FALSE
    OBVIOUS
  <2>2. PICK m \in Bad : \A n \in Bad : m <= n
    <3>1. Bad \in SUBSET Nat
      OBVIOUS
    <3> HIDE DEF Bad
    <3> QED
      BY <2>1, <3>1, Least
  <2>3. CASE m = 0
    <3> DEFINE g == [S \in SUBSET (1..0) |-> t]
    <3>1. \A S \in SUBSET (1..0) : S = {}
      OBVIOUS
    <3>2. Loop(g, 0)
      BY <3>1
    <3> QED
      BY <2>2, <2>3, <3>2
  <2>4. CASE m # 0
    <3>1. m \in Nat /\ m - 1 \in Nat /\ m - 1 \notin Bad
      <4>1. m \in Nat
        BY <2>2
      <4>2. m - 1 \in Nat /\ ~(m <= m - 1)
        BY <2>4, <4>1
      <4> HIDE DEF Bad
      <4> QED
        BY <2>2, <4>1, <4>2
    <3>2. PICK g : Loop(g, m - 1)
      BY <3>1
    <3> DEFINE h == [S \in SUBSET (1..m) |->
                       IF m \in S THEN DesktopRemoved(g[S \ {m}], c[m], Number(before, c[m]))
                       ELSE g[S]]
    <3>3. ASSUME NEW S \in SUBSET (1..m), m \in S
          PROVE  Max(S) = m /\ h[S \ {m}] = g[S \ {m}] /\ S # {}
      <4>1. S \in SUBSET (0..m) /\ S # {}
        BY <3>1, <3>3
      <4>2. Max(S) \in S /\ \A n \in S : n <= Max(S)
        BY <3>1, <4>1, MaxIsGreatest
      <4>3. Max(S) = m
        <5>1. Max(S) \in 1..m /\ m <= Max(S)
          BY <3>3, <4>2
        <5> QED
          BY <3>1, <5>1
      <4> QED
        BY <4>1, <4>3
    <3>4. ASSUME NEW S \in SUBSET (1..m), m \notin S, S # {}
          PROVE  /\ S \in SUBSET (1..(m - 1)) /\ Max(S) \in S
                 /\ h[S \ {Max(S)}] = g[S \ {Max(S)}]
      <4>1. S \in SUBSET (0..m) /\ S \in SUBSET (1..(m - 1))
        BY <3>1, <3>4
      <4>2. Max(S) \in S
        BY <3>1, <3>4, <4>1, MaxIsGreatest
      <4> QED
        BY <3>4, <4>1, <4>2
    <3>5. ASSUME NEW S \in SUBSET (1..m)
          PROVE  h[S] = IF S = {} THEN t
                        ELSE DesktopRemoved(h[S \ {Max(S)}], c[Max(S)], Number(before, c[Max(S)]))
      <4>1. CASE m \in S
        BY <3>3, <4>1
      <4>2. CASE m \notin S /\ S # {}
        <5>1. g[S] = DesktopRemoved(g[S \ {Max(S)}], c[Max(S)], Number(before, c[Max(S)]))
          BY <3>2, <3>4, <4>2
        <5> QED
          BY <3>4, <4>2, <5>1
      <4>3. CASE S = {}
        <5>1. S \in SUBSET (1..(m - 1))
          BY <4>3
        <5> QED
          BY <3>2, <4>3, <5>1
      <4> QED
        BY <4>1, <4>2, <4>3
    <3>6. Loop(h, m)
      BY <3>5
    <3> QED
      BY <2>2, <3>6
  <2> QED
    BY <2>3, <2>4
<1> DEFINE g == CHOOSE g : Loop(g, Len(c))
<1>3. DesktopsRemoved(t, before, c) = g[1..Len(c)]
  <2>1. DOMAIN c = 1..Len(c)
    BY <1>1
  <2>2. DesktopsRemoved(t, before, c) =
          (CHOOSE h : h = [S \in SUBSET (DOMAIN c) |->
                    IF S = {} THEN t
                    ELSE DesktopRemoved(h[S \ {Max(S)}], c[Max(S)], Number(before, c[Max(S)]))])[DOMAIN c]
    BY DEF DesktopsRemoved, FoldLeft, MapThenFoldSet
  <2> QED
    BY <2>1, <2>2, Zenon
<1>4. Loop(g, Len(c))
  <2> HIDE DEF Loop
  <2> QED
    BY <1>1, <1>2
<1> HIDE DEF g
<1>5. g[1..0] = t
  <2>1. 1..0 = {} /\ 1..0 \in SUBSET (1..Len(c))
    OBVIOUS
  <2> QED
    BY <1>4, <2>1
<1>6. ASSUME NEW k \in 1..Len(c)
      PROVE  g[1..k] = DesktopRemoved(g[1..(k - 1)], c[k], Number(before, c[k]))
  <2>1. 1..k \in SUBSET (1..Len(c)) /\ 1..k # {} /\ k \in Nat \ {0}
    <3> DEFINE l == Len(c)
    <3>1. k \in Int /\ 1 <= k /\ k <= l /\ l \in Nat
      BY <1>1
    <3> HIDE DEF l
    <3>2. 1..k \in SUBSET (1..l) /\ 1..k # {} /\ k \in Nat \ {0}
      BY <3>1
    <3> QED
      BY <3>2 DEF l
  <2>2. Max(1..k) = k /\ (1..k) \ {k} = 1..(k - 1)
    BY <2>1, MaxOfInterval
  <2> QED
    BY <1>4, <2>1, <2>2
<1> HIDE DEF Loop
<1> DEFINE P(k) == /\ Moved(t, g[1..k])
                   /\ \A v \in Window, j \in 1..k :
                        Contains(t.clients, v) => ~Contains(g[1..k].win[v].desks, c[j])
<1>7. P(0)
  BY <1>5 DEF Moved
<1>8. ASSUME NEW k \in 1..Len(c), P(k - 1) PROVE P(k)
  <2> DEFINE u == g[1..(k - 1)]
             r == g[1..k]
  <2>1. r = DesktopRemoved(u, c[k], Number(before, c[k]))
    BY <1>6
  <2>2. /\ Moved(t, u)
        /\ \A v \in Window, j \in 1..(k - 1) :
             Contains(t.clients, v) => ~Contains(u.win[v].desks, c[j])
    BY <1>8
  <2> HIDE DEF u, r
  <2>4. Whole(u) /\ u.desktops = t.desktops /\ u.clients = t.clients
    BY <2>2 DEF Moved
  <2>5. /\ Moved(u, r)
        /\ \A v \in Window : Contains(u.clients, v) => ~Contains(r.win[v].desks, c[k])
    <3>1. ~Contains(u.desktops, c[k]) /\ Number(before, c[k]) \in Nat \ {0}
      BY <2>4
    <3> QED
      BY <2>1, <2>4, <3>1, AllMoved
  <2>6. Moved(t, r)
    BY <2>2, <2>5, MovedTwice
  <2>7. ASSUME NEW v \in Window, NEW j \in 1..k, Contains(t.clients, v)
        PROVE  ~Contains(r.win[v].desks, c[j])
    <3>1. CASE j = k
      BY <2>4, <2>5, <2>7, <3>1
    <3>2. CASE j # k
      <4>1. j \in 1..(k - 1) /\ j \in 1..Len(c)
        BY <1>1, <3>2
      <4> QED
        BY <2>2, <2>4, <2>5, <2>7, <4>1 DEF Moved
    <3> QED
      BY <3>1, <3>2
  <2> QED
    BY <2>6, <2>7 DEF r
<1>9. P(Len(c))
  <2> DEFINE Bad == {k \in 0..Len(c) : ~P(k)}
  <2>1. SUFFICES ASSUME Bad # {} PROVE FALSE
    BY <1>1
  <2>2. PICK k \in Bad : \A n \in Bad : k <= n
    <3>1. Bad \in SUBSET Nat
      OBVIOUS
    <3> HIDE DEF Bad
    <3> QED
      BY <2>1, <3>1, Least
  <2> HIDE DEF P
  <2>3. k # 0 /\ k \in 1..Len(c)
    BY <1>1, <1>7, <2>2
  <2>4. k - 1 \in 0..Len(c) /\ ~(k <= k - 1)
    BY <1>1, <2>3
  <2>5. P(k - 1)
    BY <2>2, <2>4
  <2> QED
    BY <1>8, <2>2, <2>3, <2>5
<1> QED
  BY <1>3, <1>9

\* t with the desktops left and the current desktop d.
WithDesktops(t, left, d) == [t EXCEPT !.desktops = left, !.current = d]

\* left is how the desktops of t begin.
Begins(t, left) == \A i \in 1..Len(left) : left[i] = t.desktops[i]

\* e is t with the desktops that are left and with current desktop d.
Cut(t, e, left, d) ==
  /\ e \in State /\ Struct(e) /\ Windows(e) /\ ActiveOk(e) /\ Listed(e, None)
  /\ Len(e.desktops) <= Len(e.chains) /\ Whole(e)
  /\ e.desktops = left /\ e.current = d /\ e.rows = t.rows
  /\ e.clients = t.clients /\ e.chains = t.chains /\ e.win = t.win
  /\ e.recent = t.recent /\ e.fc_current = t.fc_current
  /\ Begins(t, left) => (ChainsMatch(t, None) => ChainsMatch(e, None))

\* m_desktops and m_current alone, as removeVirtualDesktop and setCount set them
\* before they emit anything.
LEMMA DesktopsCut ==
  ASSUME NEW t, Sound(t), NEW left \in Seq(Desktop), IsInjective(left),
         Len(left) <= Len(t.desktops), NEW new \in 1..Len(left)
  PROVE  Cut(t, WithDesktops(t, left, left[new]), left, left[new])
<1> DEFINE d == left[new]
           e == WithDesktops(t, left, d)
<1>0. /\ t \in State /\ Struct(t) /\ Windows(t) /\ Listed(t, None) /\ ActiveOk(t)
      /\ Len(t.chains) = Len(t.desktops) /\ Len(t.desktops) \in Nat
  BY SoundWhole DEF Sound, Steady
<1>1. left # <<>> /\ Contains(left, d) /\ d \in Desktop
  BY DEF Contains
<1> HIDE DEF d
<1>2. /\ e \in State
      /\ e.desktops = left /\ e.current = d /\ e.rows = t.rows
      /\ e.recent = t.recent /\ e.clients = t.clients /\ e.fc_current = t.fc_current
      /\ e.mru = t.mru /\ e.chains = t.chains /\ e.win = t.win /\ SameFocus(t, e)
  BY <1>0, <1>1 DEF State, SameFocus, WithDesktops
<1> HIDE DEF e
<1>3. Struct(e)
  BY <1>0, <1>1, <1>2 DEF Struct
<1>4. Windows(e)
  BY <1>0, <1>2 DEF Windows, IsShown, WantsFocus, SameFocus
<1>5. ActiveOk(e) /\ Listed(e, None)
  BY <1>0, <1>2 DEF ActiveOk, Listed, IsShown, WantsFocus, SameFocus
<1>6. Len(e.desktops) <= Len(e.chains)
  BY <1>0, <1>2
<1>7. ASSUME Begins(t, left), ChainsMatch(t, None) PROVE ChainsMatch(e, None)
  <2> SUFFICES ASSUME NEW n \in 1..Len(e.desktops), NEW w \in Window \ {None}
               PROVE  /\ Contains(e.chains[n], w) => OnDesktop(e, w, n)
                      /\ Contains(e.mru, w) /\ OnDesktop(e, w, n) /\ ~OnAllDesktops(e, w)
                           => Contains(e.chains[n], w)
    BY DEF ChainsMatch
  <2>1. n \in 1..Len(left) /\ n \in 1..Len(t.desktops)
    BY <1>0, <1>2
  <2>2. e.desktops[n] = t.desktops[n]
    BY <1>2, <1>7, <2>1 DEF Begins
  <2>3. OnDesktop(e, w, n) = OnDesktop(t, w, n) /\ OnAllDesktops(e, w) = OnAllDesktops(t, w)
    BY <1>2, <2>1, <2>2 DEF OnDesktop, OnAllDesktops
  <2> QED
    BY <1>2, <1>7, <2>1, <2>3 DEF ChainsMatch
<1> QED
  BY <1>2, <1>3, <1>4, <1>5, <1>6, <1>7 DEF Cut, Whole, d, e

\* slotCurrentDesktopChanged has run on the way from e to v, or there was no need.
CurrentDone(e, v) == v = CurrentChanged(e, FALSE, None)

\* The end of removeVirtualDesktop and of setCount: e has the desktops that are
\* left, and the current desktop has changed or is as it was.
LEMMA SettledSound ==
  ASSUME NEW t, Sound(t), NEW left, NEW d, NEW e, Cut(t, e, left, d),
         NEW v, NEW r,
         v = e \/ CurrentDone(e, v),
         Moved(v, r), Alive(r)
  PROVE  LET u == CountChanged(r)
         IN /\ Sound(u) /\ u.desktops = left /\ u.current = d
            /\ (/\ Begins(t, left) /\ ChainsMatch(t, None)
                /\ CurrentDone(e, v) \/ CurrentMatches(e))
                 => /\ Matches(u)
                    /\ (CurrentDone(e, v) /\ u.active \in Window) => OnCurrentDesktop(u, u.active)
<1> DEFINE u == CountChanged(r)
           k == Len(r.desktops)
           n == Number(e, d)
<1>0. Cut(t, e, left, d)
  OBVIOUS
<1>e. /\ e \in State /\ Struct(e) /\ Windows(e) /\ ActiveOk(e) /\ Listed(e, None)
      /\ Len(e.desktops) <= Len(e.chains) /\ Whole(e)
      /\ e.desktops = left /\ e.current = d /\ e.rows = t.rows
      /\ Begins(t, left) => (ChainsMatch(t, None) => ChainsMatch(e, None))
  BY <1>0 DEF Cut
<1>1. CurrentDone(e, v)
        => /\ Switched(e, v) /\ Listed(v, None)
           /\ ChainsMatch(e, None) => ChainsMatch(v, None)
           /\ v.win = e.win
           /\ v.active \in Window => Contains(e.chains[n], v.active)
  <2>1. ASSUME NEW b \in BOOLEAN
        PROVE  LET x == CurrentChanged(e, b, None)
               IN /\ Switched(e, x) /\ x.win = e.win
                  /\ \A y : Listed(e, y) => Listed(x, y)
                  /\ \A y : ChainsMatch(e, y) => ChainsMatch(x, y)
                  /\ x.active \in Window => Contains(e.chains[n], x.active)
    <3>1. Struct(e) /\ Windows(e) /\ ActiveOk(e) /\ Len(e.desktops) <= Len(e.chains)
          /\ d = e.current
      BY <1>e
    <3> QED
      BY <3>1, CurrentChangedStays
  <2>2. LET x == CurrentChanged(e, FALSE, None)
        IN /\ Switched(e, x) /\ x.win = e.win
           /\ \A y : Listed(e, y) => Listed(x, y)
           /\ \A y : ChainsMatch(e, y) => ChainsMatch(x, y)
           /\ x.active \in Window => Contains(e.chains[n], x.active)
    BY <2>1
  <2> QED
    BY <1>e, <2>2 DEF CurrentDone
<1>2. /\ v.desktops = left /\ v.current = d /\ v.rows = t.rows
      /\ CurrentDone(e, v) => CurrentMatches(v)
  BY <1>e, <1>1 DEF Switched
<1>3. /\ Whole(r)
      /\ r.desktops = left /\ r.current = d /\ r.rows = t.rows
      /\ r.recent = v.recent /\ r.fc_current = v.fc_current /\ r.active = v.active
      /\ ChainsMatch(v, None) => ChainsMatch(r, None)
      /\ \A w \in Window : \A i : OnDesktop(v, w, i) => OnDesktop(r, w, i)
  BY <1>2 DEF Moved
<1>4. /\ Struct(r) /\ Windows(r) /\ ActiveOk(r) /\ Listed(r, None) /\ r.rows > 0
      /\ Len(r.desktops) <= Len(r.chains)
  BY <1>3, SoundWhole DEF Whole, Sound, Steady
<1>5. /\ Whole(u) /\ Len(u.chains) = k /\ u.rows \in 1..k
      /\ u.desktops = r.desktops /\ u.current = r.current /\ u.win = r.win
      /\ u.mru = r.mru /\ u.fc_current = r.fc_current /\ u.active = r.active
      /\ \A i \in 1..k : u.chains[i] = IF i <= Len(r.chains) THEN r.chains[i] ELSE <<>>
      /\ u.recent[1] = IF r.recent[1] <= k THEN r.recent[1] ELSE k
  BY <1>4, CountAdjusted
<1> HIDE DEF u
<1>6. Alive(u)
  BY <1>5 DEF Alive
<1>7. Sound(u) /\ u.desktops = left /\ u.current = d
  BY <1>3, <1>5, <1>6 DEF Sound, Steady, Whole
<1>8. ASSUME Begins(t, left), ChainsMatch(t, None),
             CurrentDone(e, v) \/ CurrentMatches(e)
      PROVE  /\ Matches(u)
             /\ (CurrentDone(e, v) /\ u.active \in Window) => OnCurrentDesktop(u, u.active)
  <2>1. CurrentMatches(v) /\ ChainsMatch(v, None)
    BY <1>e, <1>1, <1>2, <1>8
  <2>2. CurrentMatches(r)
    <3>1. r.desktops = v.desktops /\ r.current = v.current
      BY <1>2, <1>3
    <3> QED
      BY <1>3, <2>1, <3>1, CurrentMatchesKept
  <2>3. r.recent[1] = Number(r, r.current) /\ Number(r, r.current) \in 1..k /\ k \in Nat
        /\ Len(r.chains) \in Nat /\ k <= Len(r.chains) /\ k = Len(u.desktops)
    <3>1. r \in State /\ Contains(r.desktops, r.current)
      BY <1>4 DEF Struct
    <3>2. Number(r, r.current) \in 1..k
      BY <3>1, NumberOf
    <3>3. k \in Nat /\ Len(r.chains) \in Nat
      BY <3>1 DEF State
    <3> QED
      BY <1>4, <1>5, <2>2, <3>2, <3>3 DEF CurrentMatches
  <2>4. CurrentMatches(u)
    <3>1. u.recent[1] = r.recent[1]
      BY <1>5, <2>3
    <3> QED
      BY <1>5, <2>2, <3>1 DEF CurrentMatches, Number
  <2>5. ChainsMatch(r, None)
    BY <1>3, <2>1
  <2> HIDE DEF k
  <2>6. \A i \in 1..k : u.chains[i] = r.chains[i]
    BY <1>5, <2>3
  <2>7. ChainsMatch(u, None)
    BY <1>5, <2>3, <2>5, <2>6 DEF ChainsMatch, OnDesktop, OnAllDesktops
  <2>8. ASSUME CurrentDone(e, v), u.active \in Window PROVE OnCurrentDesktop(u, u.active)
    <3> DEFINE a == v.active
    <3>1. u.active = a /\ Contains(e.chains[n], a) /\ a \in Window /\ a # None
      BY <1>1, <1>3, <1>5, <2>8, WorkspaceAssumption
    <3>2. n \in 1..Len(e.desktops)
      BY <1>e, NumberOf DEF Struct
    <3>3. ChainsMatch(e, None) /\ v.win = e.win /\ e.desktops = v.desktops
      BY <1>e, <1>1, <1>2, <1>8, <2>8
    <3>4. OnDesktop(e, a, n)
      BY <3>1, <3>2, <3>3 DEF ChainsMatch
    <3>5. OnDesktop(v, a, n)
      BY <3>3, <3>4 DEF OnDesktop, OnAllDesktops
    <3>6. OnDesktop(r, a, n)
      BY <1>3, <3>1, <3>5
    <3>7. Number(u, u.current) = n
      BY <1>e, <1>3, <1>5 DEF Number
    <3> QED
      BY <1>5, <3>1, <3>6, <3>7 DEF OnCurrentDesktop, OnDesktop, OnAllDesktops
  <2> QED
    BY <2>4, <2>7, <2>8 DEF Matches
<1> QED
  BY <1>7, <1>8 DEF u

\* Every window that was on a removed desktop has left it.
LEMMA AliveAfter ==
  ASSUME NEW t, Alive(t), NEW left, NEW v, v.win = t.win, v.desktops = left,
         NEW r, Moved(v, r),
         \A w \in Window : \A x : Contains(t.desktops, x) /\ Contains(r.win[w].desks, x)
           => Contains(left, x)
  PROVE  Alive(r)
<1> SUFFICES ASSUME NEW w \in Window, NEW x, Contains(r.win[w].desks, x)
             PROVE  Contains(r.desktops, x)
  BY DEF Alive
<1>1. r.desktops = left
  BY DEF Moved
<1>2. Contains(t.win[w].desks, x) \/ Contains(left, x)
  BY DEF Moved
<1>3. Contains(t.win[w].desks, x) => Contains(t.desktops, x)
  BY DEF Alive
<1> QED
  BY <1>1, <1>2, <1>3

\* The windows are the same.
SameWindows(t, v) == v.win = t.win /\ v.clients = t.clients

\* Until desktopRemoved is emitted the windows are on the desktops they were on.
LEMMA WindowsAfterChange ==
  ASSUME NEW t, NEW left, NEW d, NEW e, Cut(t, e, left, d), NEW v,
         v = e \/ CurrentDone(e, v)
  PROVE  Whole(v) /\ SameWindows(t, v) /\ v.desktops = left
<1>0. Cut(t, e, left, d)
  OBVIOUS
<1>1. /\ Struct(e) /\ Windows(e) /\ ActiveOk(e) /\ Len(e.desktops) <= Len(e.chains)
      /\ Whole(e) /\ Listed(e, None)
      /\ e.desktops = left /\ e.clients = t.clients /\ e.win = t.win
  BY <1>0 DEF Cut
<1>2. CASE v = e
  BY <1>1, <1>2 DEF SameWindows
<1>3. CASE CurrentDone(e, v)
  <2>1. ASSUME NEW b \in BOOLEAN
        PROVE  LET x == CurrentChanged(e, b, None)
               IN /\ Switched(e, x) /\ x.win = e.win
                  /\ \A y : Listed(e, y) => Listed(x, y)
    BY <1>1, CurrentChangedStays
  <2>2. LET x == CurrentChanged(e, FALSE, None)
        IN /\ Switched(e, x) /\ x.win = e.win
           /\ \A y : Listed(e, y) => Listed(x, y)
    BY <2>1
  <2>3. Switched(e, v) /\ v.win = e.win /\ Listed(v, None)
    BY <1>1, <1>3, <2>2 DEF CurrentDone
  <2> QED
    BY <1>1, <2>3 DEF Switched, Whole, SameWindows
<1> QED
  BY <1>2, <1>3

\* How the current desktop goes on if the desktops that are left begin as before.
LEMMA StaysAt ==
  ASSUME NEW t, Sound(t), NEW left \in Seq(Desktop), NEW e, Begins(t, left),
         IsInjective(left), NEW new \in 1..Len(left), new = Number(t, t.current),
         Cut(t, e, left, left[new])
  PROVE  left[new] = t.current /\ (CurrentMatches(t) => CurrentMatches(e))
<1>0. Cut(t, e, left, left[new])
  OBVIOUS
<1>1. t \in State /\ Contains(t.desktops, t.current)
  BY DEF Sound, Steady, Struct
<1>2. t.desktops[new] = t.current
  BY <1>1, NumberOf
<1>3. left[new] = t.current
  BY <1>2 DEF Begins
<1>4. /\ e \in State /\ e.desktops = left /\ e.current = left[new]
      /\ e.recent = t.recent /\ e.fc_current = t.fc_current
  BY <1>0 DEF Cut
<1>5. Number(e, e.current) = new
  BY <1>4, NumberAt
<1> QED
  BY <1>3, <1>4, <1>5 DEF CurrentMatches

\* The desktops without the one at i.
LEMMA DesktopTaken ==
  ASSUME NEW ds \in Seq(Desktop), IsInjective(ds), NEW i \in 1..Len(ds), Len(ds) > 1
  PROVE  LET left == RemoveAt(ds, i)
         IN /\ left \in Seq(Desktop) /\ IsInjective(left) /\ Len(left) = Len(ds) - 1
            /\ ~Contains(left, ds[i])
            /\ \A x : Contains(ds, x) => x = ds[i] \/ Contains(left, x)
            /\ i = Len(ds) => \A j \in 1..Len(left) : left[j] = ds[j]
<1> DEFINE left == RemoveAt(ds, i)
<1>1. /\ left \in Seq(Desktop) /\ Len(left) = Len(ds) - 1 /\ Len(ds) \in Nat
      /\ \A j \in 1..(Len(ds) - 1) : left[j] = IF j < i THEN ds[j] ELSE ds[j + 1]
  BY RemovedAt
<1> HIDE DEF left
<1>2. \A j, k \in 1..Len(ds) : ds[j] = ds[k] => j = k
  BY DEF IsInjective
<1>3. \A j \in 1..(Len(ds) - 1) :
        \E k \in 1..Len(ds) : /\ left[j] = ds[k] /\ k # i
                              /\ k = IF j < i THEN j ELSE j + 1
  BY <1>1
<1>4. IsInjective(left)
  <2> SUFFICES ASSUME NEW j \in 1..Len(left), NEW k \in 1..Len(left), left[j] = left[k]
               PROVE  j = k
    BY <1>1 DEF IsInjective
  <2>1. PICK a \in 1..Len(ds) : left[j] = ds[a] /\ a = IF j < i THEN j ELSE j + 1
    BY <1>1, <1>3
  <2>2. PICK b \in 1..Len(ds) : left[k] = ds[b] /\ b = IF k < i THEN k ELSE k + 1
    BY <1>1, <1>3
  <2>3. a = b
    BY <1>2, <2>1, <2>2
  <2> QED
    BY <1>1, <2>1, <2>2, <2>3
<1>5. ~Contains(left, ds[i])
  BY <1>1, <1>2, <1>3 DEF Contains
<1>6. ASSUME NEW x, Contains(ds, x), x # ds[i] PROVE Contains(left, x)
  <2>1. PICK j \in 1..Len(ds) : ds[j] = x
    BY <1>6 DEF Contains
  <2>2. j # i
    BY <1>6, <2>1
  <2>3. CASE j < i
    <3>1. j \in 1..(Len(ds) - 1) /\ left[j] = x
      BY <1>1, <2>1, <2>3
    <3> QED
      BY <1>1, <3>1 DEF Contains
  <2>4. CASE j > i
    <3>1. j - 1 \in 1..(Len(ds) - 1) /\ left[j - 1] = ds[(j - 1) + 1] /\ (j - 1) + 1 = j
      BY <1>1, <2>1, <2>4
    <3> QED
      BY <1>1, <2>1, <3>1 DEF Contains
  <2> QED
    BY <1>1, <2>2, <2>3, <2>4
<1>7. i = Len(ds) => \A j \in 1..Len(left) : left[j] = ds[j]
  BY <1>1
<1> QED
  BY <1>1, <1>4, <1>5, <1>6, <1>7 DEF left

\* removeVirtualDesktop, if m_allClients has all windows of the removed desktop.
LEMMA RemovedSound ==
  ASSUME NEW t, Sound(t), NEW number \in 1..Len(t.desktops), Len(t.desktops) > 1,
         \A w \in Window : Contains(t.win[w].desks, t.desktops[number])
           => Contains(t.clients, w)
  PROVE  LET u == RemoveDesktop(t, number)
         IN /\ Sound(u) /\ u.desktops # t.desktops
            /\ number = Len(t.desktops) /\ Matches(t)
                 => /\ Matches(u)
                    /\ (u.current # t.current /\ u.active \in Window)
                         => OnCurrentDesktop(u, u.active)
<1> DEFINE d == t.desktops[number]
           old == Number(t, t.current)
           new == Min({old, Len(t.desktops) - 1})
           left == RemoveAt(t.desktops, number)
           e == WithDesktops(t, left, left[new])
           v == IF old = new THEN e ELSE CurrentChanged(e, FALSE, None)
           r == DesktopRemoved(v, d, number)
           u == CountChanged(r)
<1>0. /\ t \in State /\ t.desktops \in Seq(Desktop) /\ IsInjective(t.desktops)
      /\ Contains(t.desktops, t.current) /\ Len(t.desktops) \in Nat /\ Alive(t)
  BY SoundWhole DEF Sound, Steady, Struct
<1>1. RemoveDesktop(t, number) = u
  BY DEF RemoveDesktop, WithDesktops
<1>2. /\ left \in Seq(Desktop) /\ IsInjective(left) /\ Len(left) = Len(t.desktops) - 1
      /\ ~Contains(left, d)
      /\ \A x : Contains(t.desktops, x) => x = d \/ Contains(left, x)
      /\ number = Len(t.desktops) => Begins(t, left)
  BY <1>0, DesktopTaken DEF Begins
<1> HIDE DEF left, d
<1>3. old \in 1..Len(t.desktops)
  BY <1>0, NumberOf
<1>4. new = (IF old <= Len(t.desktops) - 1 THEN old ELSE Len(t.desktops) - 1)
  <2>1. old \in Nat /\ Len(t.desktops) - 1 \in Nat
    BY <1>0, <1>3
  <2> QED
    BY <2>1, MinOfTwo
<1>5. new \in 1..Len(left) /\ new <= old
  BY <1>0, <1>2, <1>3, <1>4
<1>o. old = Number(t, t.current)
  OBVIOUS
<1> HIDE DEF old, new
<1>6. Cut(t, e, left, left[new])
  BY <1>0, <1>2, <1>5, DesktopsCut
<1> HIDE DEF e
<1>7. /\ old = new => v = e
      /\ old # new => CurrentDone(e, v)
  BY DEF CurrentDone
<1> HIDE DEF v
<1>8. Whole(v) /\ v.win = t.win /\ v.desktops = left /\ v.clients = t.clients
  <2>1. Whole(v) /\ SameWindows(t, v) /\ v.desktops = left
    BY <1>6, <1>7, WindowsAfterChange
  <2> QED
    BY <2>1 DEF SameWindows
<1>9. /\ Moved(v, r)
      /\ \A w \in Window : Contains(v.clients, w) => ~Contains(r.win[w].desks, d)
  <2>1. number \in Nat \ {0} /\ ~Contains(v.desktops, d)
    BY <1>0, <1>2, <1>8
  <2> QED
    BY <1>8, <2>1, AllMoved
<1> HIDE DEF r
<1>10. ASSUME NEW w \in Window, NEW x, Contains(t.desktops, x), Contains(r.win[w].desks, x)
       PROVE  Contains(left, x)
  <2>1. x = d => Contains(v.win[w].desks, d) \/ Contains(v.desktops, d)
    BY <1>9, <1>10 DEF Moved
  <2>2. x = d => Contains(t.clients, w)
    BY <1>2, <1>8, <2>1 DEF d
  <2>3. x # d
    BY <1>8, <1>9, <1>10, <2>2
  <2> QED
    BY <1>2, <1>10, <2>3
<1>11. Alive(r)
  BY <1>0, <1>8, <1>9, <1>10, AliveAfter
<1>12. /\ Sound(u) /\ u.desktops = left /\ u.current = left[new]
       /\ (/\ Begins(t, left) /\ ChainsMatch(t, None)
           /\ CurrentDone(e, v) \/ CurrentMatches(e))
            => /\ Matches(u)
               /\ (CurrentDone(e, v) /\ u.active \in Window) => OnCurrentDesktop(u, u.active)
  BY <1>6, <1>7, <1>9, <1>11, SettledSound
<1> HIDE DEF u
<1>13. u.desktops # t.desktops
  BY <1>0, <1>2, <1>12
<1>14. ASSUME number = Len(t.desktops), Matches(t)
       PROVE  /\ Matches(u)
              /\ (u.current # t.current /\ u.active \in Window)
                   => OnCurrentDesktop(u, u.active)
  <2>1. Begins(t, left) /\ ChainsMatch(t, None) /\ CurrentMatches(t)
    BY <1>2, <1>14 DEF Matches
  <2>2. old = new => left[new] = t.current /\ (CurrentMatches(t) => CurrentMatches(e))
    BY <1>2, <1>5, <1>6, <1>o, <2>1, StaysAt
  <2> QED
    BY <1>7, <1>12, <2>1, <2>2
<1> QED
  BY <1>1, <1>12, <1>13, <1>14

\* A part of a list of desktops.
LEMMA PartOf ==
  ASSUME NEW ds \in Seq(Desktop), NEW a \in 1..(Len(ds) + 1), NEW b \in (a - 1)..Len(ds)
  PROVE  /\ SubSeq(ds, a, b) \in Seq(Desktop)
         /\ Len(SubSeq(ds, a, b)) = b - a + 1
         /\ \A i \in 1..(b - a + 1) : SubSeq(ds, a, b)[i] = ds[a + i - 1]
OBVIOUS

\* The desktops that setCount keeps and those that it removes.
LEMMA DesktopsSplit ==
  ASSUME NEW ds \in Seq(Desktop), IsInjective(ds), NEW n \in 1..Len(ds), n < Len(ds)
  PROVE  LET left == SubSeq(ds, 1, n)
             removed == SubSeq(ds, n + 1, Len(ds))
         IN /\ left \in Seq(Desktop) /\ IsInjective(left) /\ Len(left) = n
            /\ \A i \in 1..n : left[i] = ds[i]
            /\ removed \in Seq(Desktop)
            /\ \A i \in 1..Len(removed) :
                 /\ ~Contains(left, removed[i])
                 /\ \E j \in (n + 1)..Len(ds) : removed[i] = ds[j]
            /\ \A x : Contains(ds, x)
                 => Contains(left, x) \/ \E i \in 1..Len(removed) : x = removed[i]
<1> DEFINE left == SubSeq(ds, 1, n)
           removed == SubSeq(ds, n + 1, Len(ds))
           m == Len(ds) - n
<1>0. Len(ds) \in Nat /\ n \in Nat /\ m \in Nat
  OBVIOUS
<1>1. left \in Seq(Desktop) /\ Len(left) = n /\ \A i \in 1..n : left[i] = ds[i]
  <2>1. 1 \in 1..(Len(ds) + 1) /\ n \in (1 - 1)..Len(ds) /\ n - 1 + 1 = n
    BY <1>0
  <2>2. /\ left \in Seq(Desktop) /\ Len(left) = n - 1 + 1
        /\ \A i \in 1..(n - 1 + 1) : left[i] = ds[1 + i - 1]
    BY <2>1, PartOf
  <2> HIDE DEF left
  <2> QED
    BY <1>0, <2>2
<1>2. removed \in Seq(Desktop) /\ Len(removed) = m /\ \A i \in 1..m : removed[i] = ds[n + i]
  <2> DEFINE a == n + 1
  <2>1. a \in 1..(Len(ds) + 1) /\ Len(ds) \in (a - 1)..Len(ds) /\ Len(ds) - a + 1 = m
    BY <1>0, SMTT(30)
  <2>2. /\ removed \in Seq(Desktop) /\ Len(removed) = Len(ds) - a + 1
        /\ \A i \in 1..(Len(ds) - a + 1) : removed[i] = ds[a + i - 1]
    BY <2>1, PartOf
  <2> HIDE DEF removed
  <2>3. \A i \in 1..m : a + i - 1 = n + i
    BY <1>0
  <2> QED
    BY <2>1, <2>2, <2>3
<1> HIDE DEF left, removed
<1>3. \A j, k \in 1..Len(ds) : ds[j] = ds[k] => j = k
  BY DEF IsInjective
<1>4. IsInjective(left)
  BY <1>0, <1>1, <1>3 DEF IsInjective
<1>5. ASSUME NEW i \in 1..m
      PROVE  /\ ~Contains(left, removed[i])
             /\ \E j \in (n + 1)..Len(ds) : removed[i] = ds[j]
  <2>1. n + i \in (n + 1)..Len(ds) /\ n + i \in 1..Len(ds) /\ \A j \in 1..n : j # n + i
    BY <1>0
  <2>2. ~Contains(left, removed[i])
    <3> SUFFICES ASSUME NEW j \in 1..n, left[j] = removed[i] PROVE FALSE
      BY <1>1 DEF Contains
    <3>1. j \in 1..Len(ds) /\ ds[j] = ds[n + i]
      BY <1>0, <1>1, <1>2
    <3> QED
      BY <1>3, <2>1, <3>1
  <2> QED
    BY <1>2, <2>1, <2>2
<1>6. ASSUME NEW x, Contains(ds, x)
      PROVE  Contains(left, x) \/ \E i \in 1..m : x = removed[i]
  <2>1. PICK j \in 1..Len(ds) : ds[j] = x
    BY <1>6 DEF Contains
  <2>2. CASE j <= n
    <3>1. j \in 1..n
      BY <1>0, <2>2
    <3> QED
      BY <1>1, <2>1, <3>1 DEF Contains
  <2>3. CASE j > n
    <3>1. j - n \in 1..m /\ n + (j - n) = j
      BY <1>0, <2>3
    <3> QED
      BY <1>2, <2>1, <3>1
  <2> QED
    BY <1>0, <2>2, <2>3
<1> QED
  BY <1>1, <1>2, <1>4, <1>5, <1>6 DEF left, removed

\* The state that setCount leaves.
CountSet(t, n) ==
  LET old == Number(t, t.current)
      new == Min({old, n})
      left == SubSeq(t.desktops, 1, n)
      e == WithDesktops(t, left, left[new])
      v == IF old = new THEN e ELSE CurrentChanged(e, FALSE, None)
  IN CountChanged(DesktopsRemoved(v, t, SubSeq(t.desktops, n + 1, Len(t.desktops))))

\* setCount, if m_allClients has all windows of the removed desktops.
LEMMA CountSetSound ==
  ASSUME NEW t, Sound(t), NEW n \in 1..Len(t.desktops), n < Len(t.desktops),
         \A w \in Window, i \in (n + 1)..Len(t.desktops) :
           Contains(t.win[w].desks, t.desktops[i]) => Contains(t.clients, w)
  PROVE  LET u == CountSet(t, n)
         IN /\ StaysSound(t, u) /\ u.desktops # t.desktops
            /\ Matches(t) /\ u.current # t.current /\ u.active \in Window
                 => OnCurrentDesktop(u, u.active)
<1> DEFINE old == Number(t, t.current)
           new == Min({old, n})
           left == SubSeq(t.desktops, 1, n)
           removed == SubSeq(t.desktops, n + 1, Len(t.desktops))
           e == WithDesktops(t, left, left[new])
           v == IF old = new THEN e ELSE CurrentChanged(e, FALSE, None)
           r == DesktopsRemoved(v, t, removed)
           u == CountChanged(r)
<1>0. /\ t \in State /\ t.desktops \in Seq(Desktop) /\ IsInjective(t.desktops)
      /\ Contains(t.desktops, t.current) /\ Len(t.desktops) \in Nat /\ Alive(t)
  BY SoundWhole DEF Sound, Steady, Struct
<1>1. CountSet(t, n) = u
  BY DEF CountSet
<1>2. /\ left \in Seq(Desktop) /\ IsInjective(left) /\ Len(left) = n /\ Begins(t, left)
      /\ removed \in Seq(Desktop)
      /\ \A i \in 1..Len(removed) :
           /\ ~Contains(left, removed[i])
           /\ \E j \in (n + 1)..Len(t.desktops) : removed[i] = t.desktops[j]
      /\ \A x : Contains(t.desktops, x)
           => Contains(left, x) \/ \E i \in 1..Len(removed) : x = removed[i]
  <2>1. /\ left \in Seq(Desktop) /\ IsInjective(left) /\ Len(left) = n
        /\ \A i \in 1..n : left[i] = t.desktops[i]
        /\ removed \in Seq(Desktop)
        /\ \A i \in 1..Len(removed) :
             /\ ~Contains(left, removed[i])
             /\ \E j \in (n + 1)..Len(t.desktops) : removed[i] = t.desktops[j]
        /\ \A x : Contains(t.desktops, x)
             => Contains(left, x) \/ \E i \in 1..Len(removed) : x = removed[i]
    BY <1>0, DesktopsSplit
  <2> HIDE DEF left, removed
  <2> QED
    BY <2>1 DEF Begins
<1> HIDE DEF left, removed
<1>3. old \in 1..Len(t.desktops)
  BY <1>0, NumberOf
<1>4. new = IF old <= n THEN old ELSE n
  <2>1. old \in Nat /\ n \in Nat
    BY <1>0, <1>3
  <2> QED
    BY <2>1, MinOfTwo
<1>5. new \in 1..Len(left) /\ Len(left) <= Len(t.desktops)
  BY <1>0, <1>2, <1>3, <1>4
<1>o. old = Number(t, t.current)
  OBVIOUS
<1> HIDE DEF old, new
<1>6. Cut(t, e, left, left[new])
  BY <1>0, <1>2, <1>5, DesktopsCut
<1> HIDE DEF e
<1>7. /\ old = new => v = e
      /\ old # new => CurrentDone(e, v)
  BY DEF CurrentDone
<1> HIDE DEF v
<1>8. Whole(v) /\ v.win = t.win /\ v.desktops = left /\ v.clients = t.clients
  <2>1. Whole(v) /\ SameWindows(t, v) /\ v.desktops = left
    BY <1>6, <1>7, WindowsAfterChange
  <2> QED
    BY <2>1 DEF SameWindows
<1>9. /\ Moved(v, r)
      /\ \A w \in Window, i \in 1..Len(removed) :
           Contains(v.clients, w) => ~Contains(r.win[w].desks, removed[i])
  <2>1. ASSUME NEW i \in 1..Len(removed)
        PROVE  ~Contains(v.desktops, removed[i]) /\ Number(t, removed[i]) \in Nat \ {0}
    <3>1. PICK j \in (n + 1)..Len(t.desktops) : removed[i] = t.desktops[j]
      BY <1>2
    <3>2. j \in 1..Len(t.desktops)
      BY <1>0
    <3>3. Number(t, removed[i]) = j
      BY <1>0, <3>1, <3>2, NumberAt
    <3> QED
      BY <1>0, <1>2, <1>8, <3>2, <3>3, SMTT(30)
  <2> QED
    BY <1>2, <1>8, <2>1, AllRemoved
<1> HIDE DEF r
<1>10. ASSUME NEW w \in Window, NEW x, Contains(t.desktops, x), Contains(r.win[w].desks, x)
       PROVE  Contains(left, x)
  <2> SUFFICES ASSUME ~Contains(left, x) PROVE FALSE
    OBVIOUS
  <2>1. PICK i \in 1..Len(removed) : x = removed[i]
    BY <1>2, <1>10
  <2>2. PICK j \in (n + 1)..Len(t.desktops) : x = t.desktops[j]
    BY <1>2, <2>1
  <2>3. Contains(v.win[w].desks, x) \/ Contains(v.desktops, x)
    BY <1>9, <1>10 DEF Moved
  <2>4. Contains(t.clients, w)
    BY <1>8, <2>2, <2>3
  <2> QED
    BY <1>8, <1>9, <1>10, <2>1, <2>4
<1>11. Alive(r)
  BY <1>0, <1>8, <1>9, <1>10, AliveAfter
<1>12. /\ Sound(u) /\ u.desktops = left /\ u.current = left[new]
       /\ (/\ Begins(t, left) /\ ChainsMatch(t, None)
           /\ CurrentDone(e, v) \/ CurrentMatches(e))
            => /\ Matches(u)
               /\ (CurrentDone(e, v) /\ u.active \in Window) => OnCurrentDesktop(u, u.active)
  BY <1>6, <1>7, <1>9, <1>11, SettledSound
<1> HIDE DEF u
<1>13. u.desktops # t.desktops
  BY <1>0, <1>2, <1>12
<1>14. ASSUME Matches(t)
       PROVE  /\ Matches(u)
              /\ (u.current # t.current /\ u.active \in Window)
                   => OnCurrentDesktop(u, u.active)
  <2>1. Begins(t, left) /\ ChainsMatch(t, None) /\ CurrentMatches(t)
    BY <1>2, <1>14 DEF Matches
  <2>2. old = new => left[new] = t.current /\ (CurrentMatches(t) => CurrentMatches(e))
    BY <1>2, <1>5, <1>6, <1>o, <2>1, StaysAt
  <2> QED
    BY <1>7, <1>12, <2>1, <2>2
<1>15. StaysSound(t, u)
  BY <1>12, <1>14 DEF StaysSound
<1> QED
  BY <1>1, <1>13, <1>14, <1>15

-----------------------------------------------------------------------------
(* The operations on desktops.                                             *)

\* createVirtualDesktop; the numbers of the others stay when d is the last.
LEMMA DesktopCreated ==
  ASSUME NEW t, Sound(t), NEW d \in Desktop, NEW n \in 1..(Len(t.desktops) + 1),
         ~Contains(t.desktops, d), \A w \in Window : ~Contains(t.win[w].desks, d)
  PROVE  LET u == CountChanged([t EXCEPT !.desktops = InsertAt(@, n, d)])
         IN /\ Sound(u) /\ u.current = t.current
            /\ n = Len(t.desktops) + 1 /\ Matches(t) => Matches(u)
<1> DEFINE more == InsertAt(t.desktops, n, d)
           e == [t EXCEPT !.desktops = more]
           u == CountChanged(e)
           l == Len(t.desktops)
           k == Len(e.desktops)
<1>0. /\ t \in State /\ Struct(t) /\ Windows(t) /\ Listed(t, None) /\ ActiveOk(t)
      /\ Len(t.chains) = l /\ l \in Nat /\ t.desktops \in Seq(Desktop)
      /\ IsInjective(t.desktops) /\ Alive(t) /\ t.rows > 0 /\ Contains(t.desktops, t.current)
  BY SoundWhole DEF Sound, Steady, Struct
<1>1. [t EXCEPT !.desktops = InsertAt(@, n, d)] = e
  BY <1>0 DEF State
<1>2. /\ more \in Seq(Desktop) /\ Len(more) = l + 1 /\ IsInjective(more)
      /\ \A v : Contains(more, v) <=> Contains(t.desktops, v) \/ v = d
      /\ \A j \in 1..(l + 1) :
           more[j] = IF j < n THEN t.desktops[j] ELSE IF j = n THEN d ELSE t.desktops[j - 1]
  <2>1. /\ more \in Seq(Desktop) /\ Len(more) = l + 1
        /\ \A j \in 1..(l + 1) :
             more[j] = IF j < n THEN t.desktops[j]
                       ELSE IF j = n THEN d ELSE t.desktops[j - 1]
    <3>1. HasBeenInserted(more, Desktop, t.desktops, n, d)
      BY <1>0, Inserted
    <3> HIDE DEF more
    <3> QED
      BY <3>1 DEF HasBeenInserted
  <2>2. /\ \A v : Contains(more, v) <=> Contains(t.desktops, v) \/ v = d
        /\ IsInjective(t.desktops) /\ ~Contains(t.desktops, d) => IsInjective(more)
    BY <1>0, InsertedList
  <2> HIDE DEF more
  <2> QED
    BY <1>0, <2>1, <2>2
<1> HIDE DEF more
<1>3. /\ e \in State
      /\ e.desktops = more /\ e.current = t.current /\ e.rows = t.rows
      /\ e.recent = t.recent /\ e.clients = t.clients /\ e.fc_current = t.fc_current
      /\ e.mru = t.mru /\ e.chains = t.chains /\ e.win = t.win /\ SameFocus(t, e)
  BY <1>0, <1>2 DEF State, SameFocus
<1> HIDE DEF e
<1>4. Struct(e)
  <2>1. more # <<>>
    BY <1>0, <1>2
  <2> QED
    BY <1>0, <1>2, <1>3, <2>1 DEF Struct
<1>5. Windows(e)
  BY <1>0, <1>3 DEF Windows, IsShown, WantsFocus, SameFocus
<1>6. ActiveOk(e) /\ Listed(e, None) /\ e.rows > 0
  BY <1>0, <1>3 DEF ActiveOk, Listed, IsShown, WantsFocus, SameFocus
<1>7. /\ Whole(u) /\ Len(u.chains) = k /\ u.rows \in 1..k
      /\ u.desktops = e.desktops /\ u.current = e.current /\ u.win = e.win
      /\ u.mru = e.mru /\ u.fc_current = e.fc_current
      /\ \A i \in 1..k : u.chains[i] = IF i <= Len(e.chains) THEN e.chains[i] ELSE <<>>
      /\ u.recent[1] = IF e.recent[1] <= k THEN e.recent[1] ELSE k
  BY <1>4, <1>5, <1>6, CountAdjusted
<1> HIDE DEF u
<1>8. Alive(u)
  BY <1>0, <1>2, <1>3, <1>7 DEF Alive
<1>9. Sound(u) /\ u.current = t.current
  BY <1>3, <1>7, <1>8 DEF Sound, Steady, Whole
<1>10. ASSUME n = l + 1, Matches(t) PROVE Matches(u)
  <2>1. CurrentMatches(t) /\ ChainsMatch(t, None)
    BY <1>10 DEF Matches
  <2>2. k = l + 1 /\ \A i \in 1..l : u.desktops[i] = t.desktops[i]
    BY <1>0, <1>2, <1>3, <1>7, <1>10
  <2> HIDE DEF k
  <2>3. CurrentMatches(u)
    <3> DEFINE m == Number(t, t.current)
    <3>1. m \in 1..l /\ t.desktops[m] = t.current
      BY <1>0, NumberOf
    <3> HIDE DEF m
    <3>2. m \in 1..k /\ u.desktops[m] = u.current /\ k = Len(u.desktops)
      BY <1>0, <1>3, <1>7, <2>2, <3>1 DEF k
    <3>3. Number(u, u.current) = m
      <4>1. u \in State /\ IsInjective(u.desktops)
        BY <1>7 DEF Whole, Struct
      <4> QED
        BY <3>2, <4>1, NumberAt
    <3>4. t.recent[1] = m /\ t.fc_current = m
      BY <2>1 DEF CurrentMatches, m
    <3>5. u.recent[1] = m
      BY <1>0, <1>3, <1>7, <2>2, <3>1, <3>4
    <3> QED
      BY <1>3, <1>7, <3>3, <3>4, <3>5 DEF CurrentMatches
  <2>4. ChainsMatch(u, None)
    <3> SUFFICES ASSUME NEW i \in 1..Len(u.desktops), NEW w \in Window \ {None}
                 PROVE  /\ Contains(u.chains[i], w) => OnDesktop(u, w, i)
                        /\ Contains(u.mru, w) /\ OnDesktop(u, w, i) /\ ~OnAllDesktops(u, w)
                             => Contains(u.chains[i], w)
      BY DEF ChainsMatch
    <3>1. i \in 1..k /\ k = Len(u.desktops)
      BY <1>7 DEF k
    <3>2. CASE i <= l
      <4>1. i \in 1..l /\ u.chains[i] = t.chains[i]
        BY <1>0, <1>3, <1>7, <2>2, <3>1, <3>2
      <4>2. OnDesktop(u, w, i) = OnDesktop(t, w, i) /\ OnAllDesktops(u, w) = OnAllDesktops(t, w)
        BY <1>3, <1>7, <2>2, <3>1, <4>1 DEF OnDesktop, OnAllDesktops
      <4> QED
        BY <1>3, <1>7, <2>1, <4>1, <4>2 DEF ChainsMatch
    <3>3. CASE ~(i <= l)
      <4>1. i = l + 1 /\ u.chains[i] = <<>>
        BY <1>0, <1>3, <1>7, <2>2, <3>1, <3>3
      <4>2. u.desktops[i] = d
        BY <1>0, <1>2, <1>3, <1>7, <1>10, <4>1
      <4>3. ~Contains(u.chains[i], w)
        BY <4>1 DEF Contains
      <4>4. ~Contains(u.win[w].desks, u.desktops[i])
        BY <1>3, <1>7, <4>2
      <4> QED
        BY <4>3, <4>4 DEF OnDesktop
    <3> QED
      BY <3>2, <3>3
  <2> QED
    BY <2>3, <2>4 DEF Matches
<1> QED
  BY <1>1, <1>9, <1>10 DEF u

\* The invariant after an operation that may shift the numbers.
LEMMA InvOf ==
  ASSUME Inv, NEW u, s' = u, Sound(u), UNCHANGED <<shell, scenario>>,
         shifted' \in BOOLEAN, ~shifted' => Matches(u)
  PROVE  Inv'
<1>1. Sound(s)' = Sound(u) /\ Matches(s)' = Matches(u)
  BY DEF Sound, Steady, Matches, Struct, Windows, Listed, Alive, ActiveOk,
         CurrentMatches, ChainsMatch, IsShown, WantsFocus, OnDesktop, OnAllDesktops, Number
<1> QED
  BY <1>1 DEF Inv

\* createVirtualDesktop
LEMMA CreateVirtualDesktopKeeps ==
  ASSUME Inv, NEW n \in 1..(Len(s.desktops) + 1), NEW d \in Desktop,
         CreateVirtualDesktop(n, d)
  PROVE  Inv' /\ s'.current = s.current
<1> DEFINE u == CountChanged([s EXCEPT !.desktops = InsertAt(@, n, d)])
<1>1. /\ s' = u /\ UNCHANGED <<shell, scenario>>
      /\ shifted' = (shifted \/ n <= Len(s.desktops))
      /\ d \notin Range(s.desktops) /\ \A w \in Window : ~Contains(s.win[w].desks, d)
  BY DEF CreateVirtualDesktop
<1>2. Sound(s) /\ shifted \in BOOLEAN /\ s.desktops \in Seq(Desktop) /\ Len(s.desktops) \in Nat
  BY SoundWhole DEF Inv
<1>3. ~Contains(s.desktops, d)
  BY <1>1, <1>2 DEF Range, Contains
<1>4. /\ Sound(u) /\ u.current = s.current
      /\ n = Len(s.desktops) + 1 /\ Matches(s) => Matches(u)
  BY <1>1, <1>2, <1>3, DesktopCreated
<1> HIDE DEF u
<1>5. ~shifted' => Matches(u)
  <2>0. n <= Len(s.desktops) \/ n = Len(s.desktops) + 1
    BY <1>2
  <2>1. ~shifted' => ~shifted /\ n = Len(s.desktops) + 1
    BY <1>1, <2>0, Zenon
  <2> QED
    BY <1>4, <2>1 DEF Inv
<1> QED
  BY <1>1, <1>2, <1>4, <1>5, InvOf

\* The handler of desktopRemoved only knows the windows in m_allClients.
LEMMA HeldByClients ==
  ASSUME NEW d, EarlyRemoval = FALSE, Removable(d)
  PROVE  /\ Len(s.desktops) > 1
         /\ \A w \in Window : Contains(s.win[w].desks, d) => Contains(s.clients, w)
BY DEF Removable, HeldByNew

\* removeVirtualDesktop
LEMMA RemoveVirtualDesktopKeeps ==
  ASSUME Inv, EarlyRemoval = FALSE, NEW n \in 1..Len(s.desktops), RemoveVirtualDesktop(n)
  PROVE  /\ Inv' /\ s'.desktops # s.desktops
         /\ ~shifted' /\ s'.current # s.current /\ s'.active \in Window
              => OnCurrentDesktop(s', s'.active)
<1> DEFINE u == RemoveDesktop(s, n)
<1>1. /\ s' = u /\ UNCHANGED <<shell, scenario>>
      /\ shifted' = (shifted \/ n < Len(s.desktops)) /\ Removable(s.desktops[n])
  BY DEF RemoveVirtualDesktop
<1>2. Sound(s) /\ shifted \in BOOLEAN /\ Len(s.desktops) \in Nat
  BY SoundWhole DEF Inv
<1>3. /\ Len(s.desktops) > 1
      /\ \A w \in Window : Contains(s.win[w].desks, s.desktops[n]) => Contains(s.clients, w)
  BY <1>1, HeldByClients
<1>4. /\ Sound(u) /\ u.desktops # s.desktops
      /\ n = Len(s.desktops) /\ Matches(s)
           => /\ Matches(u)
              /\ (u.current # s.current /\ u.active \in Window)
                   => OnCurrentDesktop(u, u.active)
  BY <1>2, <1>3, RemovedSound
<1> HIDE DEF u
<1>5. ~shifted' => Matches(s) /\ n = Len(s.desktops)
  <2>1. n < Len(s.desktops) \/ n = Len(s.desktops)
    BY <1>2
  <2>2. ~shifted' => ~shifted /\ n = Len(s.desktops)
    BY <1>1, <2>1, Zenon
  <2> QED
    BY <2>2 DEF Inv
<1>6. Inv'
  BY <1>1, <1>2, <1>4, <1>5, InvOf
<1> QED
  BY <1>1, <1>4, <1>5, <1>6

\* setCount
LEMMA SetCountKeeps ==
  ASSUME Inv, EarlyRemoval = FALSE, NEW n \in 1..Len(s.desktops), SetCount(n)
  PROVE  /\ Inv' /\ s'.desktops # s.desktops
         /\ ~shifted' /\ s'.current # s.current /\ s'.active \in Window
              => OnCurrentDesktop(s', s'.active)
<1> DEFINE u == CountSet(s, n)
<1>1. /\ Step(u) /\ n < Len(s.desktops)
      /\ \A i \in (n + 1)..Len(s.desktops) : Removable(s.desktops[i])
  BY DEF SetCount, CountSet, WithDesktops
<1>2. Sound(s)
  BY DEF Inv
<1>3. \A w \in Window, i \in (n + 1)..Len(s.desktops) :
        Contains(s.win[w].desks, s.desktops[i]) => Contains(s.clients, w)
  BY <1>1, HeldByClients
<1>4. /\ StaysSound(s, u) /\ u.desktops # s.desktops
      /\ Matches(s) /\ u.current # s.current /\ u.active \in Window
           => OnCurrentDesktop(u, u.active)
  BY <1>1, <1>2, <1>3, CountSetSound
<1> HIDE DEF u
<1>5. Inv'
  BY <1>1, <1>4, StepSound
<1> QED
  BY <1>1, <1>4, <1>5 DEF Inv, Step

-----------------------------------------------------------------------------
(* The layout.                                                             *)

\* Rows of w places.
LEMMA Products ==
  ASSUME NEW w \in Nat
  PROVE  /\ \A a \in Nat : a * w \in Nat /\ (a + 1) * w = a * w + w
         /\ \A a, b \in Nat : a < b => a * w + w <= b * w
OBVIOUS

\* The grid has a column, and a place for every desktop.
LEMMA Wide ==
  ASSUME NEW l \in Nat \ {0}, NEW rows \in Nat \ {0}
  PROVE  Width(l, rows) \in Nat \ {0} /\ rows * Width(l, rows) >= l
<1> DEFINE S == {w \in (l \div rows)..l : w * rows >= l}
<1>1. l \div rows \in Nat /\ l \div rows <= l /\ l * rows >= l
  OBVIOUS
<1>2. S \in SUBSET Nat /\ l \in S
  BY <1>1
<1>3. Width(l, rows) = Min(S)
  BY DEF Width
<1>4. Min(S) \in S
  <2> HIDE DEF S
  <2> QED
    BY <1>2, MinIsLeast
<1>5. Min(S) \in Nat /\ Min(S) * rows >= l
  BY <1>2, <1>4
<1> HIDE DEF S
<1>6. Min(S) # 0 /\ rows * Min(S) = Min(S) * rows
  BY <1>5
<1> QED
  BY <1>3, <1>5, <1>6

\* The cell <<x, y>> of a grid of width w with rows rows has the desktop of
\* number n of l.
Place(x, y, w, rows, l, n) ==
  /\ x \in 0..(w - 1) /\ y \in 0..(rows - 1)
  /\ y * w + x < l /\ n = y * w + x + 1

\* Every desktop has a place.
LEMMA PlaceOf ==
  ASSUME NEW l \in Nat \ {0}, NEW rows \in Nat \ {0}, NEW w \in Nat \ {0}, rows * w >= l
  PROVE  \A n \in 1..l : \E x, y \in Nat : Place(x, y, w, rows, l, n)
<1> DEFINE Bad == {n \in 1..l : ~\E x, y \in Nat : Place(x, y, w, rows, l, n)}
<1> SUFFICES ASSUME Bad # {} PROVE FALSE
  OBVIOUS
<1>1. PICK n \in Bad : \A m \in Bad : n <= m
  <2>1. Bad \in SUBSET Nat
    OBVIOUS
  <2> HIDE DEF Bad
  <2> QED
    BY <2>1, Least
<1>2. n \in 1..l /\ ~\E x, y \in Nat : Place(x, y, w, rows, l, n)
  BY <1>1
<1>3. n # 1
  <2>1. Place(0, 0, w, rows, l, 1)
    BY DEF Place
  <2> QED
    BY <1>2, <2>1
<1>4. n - 1 \in 1..l /\ n - 1 \notin Bad
  <2>1. n - 1 \in 1..l /\ ~(n <= n - 1)
    BY <1>2, <1>3
  <2> HIDE DEF Bad
  <2> QED
    BY <1>1, <2>1
<1>5. PICK x, y \in Nat : Place(x, y, w, rows, l, n - 1)
  BY <1>4
<1> HIDE DEF Bad
<1> DEFINE p == y * w
<1>6. /\ x \in 0..(w - 1) /\ y \in 0..(rows - 1)
      /\ p + x < l /\ n - 1 = p + x + 1
  BY <1>5 DEF Place
<1>7. p \in Nat /\ (y + 1) * w = p + w
  BY Products
<1>8. CASE x + 1 < w
  <2>1. /\ x + 1 \in Nat /\ x + 1 \in 0..(w - 1) /\ p + (x + 1) < l
        /\ n = p + (x + 1) + 1
    <3> HIDE DEF p
    <3> QED
      BY <1>2, <1>6, <1>7, <1>8
  <2>2. Place(x + 1, y, w, rows, l, n)
    BY <1>6, <2>1 DEF Place
  <2> QED
    BY <1>2, <2>1, <2>2
<1>9. CASE ~(x + 1 < w)
  <2> DEFINE q == (y + 1) * w
  <2>1. q = p + w /\ y + 1 \in Nat
    BY <1>7
  <2> HIDE DEF p, q
  <2>2. x = w - 1 /\ n = q + 0 + 1 /\ q + 0 < l
    BY <1>2, <1>6, <1>7, <1>9, <2>1
  <2>3. y + 1 \in 0..(rows - 1)
    <3>1. y + 1 # rows
      <4> SUFFICES ASSUME y + 1 = rows PROVE FALSE
        OBVIOUS
      <4>1. q = rows * w
        BY DEF q
      <4> HIDE DEF q
      <4>2. q \in Nat
        BY <1>7, <2>1
      <4> QED
        BY <2>2, <4>1, <4>2
    <3> QED
      BY <1>6, <3>1
  <2>4. Place(0, y + 1, w, rows, l, n)
    BY <2>2, <2>3 DEF Place, q
  <2> QED
    BY <1>2, <2>1, <2>4
<1> QED
  BY <1>8, <1>9

\* A desktop has one place: division with remainder is unique.
LEMMA PlaceUnique ==
  ASSUME NEW l, NEW rows, NEW w \in Nat \ {0}, NEW n,
         NEW x \in Nat, NEW y \in Nat, NEW a \in Nat, NEW b \in Nat,
         Place(x, y, w, rows, l, n), Place(a, b, w, rows, l, n)
  PROVE  x = a /\ y = b
<1> DEFINE p == y * w
           q == b * w
<1>1. p \in Nat /\ q \in Nat /\ (y < b => p + w <= q) /\ (b < y => q + w <= p)
  BY Products
<1>2. p + x + 1 = q + a + 1 /\ x < w /\ a < w
  BY DEF Place
<1>3. y = b => p = q
  OBVIOUS
<1> HIDE DEF p, q
<1>4. ~(y < b) /\ ~(b < y)
  BY <1>1, <1>2
<1> QED
  BY <1>1, <1>2, <1>3, <1>4

\* The loops of toRight and toLeft, and of below and above.
LEMMA ForthAndBack ==
  ASSUME NEW m \in Nat, NEW S \in SUBSET (0..m), NEW i \in S, NEW wrap \in BOOLEAN
  PROVE  /\ Forth(i, S, wrap) \in S
         /\ wrap \/ Forth(i, S, wrap) # i => Back(Forth(i, S, wrap), S, wrap) = i
<1> DEFINE later == {j \in S : j > i}
           f == Forth(i, S, wrap)
           sooner == {j \in S : j < f}
<1>0. later \in SUBSET Nat /\ S \in SUBSET Nat /\ S # {} /\ \A j \in S : j \in Nat
  <2>1. \A j \in S : j \in 0..m
    OBVIOUS
  <2>2. \A j \in S : j \in Nat
    BY <2>1
  <2> QED
    BY <2>2
<1>1. S # {} => Min(S) \in S /\ \A n \in S : Min(S) <= n
  BY <1>0, MinIsLeast
<1>2. Max(S) \in S /\ \A n \in S : n <= Max(S)
  BY <1>0, MaxIsGreatest
<1>3. Back(f, S, wrap) = IF sooner # {} THEN Max(sooner) ELSE IF wrap THEN Max(S) ELSE f
  BY DEF Back
<1>4. sooner # {} => Max(sooner) \in sooner /\ \A n \in sooner : n <= Max(sooner)
  <2>1. sooner \in SUBSET (0..m)
    OBVIOUS
  <2> HIDE DEF sooner
  <2> QED
    BY <2>1, MaxIsGreatest
<1>5. CASE later # {}
  <2>1. f = Min(later)
    BY <1>5 DEF Forth
  <2>2. Min(later) \in later /\ \A n \in later : Min(later) <= n
    <3> HIDE DEF later
    <3> QED
      BY <1>0, <1>5, MinIsLeast
  <2> HIDE DEF f
  <2>3. f \in S /\ f > i /\ \A n \in S : n > i => f <= n
    BY <2>1, <2>2
  <2>4. i \in sooner /\ \A n \in sooner : n <= i
    BY <1>0, <2>3
  <2>5. Max(sooner) = i
    <3>1. Max(sooner) \in Nat
      BY <1>0, <1>4, <2>4
    <3> HIDE DEF sooner
    <3>2. Max(sooner) <= i /\ i <= Max(sooner)
      BY <1>4, <2>4
    <3> QED
      BY <1>0, <3>1, <3>2
  <2> QED
    BY <1>3, <2>3, <2>4, <2>5 DEF f
<1>6. CASE later = {}
  <2>1. \A n \in S : n <= i
    BY <1>0, <1>6
  <2>2. Max(S) = i
    <3>1. Max(S) \in Nat /\ i \in Nat
      BY <1>0, <1>2
    <3>2. Max(S) <= i /\ i <= Max(S)
      BY <1>2, <2>1
    <3> QED
      BY <3>1, <3>2
  <2>3. CASE wrap
    <3>1. f = Min(S)
      BY <1>6, <2>3 DEF Forth
    <3> HIDE DEF f
    <3>2. sooner = {}
      <4> SUFFICES ASSUME NEW j \in S, j < f PROVE FALSE
        OBVIOUS
      <4>1. f <= j /\ f \in Nat /\ j \in Nat
        BY <1>0, <1>1, <3>1
      <4> QED
        BY <4>1
    <3> QED
      BY <1>0, <1>1, <1>3, <2>2, <2>3, <3>1, <3>2 DEF f
  <2>4. CASE ~wrap
    <3>1. f = i
      BY <1>6, <2>4 DEF Forth
    <3> QED
      BY <2>4, <3>1
  <2> QED
    BY <2>3, <2>4
<1> QED
  BY <1>5, <1>6

\* The same the other way round.
LEMMA BackAndForth ==
  ASSUME NEW m \in Nat, NEW S \in SUBSET (0..m), NEW i \in S, NEW wrap \in BOOLEAN
  PROVE  /\ Back(i, S, wrap) \in S
         /\ wrap \/ Back(i, S, wrap) # i => Forth(Back(i, S, wrap), S, wrap) = i
<1> DEFINE sooner == {j \in S : j < i}
           f == Back(i, S, wrap)
           later == {j \in S : j > f}
<1>0. later \in SUBSET Nat /\ S \in SUBSET Nat /\ S # {} /\ \A j \in S : j \in Nat
  <2>1. \A j \in S : j \in 0..m
    OBVIOUS
  <2>2. \A j \in S : j \in Nat
    BY <2>1
  <2> QED
    BY <2>2
<1>1. S # {} => Min(S) \in S /\ \A n \in S : Min(S) <= n
  BY <1>0, MinIsLeast
<1>2. Max(S) \in S /\ \A n \in S : n <= Max(S)
  BY <1>0, MaxIsGreatest
<1>3. Forth(f, S, wrap) = IF later # {} THEN Min(later) ELSE IF wrap THEN Min(S) ELSE f
  BY DEF Forth
<1>4. later # {} => Min(later) \in later /\ \A n \in later : Min(later) <= n
  <2> HIDE DEF later
  <2> QED
    BY <1>0, MinIsLeast
<1>5. CASE sooner # {}
  <2>1. f = Max(sooner)
    BY <1>5 DEF Back
  <2>2. Max(sooner) \in sooner /\ \A n \in sooner : n <= Max(sooner)
    <3>1. sooner \in SUBSET (0..m)
      OBVIOUS
    <3> HIDE DEF sooner
    <3> QED
      BY <1>5, <3>1, MaxIsGreatest
  <2> HIDE DEF f
  <2>3. f \in S /\ f < i /\ \A n \in S : n < i => n <= f
    BY <2>1, <2>2
  <2>4. i \in later /\ \A n \in later : i <= n
    BY <1>0, <2>3
  <2>5. Min(later) = i
    <3>1. Min(later) \in Nat
      BY <1>0, <1>4, <2>4
    <3> HIDE DEF later
    <3>2. Min(later) <= i /\ i <= Min(later)
      BY <1>4, <2>4
    <3> QED
      BY <1>0, <3>1, <3>2
  <2> QED
    BY <1>3, <2>3, <2>4, <2>5 DEF f
<1>6. CASE sooner = {}
  <2>1. \A n \in S : i <= n
    BY <1>0, <1>6
  <2>2. Min(S) = i
    <3>1. Min(S) \in Nat /\ i \in Nat
      BY <1>0, <1>1
    <3>2. Min(S) <= i /\ i <= Min(S)
      BY <1>0, <1>1, <2>1
    <3> QED
      BY <3>1, <3>2
  <2>3. CASE wrap
    <3>1. f = Max(S)
      BY <1>6, <2>3 DEF Back
    <3> HIDE DEF f
    <3>2. later = {}
      <4> SUFFICES ASSUME NEW j \in S, j > f PROVE FALSE
        OBVIOUS
      <4>1. j <= f /\ f \in Nat /\ j \in Nat
        BY <1>0, <1>2, <3>1
      <4> QED
        BY <4>1
    <3> QED
      BY <1>0, <1>2, <1>3, <2>2, <2>3, <3>1, <3>2 DEF f
  <2>4. CASE ~wrap
    <3>1. f = i
      BY <1>6, <2>4 DEF Back
    <3> QED
      BY <2>4, <3>1
  <2> QED
    BY <2>3, <2>4
<1> QED
  BY <1>5, <1>6

\* A place has one of the desktops.
LEMMA PlaceNumber ==
  ASSUME NEW l \in Nat, NEW rows \in Nat, NEW w \in Nat, NEW x \in Nat, NEW y \in Nat,
         NEW n, Place(x, y, w, rows, l, n)
  PROVE  n \in 1..l
<1> DEFINE p == y * w
<1>1. p \in Nat
  BY Products
<1>2. p + x < l /\ n = p + x + 1
  BY DEF Place
<1> HIDE DEF p
<1> QED
  BY <1>1, <1>2

\* The desktop of number n is in the cell <<x, y>>.
OnGrid(D, rows, x, y, n) ==
  x \in Nat /\ y \in Nat /\ Place(x, y, Width(Len(D), rows), rows, Len(D), n)

\* A layout as updateLayout leaves it.
Layout(D, rows) ==
  /\ D \in Seq(Desktop) /\ IsInjective(D) /\ rows \in Nat
  /\ Width(Len(D), rows) \in Nat \ {0}

\* gridCoords is the place of a desktop.
LEMMA CoordsOf ==
  ASSUME NEW D, NEW rows, Layout(D, rows), NEW x, NEW y, NEW n, OnGrid(D, rows, x, y, n)
  PROVE  GridCoords(D, rows, D[n]) = <<x, y>>
<1> DEFINE c == GridCoords(D, rows, D[n])
           l == Len(D)
           w == Width(l, rows)
<1>0. /\ l \in Nat /\ D \in Seq(Desktop) /\ IsInjective(D) /\ rows \in Nat
      /\ w \in Nat \ {0} /\ x \in Nat /\ y \in Nat /\ Place(x, y, w, rows, l, n)
  BY DEF Layout, OnGrid
<1>w. w = Width(Len(D), rows)
  OBVIOUS
<1> HIDE DEF w
<1>1. <<x, y>> \in Cells(D, rows) /\ At(D, rows, <<x, y>>) = D[n]
  BY <1>0, <1>w DEF Place, Cells, At
<1>2. c \in Cells(D, rows) /\ At(D, rows, c) = D[n]
  BY <1>1 DEF GridCoords
<1> HIDE DEF c
<1>3. PICK a \in 0..(w - 1), b \in 0..(rows - 1) : c = <<a, b>> /\ b * w + a < l
  BY <1>0, <1>2, <1>w DEF Cells
<1> DEFINE m == b * w + a + 1
<1>4. a \in Nat /\ b \in Nat /\ Place(a, b, w, rows, l, m)
  BY <1>0, <1>3 DEF Place
<1>5. m \in 1..l /\ n \in 1..l
  BY <1>0, <1>4, PlaceNumber
<1>6. D[m] = D[n]
  BY <1>2, <1>3, <1>w DEF At
<1> HIDE DEF m
<1>7. m = n
  BY <1>0, <1>5, <1>6 DEF IsInjective
<1>8. x = a /\ y = b
  BY <1>0, <1>4, <1>7, PlaceUnique
<1> QED
  BY <1>1, <1>3, <1>8 DEF c

\* The places of a row that have a desktop; the last row may be shorter.
Row(l, w, y) == {i \in 0..(w - 1) : y * w + i < l}

\* The places of a column that have a desktop.
Column(l, w, rows, x) == {j \in 0..(rows - 1) : j * w + x < l}

\* Where moveTo leads from the desktop at <<x, y>>.
LEMMA MoveFrom ==
  ASSUME NEW D, NEW rows, Layout(D, rows), NEW x, NEW y, NEW n, OnGrid(D, rows, x, y, n),
         NEW wrap \in BOOLEAN
  PROVE  LET w == Width(Len(D), rows)
             row == Row(Len(D), w, y)
             column == Column(Len(D), w, rows, x)
         IN /\ Move(D, rows, D[n], "right", wrap) = D[y * w + Forth(x, row, wrap) + 1]
            /\ Move(D, rows, D[n], "left", wrap) = D[y * w + Back(x, row, wrap) + 1]
            /\ Move(D, rows, D[n], "below", wrap) = D[Forth(y, column, wrap) * w + x + 1]
            /\ Move(D, rows, D[n], "above", wrap) = D[Back(y, column, wrap) * w + x + 1]
            /\ Move(D, rows, D[n], "next", wrap) = D[Forth(n, 1..Len(D), wrap)]
            /\ Move(D, rows, D[n], "previous", wrap) = D[Back(n, 1..Len(D), wrap)]
<1> DEFINE c == GridCoords(D, rows, D[n])
           l == Len(D)
           w == Width(l, rows)
           row == {b[1] : b \in {b \in Cells(D, rows) : b[2] = c[2]}}
           column == {b[2] : b \in {b \in Cells(D, rows) : b[1] = c[1]}}
           i == c[2] * w + c[1] + 1
<1>1. c = <<x, y>>
  BY CoordsOf
<1>0. /\ l \in Nat /\ D \in Seq(Desktop) /\ rows \in Nat
      /\ w \in Nat \ {0} /\ x \in Nat /\ y \in Nat /\ Place(x, y, w, rows, l, n)
  BY DEF Layout, OnGrid
<1>w. w = Width(Len(D), rows)
  OBVIOUS
<1>5. /\ Move(D, rows, D[n], "right", wrap) = At(D, rows, <<Forth(c[1], row, wrap), c[2]>>)
      /\ Move(D, rows, D[n], "left", wrap) = At(D, rows, <<Back(c[1], row, wrap), c[2]>>)
      /\ Move(D, rows, D[n], "below", wrap) = At(D, rows, <<c[1], Forth(c[2], column, wrap)>>)
      /\ Move(D, rows, D[n], "above", wrap) = At(D, rows, <<c[1], Back(c[2], column, wrap)>>)
      /\ Move(D, rows, D[n], "next", wrap) = D[Forth(i, 1..Len(D), wrap)]
      /\ Move(D, rows, D[n], "previous", wrap) = D[Back(i, 1..Len(D), wrap)]
  BY DEF Move
<1> HIDE DEF w
<1>c. c[1] = x /\ c[2] = y
  BY <1>1
<1>2. i = n
  BY <1>0, <1>c DEF Place
<1>3. row = Row(l, w, y)
  <2>1. ASSUME NEW a \in row PROVE a \in Row(l, w, y)
    <3>1. PICK b \in Cells(D, rows) : b[2] = c[2] /\ a = b[1]
      BY <2>1
    <3> HIDE DEF c
    <3> QED
      BY <1>0, <1>w, <1>c, <3>1 DEF Cells, Row
  <2>2. ASSUME NEW a \in Row(l, w, y) PROVE a \in row
    <3>1. <<a, y>> \in Cells(D, rows)
      BY <1>0, <1>w, <2>2 DEF Cells, Row, Place
    <3> HIDE DEF c
    <3> QED
      BY <1>c, <3>1
  <2> QED
    BY <2>1, <2>2
<1>4. column = Column(l, w, rows, x)
  <2>1. ASSUME NEW a \in column PROVE a \in Column(l, w, rows, x)
    <3>1. PICK b \in Cells(D, rows) : b[1] = c[1] /\ a = b[2]
      BY <2>1
    <3> HIDE DEF c
    <3> QED
      BY <1>0, <1>w, <1>c, <3>1 DEF Cells, Column
  <2>2. ASSUME NEW a \in Column(l, w, rows, x) PROVE a \in column
    <3>1. <<x, a>> \in Cells(D, rows)
      BY <1>0, <1>w, <2>2 DEF Cells, Column, Place
    <3> HIDE DEF c
    <3> QED
      BY <1>c, <3>1
  <2> QED
    BY <2>1, <2>2
<1> HIDE DEF c, row, column, i, l
<1>6. \A a, b : At(D, rows, <<a, b>>) = D[b * w + a + 1]
  BY <1>w DEF At
<1> QED
  BY <1>c, <1>2, <1>3, <1>4, <1>5, <1>6, <1>w DEF l

\* The way from n in a direction and back, and the desktop there.
Returns(D, rows, n, direction, wrap) ==
  LET there == Move(D, rows, D[n], direction, wrap)
  IN /\ Contains(D, there)
     /\ wrap \/ there # D[n] => Move(D, rows, there, Opposite[direction], wrap) = D[n]

\* toRight and toLeft undo each other.
LEMMA ReturnsInRow ==
  ASSUME NEW D, NEW rows, Layout(D, rows), NEW x, NEW y, NEW n, OnGrid(D, rows, x, y, n),
         NEW wrap \in BOOLEAN
  PROVE  Returns(D, rows, n, "right", wrap) /\ Returns(D, rows, n, "left", wrap)
<1> DEFINE l == Len(D)
           w == Width(l, rows)
           row == Row(l, w, y)
<1>0. /\ l \in Nat /\ D \in Seq(Desktop) /\ rows \in Nat
      /\ w \in Nat \ {0} /\ x \in Nat /\ y \in Nat /\ Place(x, y, w, rows, l, n)
  BY DEF Layout, OnGrid
<1>w. w = Width(Len(D), rows)
  OBVIOUS
<1>1. /\ row \in SUBSET (0..w) /\ x \in row /\ w \in Nat
      /\ n = y * w + x + 1
  <2> HIDE DEF w
  <2> QED
    BY <1>0 DEF Row, Place
<1>2. ASSUME NEW a \in row
      PROVE  LET m == y * w + a + 1
             IN /\ OnGrid(D, rows, a, y, m) /\ Contains(D, D[m])
                /\ Move(D, rows, D[m], "right", wrap) = D[y * w + Forth(a, row, wrap) + 1]
                /\ Move(D, rows, D[m], "left", wrap) = D[y * w + Back(a, row, wrap) + 1]
  <2> DEFINE m == y * w + a + 1
  <2>1. a \in Nat /\ Place(a, y, w, rows, l, m)
    <3> HIDE DEF w
    <3> QED
      BY <1>0, <1>2 DEF Row, Place
  <2>2. OnGrid(D, rows, a, y, m)
    BY <1>0, <2>1 DEF OnGrid
  <2>3. m \in 1..l
    BY <1>0, <2>1, PlaceNumber
  <2> HIDE DEF m
  <2>4. /\ Move(D, rows, D[m], "right", wrap) = D[y * w + Forth(a, row, wrap) + 1]
        /\ Move(D, rows, D[m], "left", wrap) = D[y * w + Back(a, row, wrap) + 1]
    BY <2>2, MoveFrom
  <2>5. Contains(D, D[m])
    BY <1>0, <2>3 DEF Contains
  <2> QED
    BY <2>2, <2>4, <2>5 DEF m
<1> HIDE DEF row, w, l
<1>3. Returns(D, rows, n, "right", wrap)
  <2> DEFINE f == Forth(x, row, wrap)
  <2>1. f \in row /\ (wrap \/ f # x => Back(f, row, wrap) = x)
    BY <1>1, ForthAndBack
  <2> DEFINE m == y * w + f + 1
  <2>2. Move(D, rows, D[n], "right", wrap) = D[m]
    BY <1>1, <1>2
  <2> HIDE DEF f
  <2>3. Contains(D, D[m]) /\ Move(D, rows, D[m], "left", wrap) = D[y * w + Back(f, row, wrap) + 1]
    BY <1>2, <2>1
  <2>4. f = x => D[m] = D[n]
    BY <1>1
  <2> HIDE DEF m
  <2> QED
    BY <1>1, <2>1, <2>2, <2>3, <2>4 DEF Returns, Opposite
<1>4. Returns(D, rows, n, "left", wrap)
  <2> DEFINE f == Back(x, row, wrap)
  <2>1. f \in row /\ (wrap \/ f # x => Forth(f, row, wrap) = x)
    BY <1>1, BackAndForth
  <2> DEFINE m == y * w + f + 1
  <2>2. Move(D, rows, D[n], "left", wrap) = D[m]
    BY <1>1, <1>2
  <2> HIDE DEF f
  <2>3. Contains(D, D[m]) /\ Move(D, rows, D[m], "right", wrap) = D[y * w + Forth(f, row, wrap) + 1]
    BY <1>2, <2>1
  <2>4. f = x => D[m] = D[n]
    BY <1>1
  <2> HIDE DEF m
  <2> QED
    BY <1>1, <2>1, <2>2, <2>3, <2>4 DEF Returns, Opposite
<1> QED
  BY <1>3, <1>4

\* below and above undo each other.
LEMMA ReturnsInColumn ==
  ASSUME NEW D, NEW rows, Layout(D, rows), NEW x, NEW y, NEW n, OnGrid(D, rows, x, y, n),
         NEW wrap \in BOOLEAN
  PROVE  Returns(D, rows, n, "below", wrap) /\ Returns(D, rows, n, "above", wrap)
<1> DEFINE l == Len(D)
           w == Width(l, rows)
           column == Column(l, w, rows, x)
<1>0. /\ l \in Nat /\ D \in Seq(Desktop) /\ rows \in Nat
      /\ w \in Nat \ {0} /\ x \in Nat /\ y \in Nat /\ Place(x, y, w, rows, l, n)
  BY DEF Layout, OnGrid
<1>w. w = Width(Len(D), rows)
  OBVIOUS
<1>1. /\ column \in SUBSET (0..rows) /\ y \in column
      /\ n = y * w + x + 1
  <2> HIDE DEF w
  <2> QED
    BY <1>0 DEF Column, Place
<1>2. ASSUME NEW a \in column
      PROVE  LET m == a * w + x + 1
             IN /\ OnGrid(D, rows, x, a, m) /\ Contains(D, D[m])
                /\ Move(D, rows, D[m], "below", wrap) = D[Forth(a, column, wrap) * w + x + 1]
                /\ Move(D, rows, D[m], "above", wrap) = D[Back(a, column, wrap) * w + x + 1]
  <2> DEFINE m == a * w + x + 1
  <2>1. a \in Nat /\ Place(x, a, w, rows, l, m)
    <3> HIDE DEF w
    <3> QED
      BY <1>0, <1>2 DEF Column, Place
  <2>2. OnGrid(D, rows, x, a, m)
    BY <1>0, <2>1 DEF OnGrid
  <2>3. m \in 1..l
    BY <1>0, <2>1, PlaceNumber
  <2> HIDE DEF m
  <2>4. /\ Move(D, rows, D[m], "below", wrap) = D[Forth(a, column, wrap) * w + x + 1]
        /\ Move(D, rows, D[m], "above", wrap) = D[Back(a, column, wrap) * w + x + 1]
    BY <2>2, MoveFrom
  <2>5. Contains(D, D[m])
    BY <1>0, <2>3 DEF Contains
  <2> QED
    BY <2>2, <2>4, <2>5 DEF m
<1> HIDE DEF column, w, l
<1>3. Returns(D, rows, n, "below", wrap)
  <2> DEFINE f == Forth(y, column, wrap)
  <2>1. f \in column /\ (wrap \/ f # y => Back(f, column, wrap) = y)
    BY <1>0, <1>1, ForthAndBack
  <2> DEFINE m == f * w + x + 1
  <2>2. Move(D, rows, D[n], "below", wrap) = D[m]
    BY <1>1, <1>2
  <2> HIDE DEF f
  <2>3. Contains(D, D[m]) /\ Move(D, rows, D[m], "above", wrap) = D[Back(f, column, wrap) * w + x + 1]
    BY <1>2, <2>1
  <2>4. f = y => D[m] = D[n]
    BY <1>1
  <2> HIDE DEF m
  <2> QED
    BY <1>1, <2>1, <2>2, <2>3, <2>4 DEF Returns, Opposite
<1>4. Returns(D, rows, n, "above", wrap)
  <2> DEFINE f == Back(y, column, wrap)
  <2>1. f \in column /\ (wrap \/ f # y => Forth(f, column, wrap) = y)
    BY <1>0, <1>1, BackAndForth
  <2> DEFINE m == f * w + x + 1
  <2>2. Move(D, rows, D[n], "above", wrap) = D[m]
    BY <1>1, <1>2
  <2> HIDE DEF f
  <2>3. Contains(D, D[m]) /\ Move(D, rows, D[m], "below", wrap) = D[Forth(f, column, wrap) * w + x + 1]
    BY <1>2, <2>1
  <2>4. f = y => D[m] = D[n]
    BY <1>1
  <2> HIDE DEF m
  <2> QED
    BY <1>1, <2>1, <2>2, <2>3, <2>4 DEF Returns, Opposite
<1> QED
  BY <1>3, <1>4

\* next and previous undo each other.
LEMMA ReturnsInOrder ==
  ASSUME NEW D, NEW rows, Layout(D, rows), NEW n \in 1..Len(D),
         \A m \in 1..Len(D) : \E x, y \in Nat : OnGrid(D, rows, x, y, m),
         NEW wrap \in BOOLEAN
  PROVE  Returns(D, rows, n, "next", wrap) /\ Returns(D, rows, n, "previous", wrap)
<1> DEFINE l == Len(D)
           S == 1..l
<1>0. l \in Nat /\ D \in Seq(Desktop)
  BY DEF Layout
<1>1. S \in SUBSET (0..l) /\ n \in S
  BY <1>0
<1>2. ASSUME NEW m \in S
      PROVE  /\ Contains(D, D[m])
             /\ Move(D, rows, D[m], "next", wrap) = D[Forth(m, S, wrap)]
             /\ Move(D, rows, D[m], "previous", wrap) = D[Back(m, S, wrap)]
  <2>1. PICK x \in Nat, y \in Nat : OnGrid(D, rows, x, y, m)
    BY <1>2
  <2>2. /\ Move(D, rows, D[m], "next", wrap) = D[Forth(m, S, wrap)]
        /\ Move(D, rows, D[m], "previous", wrap) = D[Back(m, S, wrap)]
    BY <2>1, MoveFrom
  <2> QED
    BY <1>0, <2>2 DEF Contains
<1> HIDE DEF S, l
<1>3. Returns(D, rows, n, "next", wrap)
  <2> DEFINE f == Forth(n, S, wrap)
  <2>1. f \in S /\ (wrap \/ f # n => Back(f, S, wrap) = n)
    BY <1>0, <1>1, ForthAndBack
  <2>2. Move(D, rows, D[n], "next", wrap) = D[f]
    BY <1>1, <1>2
  <2> HIDE DEF f
  <2>3. Contains(D, D[f]) /\ Move(D, rows, D[f], "previous", wrap) = D[Back(f, S, wrap)]
    BY <1>2, <2>1
  <2> QED
    BY <2>1, <2>2, <2>3 DEF Returns, Opposite
<1>4. Returns(D, rows, n, "previous", wrap)
  <2> DEFINE f == Back(n, S, wrap)
  <2>1. f \in S /\ (wrap \/ f # n => Forth(f, S, wrap) = n)
    BY <1>0, <1>1, BackAndForth
  <2>2. Move(D, rows, D[n], "previous", wrap) = D[f]
    BY <1>1, <1>2
  <2> HIDE DEF f
  <2>3. Contains(D, D[f]) /\ Move(D, rows, D[f], "next", wrap) = D[Forth(f, S, wrap)]
    BY <1>2, <2>1
  <2> QED
    BY <2>1, <2>2, <2>3 DEF Returns, Opposite
<1> QED
  BY <1>3, <1>4

\* All directions, from every desktop.
LEMMA AllReturn ==
  ASSUME NEW t, Sound(t), NEW n \in 1..Len(t.desktops), NEW direction \in DOMAIN Opposite,
         NEW wrap \in BOOLEAN
  PROVE  Returns(t.desktops, t.rows, n, direction, wrap)
<1> DEFINE D == t.desktops
           l == Len(D)
           w == Width(l, t.rows)
<1>1. /\ D \in Seq(Desktop) /\ IsInjective(D) /\ l \in Nat \ {0}
      /\ t.rows \in Nat \ {0}
  BY SoundWhole DEF Sound, Steady, Struct
<1>2. w \in Nat \ {0} /\ t.rows * w >= l
  BY <1>1, Wide
<1>3. \A m \in 1..l : \E x, y \in Nat : Place(x, y, w, t.rows, l, m)
  <2> HIDE DEF w, l
  <2> QED
    BY <1>1, <1>2, PlaceOf
<1>4. Layout(D, t.rows)
  BY <1>1, <1>2 DEF Layout
<1>5. \A m \in 1..Len(D) : \E x, y \in Nat : OnGrid(D, t.rows, x, y, m)
  BY <1>3 DEF OnGrid
<1>6. PICK x \in Nat, y \in Nat : OnGrid(D, t.rows, x, y, n)
  BY <1>5
<1> HIDE DEF D, l, w
<1>7. n \in 1..Len(D)
  BY DEF D
<1>8. Returns(D, t.rows, n, "next", wrap) /\ Returns(D, t.rows, n, "previous", wrap)
  BY <1>4, <1>5, <1>7, ReturnsInOrder
<1>9. Returns(D, t.rows, n, "right", wrap) /\ Returns(D, t.rows, n, "left", wrap)
  BY <1>4, <1>6, ReturnsInRow
<1>10. Returns(D, t.rows, n, "below", wrap) /\ Returns(D, t.rows, n, "above", wrap)
  BY <1>4, <1>6, ReturnsInColumn
<1>11. direction \in {"right", "left", "below", "above", "next", "previous"}
  BY DEF Opposite
<1> QED
  BY <1>8, <1>9, <1>10, <1>11 DEF D

\* moveTo ends on a desktop that there is.
LEMMA MoveArrives ==
  ASSUME NEW t, Sound(t), NEW direction \in DOMAIN Opposite, NEW wrap \in BOOLEAN
  PROVE  Contains(t.desktops, Move(t.desktops, t.rows, t.current, direction, wrap))
<1>1. PICK n \in 1..Len(t.desktops) : t.current = t.desktops[n]
  BY DEF Sound, Steady, Struct, Contains
<1>2. Returns(t.desktops, t.rows, n, direction, wrap)
  BY AllReturn
<1> QED
  BY <1>1, <1>2 DEF Returns

\* moveTo
LEMMA NavigateKeeps ==
  ASSUME Inv, NEW direction \in DOMAIN Opposite, NEW wrap \in BOOLEAN,
         Navigate(direction, wrap)
  PROVE  Inv'
<1> DEFINE d == Move(s.desktops, s.rows, s.current, direction, wrap)
<1>1. Sound(s) /\ Step(SetCurrent(s, d, FALSE, None))
  BY DEF Inv, Navigate
<1>2. Contains(s.desktops, d)
  BY <1>1, MoveArrives
<1> HIDE DEF d
<1>3. StaysSound(s, SetCurrent(s, d, FALSE, None))
  BY <1>1, <1>2, SwitchSound
<1> QED
  BY <1>1, <1>3, StepSound

\* windowToDesktop
LEMMA WindowToDesktopKeeps ==
  ASSUME Inv, NEW direction \in DOMAIN Opposite, WindowToDesktop(direction)
  PROVE  Inv'
<1> DEFINE d == Move(s.desktops, s.rows, s.current, direction, TRUE)
<1>1. Sound(s) /\ s.active \in Window /\ Step(SetCurrent(s, d, TRUE, s.active))
  BY DEF Inv, WindowToDesktop
<1>2. ASSUME NEW wrap \in BOOLEAN
      PROVE  Contains(s.desktops, Move(s.desktops, s.rows, s.current, direction, wrap))
  BY <1>1, MoveArrives
<1>3. Contains(s.desktops, d)
  BY <1>2
<1> HIDE DEF d
<1>4. StaysSound(s, SetCurrent(s, d, TRUE, s.active))
  BY <1>1, <1>3, TakenAlong
<1> QED
  BY <1>1, <1>4, StepSound

-----------------------------------------------------------------------------
(* The steps.                                                              *)

\* What SwitchActivates says of a step.
SwitchesWell ==
  (s'.current # s.current /\ ~shifted')
  => /\ s'.active \in Window => OnCurrentDesktop(s', s'.active)
     /\ (/\ s'.desktops = s.desktops
         /\ s.active \in Window => ~OnAllDesktops(s, s.active)
         /\ \E w \in Window : /\ IsShown(s', w) /\ WantsFocus(s', w)
                              /\ OnCurrentDesktop(s', w) /\ ~OnAllDesktops(s', w))
        => s'.active \in Window

\* A window on desktop d that takes the focus is in the chain of d.
LEMMA Switching ==
  ASSUME NEW t, Sound(t), ChainsMatch(t, None), NEW d, Contains(t.desktops, d), d # t.current
  PROVE  LET u == SetCurrent(t, d, FALSE, None)
         IN /\ u.active \in Window => OnCurrentDesktop(u, u.active)
            /\ (\E w \in Window : /\ IsShown(u, w) /\ WantsFocus(u, w)
                                  /\ OnCurrentDesktop(u, w) /\ ~OnAllDesktops(u, w))
               => u.active \in Window
<1> DEFINE u == SetCurrent(t, d, FALSE, None)
           n == Number(t, d)
<1>1. /\ Struct(t) /\ Windows(t) /\ ActiveOk(t) /\ Len(t.desktops) <= Len(t.chains)
      /\ Listed(t, None) /\ t \in State
  BY SoundWhole DEF Whole
<1>2. ASSUME NEW b \in BOOLEAN
      PROVE  LET v == SetCurrent(t, d, b, None)
             IN Arrived(t, v, d) /\ (~b /\ Candidate(t, d) => v.active \in Window)
  BY <1>1, SwitchedTo
<1>3. Arrived(t, u, d) /\ (Candidate(t, d) => u.active \in Window)
  BY <1>2
<1> HIDE DEF u
<1>4. /\ u.desktops = t.desktops /\ u.win = t.win /\ u.current = d
      /\ u.active \in Window => Contains(t.chains[n], u.active)
  BY <1>3 DEF Arrived
<1>5. n \in 1..Len(t.desktops) /\ Number(u, u.current) = n
  <2>1. n \in 1..Len(t.desktops)
    BY <1>1, NumberOf
  <2> QED
    BY <1>4, <2>1 DEF Number
<1> HIDE DEF n
<1>6. \A w \in Window : /\ OnCurrentDesktop(u, w) <=> OnDesktop(t, w, n)
                        /\ OnAllDesktops(u, w) <=> OnAllDesktops(t, w)
                        /\ IsShown(u, w) <=> IsShown(t, w)
                        /\ WantsFocus(u, w) <=> WantsFocus(t, w)
  BY <1>4, <1>5 DEF OnCurrentDesktop, OnDesktop, OnAllDesktops, IsShown, WantsFocus
<1>7. \A w \in Window : /\ Contains(t.chains[n], w) => OnDesktop(t, w, n)
                        /\ Contains(t.mru, w) /\ OnDesktop(t, w, n) /\ ~OnAllDesktops(t, w)
                             => Contains(t.chains[n], w)
  BY <1>5, WorkspaceAssumption DEF ChainsMatch
<1>8. u.active \in Window => OnCurrentDesktop(u, u.active)
  BY <1>4, <1>6, <1>7
<1>9. ASSUME NEW w \in Window, IsShown(u, w), WantsFocus(u, w),
             OnCurrentDesktop(u, w), ~OnAllDesktops(u, w)
      PROVE  u.active \in Window
  <2>1. Contains(t.mru, w)
    BY <1>1, <1>6, <1>9, WorkspaceAssumption DEF Listed
  <2>2. Contains(t.chains[n], w)
    BY <1>6, <1>7, <1>9, <2>1
  <2>3. Candidate(t, d)
    BY <1>6, <1>9, <2>2 DEF Candidate, n
  <2> QED
    BY <1>3, <2>3
<1> QED
  BY <1>8, <1>9 DEF u

\* A step that only calls setCurrent.
LEMMA StepSwitches ==
  ASSUME Inv, NEW d, Contains(s.desktops, d), Step(SetCurrent(s, d, FALSE, None))
  PROVE  SwitchesWell
<1> DEFINE u == SetCurrent(s, d, FALSE, None)
<1>1. s' = u /\ shifted' = shifted
  BY DEF Step
<1>2. CASE d = s.current
  <2>1. s' = s
    BY <1>1, <1>2 DEF SetCurrent
  <2> QED
    BY <2>1 DEF SwitchesWell
<1>3. CASE d # s.current /\ shifted
  BY <1>1, <1>3 DEF SwitchesWell
<1>4. CASE d # s.current /\ ~shifted
  <2>1. Sound(s) /\ ChainsMatch(s, None)
    BY <1>4 DEF Inv, Matches
  <2>2. /\ u.active \in Window => OnCurrentDesktop(u, u.active)
        /\ (\E w \in Window : /\ IsShown(u, w) /\ WantsFocus(u, w)
                              /\ OnCurrentDesktop(u, w) /\ ~OnAllDesktops(u, w))
           => u.active \in Window
    BY <1>4, <2>1, Switching
  <2> HIDE DEF u
  <2> QED
    BY <1>1, <2>2 DEF SwitchesWell
<1> QED
  BY <1>2, <1>3, <1>4

\* A switch to a desktop leaves the right window active.
LEMMA SwitchToSwitches ==
  ASSUME Inv, NEW n \in 1..Len(s.desktops), SwitchTo(s.desktops[n])
  PROVE  SwitchesWell
<1>1. Contains(s.desktops, s.desktops[n])
  BY SoundWhole DEF Inv, Contains
<1> QED
  BY <1>1, StepSwitches DEF SwitchTo

\* So does moveTo.
LEMMA NavigateSwitches ==
  ASSUME Inv, NEW direction \in DOMAIN Opposite, NEW wrap \in BOOLEAN,
         Navigate(direction, wrap)
  PROVE  SwitchesWell
<1> DEFINE d == Move(s.desktops, s.rows, s.current, direction, wrap)
<1>1. Sound(s) /\ Step(SetCurrent(s, d, FALSE, None))
  BY DEF Inv, Navigate
<1>2. Contains(s.desktops, d)
  BY <1>1, MoveArrives
<1> HIDE DEF d
<1> QED
  BY <1>1, <1>2, StepSwitches

\* windowToDesktop leaves a window active on the desktop that it leads to.
LEMMA WindowToDesktopSwitches ==
  ASSUME Inv, NEW direction \in DOMAIN Opposite, WindowToDesktop(direction)
  PROVE  SwitchesWell
<1> DEFINE d == Move(s.desktops, s.rows, s.current, direction, TRUE)
           u == SetCurrent(s, d, TRUE, s.active)
<1>1. Sound(s) /\ s.active \in Window /\ Step(u)
  BY DEF Inv, WindowToDesktop
<1>2. ASSUME NEW wrap \in BOOLEAN
      PROVE  Contains(s.desktops, Move(s.desktops, s.rows, s.current, direction, wrap))
  BY <1>1, MoveArrives
<1>3. Contains(s.desktops, d)
  BY <1>2
<1> HIDE DEF d
<1>4. s' = u /\ shifted' = shifted
  BY <1>1 DEF Step
<1>5. CASE d = s.current
  <2>1. s' = s
    BY <1>4, <1>5 DEF SetCurrent
  <2> QED
    BY <2>1 DEF SwitchesWell
<1>6. CASE d # s.current
  <2>1. ChainsMatch(s, None)
          => /\ u.active \in Window => OnCurrentDesktop(u, u.active)
             /\ ~OnAllDesktops(s, s.active) => u.active \in Window
    BY <1>1, <1>3, <1>6, TakenAlong
  <2> HIDE DEF u
  <2>2. ~shifted => ChainsMatch(s, None)
    BY DEF Inv, Matches
  <2> QED
    BY <1>1, <1>4, <2>1, <2>2 DEF SwitchesWell
<1> QED
  BY <1>5, <1>6

\* A step of one window.
LEMMA WindowStep ==
  ASSUME Inv, NEW w \in Window, WindowNext(w)
  PROVE  Inv' /\ SwitchesWell
<1>1. Inv' /\ (s'.current = s.current \/ (s'.active = w /\ OnCurrentDesktop(s', w)))
  <2>1. CASE CreateToplevel(w)
    BY <2>1, CreateKeeps
  <2>2. CASE Commit(w)
    BY <2>2, CommitKeeps
  <2>3. CASE Unmap(w)
    BY <2>3, UnmapKeeps
  <2>4. CASE Destroy(w)
    BY <2>4, DestroyKeeps
  <2>5. CASE Minimize(w)
    BY <2>5, MinimizeKeeps
  <2>6. CASE Unminimize(w)
    BY <2>6, UnminimizeKeeps
  <2>7. CASE Click(w)
    BY <2>7, ClickKeeps
  <2>8. CASE Activate(w)
    BY <2>8, ActivateKeeps
  <2>9. CASE ToggleOnAllDesktops(w)
    BY <2>9, ToggleOnAllDesktopsKeeps
  <2>10. ASSUME NEW n \in 1..Len(s.desktops), SendToDesktop(w, n)
         PROVE  Inv' /\ s'.current = s.current
    BY <2>10, SendToDesktopKeeps
  <2>11. ASSUME NEW n \in 1..Len(s.desktops), ToggleOnDesktop(w, s.desktops[n])
         PROVE  Inv' /\ s'.current = s.current
    BY <2>11, ToggleOnDesktopKeeps
  <2> QED
    BY <2>1, <2>2, <2>3, <2>4, <2>5, <2>6, <2>7, <2>8, <2>9, <2>10, <2>11 DEF WindowNext
<1> QED
  BY <1>1 DEF SwitchesWell

\* A step of the desktops.
LEMMA DesktopStep ==
  ASSUME Inv, EarlyRemoval = FALSE, DesktopNext
  PROVE  Inv' /\ SwitchesWell
<1>1. ASSUME NEW n \in 1..Len(s.desktops), SwitchTo(s.desktops[n])
      PROVE  Inv' /\ SwitchesWell
  BY <1>1, SwitchToKeeps, SwitchToSwitches
<1>2. ASSUME NEW n \in 1..Len(s.desktops), RemoveVirtualDesktop(n)
      PROVE  Inv' /\ SwitchesWell
  <2>1. /\ Inv' /\ s'.desktops # s.desktops
        /\ ~shifted' /\ s'.current # s.current /\ s'.active \in Window
              => OnCurrentDesktop(s', s'.active)
    BY <1>2, RemoveVirtualDesktopKeeps
  <2> QED
    BY <2>1 DEF SwitchesWell
<1>3. ASSUME NEW n \in 1..Len(s.desktops), SetCount(n)
      PROVE  Inv' /\ SwitchesWell
  <2>1. /\ Inv' /\ s'.desktops # s.desktops
        /\ ~shifted' /\ s'.current # s.current /\ s'.active \in Window
              => OnCurrentDesktop(s', s'.active)
    BY <1>3, SetCountKeeps
  <2> QED
    BY <2>1 DEF SwitchesWell
<1>4. ASSUME NEW n \in 1..Len(s.desktops), SetRows(n)
      PROVE  Inv' /\ SwitchesWell
  <2>1. Inv' /\ s'.current = s.current
    BY <1>4, SetRowsKeeps
  <2> QED
    BY <2>1 DEF SwitchesWell
<1>5. ASSUME NEW n \in 1..(Len(s.desktops) + 1), NEW d \in Desktop, CreateVirtualDesktop(n, d)
      PROVE  Inv' /\ SwitchesWell
  <2>1. Inv' /\ s'.current = s.current
    BY <1>5, CreateVirtualDesktopKeeps
  <2> QED
    BY <2>1 DEF SwitchesWell
<1>6. ASSUME NEW direction \in DOMAIN Opposite, WindowToDesktop(direction)
      PROVE  Inv' /\ SwitchesWell
  BY <1>6, WindowToDesktopKeeps, WindowToDesktopSwitches
<1>7. ASSUME NEW direction \in DOMAIN Opposite, NEW wrap \in BOOLEAN, Navigate(direction, wrap)
      PROVE  Inv' /\ SwitchesWell
  BY <1>7, NavigateKeeps, NavigateSwitches
<1> QED
  BY <1>1, <1>2, <1>3, <1>4, <1>5, <1>6, <1>7 DEF DesktopNext

\* Nothing happens.
LEMMA Stuttering ==
  ASSUME Inv, UNCHANGED vars
  PROVE  Inv' /\ SwitchesWell
<1>1. s' = s /\ shell' = shell /\ shifted' = shifted /\ scenario' = scenario
  BY DEF vars
<1>2. Sound(s)' = Sound(s) /\ Matches(s)' = Matches(s)
  BY <1>1 DEF Sound, Steady, Matches, Struct, Windows, Listed, Alive, ActiveOk,
              CurrentMatches, ChainsMatch, IsShown, WantsFocus, OnDesktop, OnAllDesktops,
              Number
<1> QED
  BY <1>1, <1>2 DEF Inv, SwitchesWell

\* Every step keeps the invariant, and does what SwitchActivates asks of it.
LEMMA StepKeeps ==
  ASSUME EarlyRemoval = FALSE, Inv, [Next]_vars
  PROVE  Inv' /\ SwitchesWell
<1>1. CASE UNCHANGED vars
  BY <1>1, Stuttering
<1>2. ASSUME NEW w \in Window, WindowNext(w)
      PROVE  Inv' /\ SwitchesWell
  BY <1>2, WindowStep
<1>3. CASE DesktopNext
  BY <1>3, DesktopStep
<1> QED
  BY <1>1, <1>2, <1>3 DEF Next

\* VirtualDesktopManager::load with one desktop, and no windows.
LEMMA InitSound ==
  ASSUME Init
  PROVE  Inv
<1> DEFINE chains == <<<<>>>>
           start(d) == [desktops |-> <<d>>, current |-> d, rows |-> 1,
            recent |-> <<1>>, win |-> [w \in Window |-> Absent],
            clients |-> <<>>, active |-> None, last_active |-> None,
            mru |-> <<>>, chains |-> <<<<>>>>, fc_active |-> None,
            fc_current |-> 1]
<1>1. PICK d \in Desktop : s = start(d)
  BY DEF Init
<1>2. /\ s.desktops = <<d>> /\ s.current = d /\ s.rows = 1 /\ s.recent = <<1>>
      /\ s.win = [w \in Window |-> Absent] /\ s.clients = <<>> /\ s.active = None
      /\ s.last_active = None /\ s.mru = <<>> /\ s.chains = <<<<>>>>
      /\ s.fc_active = None /\ s.fc_current = 1
  BY <1>1
<1>3. Absent \in Toplevel /\ Absent.desks = <<>> /\ ~Absent.mapped /\ ~Absent.buffer
      /\ ~Absent.exists
  <2>1. <<>> \in Seq(Desktop)
    OBVIOUS
  <2> QED
    BY <2>1 DEF Absent, Toplevel
<1>4. /\ <<d>> \in Seq(Desktop) /\ <<1>> \in Seq(Nat) /\ <<>> \in Seq(Window)
      /\ Len(<<d>>) = 1 /\ Len(<<1>>) = 1 /\ <<d>>[1] = d /\ <<1>>[1] = 1
  OBVIOUS
<1>5. /\ s.chains \in Seq(Seq(Window)) /\ Len(s.chains) = 1 /\ s.chains[1] = <<>>
  <2> DEFINE empty == <<>>
  <2>1. empty \in Seq(Window) /\ s.chains = <<empty>>
    BY <1>2, <1>4
  <2> HIDE DEF empty
  <2> QED
    BY <2>1 DEF empty
<1>6. s \in State
  <2>1. None \in Focusable /\ 1 \in Nat
    BY DEF Focusable
  <2>2. [w \in Window |-> Absent] \in [Window -> Toplevel]
    BY <1>3
  <2>3. start(d) \in State
    <3> DEFINE c == s.chains
    <3> HIDE DEF c
    <3>1. start(d) = [desktops |-> <<d>>, current |-> d, rows |-> 1,
            recent |-> <<1>>, win |-> [w \in Window |-> Absent],
            clients |-> <<>>, active |-> None, last_active |-> None,
            mru |-> <<>>, chains |-> c, fc_active |-> None,
            fc_current |-> 1]
      BY <1>2 DEF c
    <3>2. c \in Seq(Seq(Window))
      BY <1>5 DEF c
    <3> HIDE DEF start
    <3> QED
      BY <1>4, <2>1, <2>2, <3>1, <3>2 DEF State
  <2> QED
    BY <1>1, <2>3
<1>7. /\ IsInjective(<<>>) /\ IsInjective(<<d>>) /\ \A v : ~Contains(<<>>, v)
      /\ \A v : Contains(<<d>>, v) <=> v = d
  BY DEF IsInjective, Contains
<1>8. Number(s, s.current) = 1
  <2>1. Contains(s.desktops, s.current)
    BY <1>2, <1>7
  <2>2. Number(s, s.current) \in 1..Len(s.desktops)
    BY <1>6, <2>1, NumberOf
  <2> QED
    BY <1>2, <1>4, <2>2
<1> HIDE DEF start
<1>9. Struct(s)
  BY <1>2, <1>3, <1>4, <1>5, <1>6, <1>7 DEF Struct
<1>10. Windows(s)
  BY <1>2, <1>3, <1>5, <1>7, WorkspaceAssumption DEF Windows, WantsFocus, IsShown
<1>11. Listed(s, None) /\ Alive(s) /\ ActiveOk(s)
  BY <1>2, <1>3, <1>7, WorkspaceAssumption DEF Listed, Alive, ActiveOk, WantsFocus
<1>12. Matches(s)
  <2>1. CurrentMatches(s)
    BY <1>2, <1>4, <1>8 DEF CurrentMatches
  <2>2. ChainsMatch(s, None)
    BY <1>2, <1>4, <1>5, <1>7 DEF ChainsMatch
  <2> QED
    BY <2>1, <2>2 DEF Matches
<1>13. s.rows \in 1..Len(s.desktops) /\ Len(s.chains) = Len(s.desktops)
  BY <1>2, <1>4, <1>5
<1> QED
  BY <1>9, <1>10, <1>11, <1>12, <1>13 DEF Inv, Sound, Steady, Init

-----------------------------------------------------------------------------
(* The theorems.                                                           *)

\* The invariant implies each of the invariants that matter.
LEMMA InvRefers ==
  ASSUME Inv
  PROVE  ReferencesAlive
<1>1. /\ s \in State /\ Struct(s) /\ Windows(s) /\ Alive(s) /\ ActiveOk(s)
      /\ Len(s.chains) = Len(s.desktops)
  BY DEF Inv, Sound, Steady, Struct
<1>2. /\ s.mru \in Seq(Window) /\ s.chains \in Seq(Seq(Window))
      /\ s.active \in Focusable /\ s.last_active \in Focusable
      /\ \A n \in 1..Len(s.chains) : s.chains[n] \in Seq(Window)
      /\ \A w \in Window : s.win[w].desks \in Seq(Desktop)
      /\ s.desktops \in Seq(Desktop)
  BY <1>1 DEF State, Toplevel
<1>3. ActiveIsShown
  BY <1>1 DEF ActiveIsShown, ActiveOk
<1>4. ASSUME NEW w \in Range(s.mru) PROVE s.win[w].exists
  <2>a. PICK i \in DOMAIN s.mru : s.mru[i] = w
    BY <1>4 DEF Range
  <2>b. i \in 1..Len(s.mru) /\ w \in Window
    BY <1>2, <2>a
  <2>1. w \in Window /\ Contains(s.mru, w)
    BY <2>a, <2>b DEF Contains
  <2> QED
    BY <1>1, <2>1 DEF Windows
<1>5. ASSUME NEW n \in DOMAIN s.chains, NEW w \in Range(s.chains[n]) PROVE s.win[w].exists
  <2>1. n \in 1..Len(s.chains)
    BY <1>2
  <2>2. w \in Window /\ Contains(s.chains[n], w)
    BY <1>2, <1>5, <2>1 DEF Range, Contains
  <2> QED
    BY <1>1, <2>1, <2>2 DEF Windows
<1>6. \A w \in {s.active, s.last_active} \ {None, Shell} : w \in Window /\ s.win[w].exists
  <2>1. \A w \in Window : s.win[w].buffer => s.win[w].exists
    BY <1>1 DEF Windows
  <2> QED
    BY <1>1, <1>2, <2>1 DEF Windows, Focusable, ActiveOk, IsShown
<1>7. s.fc_active = s.active
  BY <1>1 DEF ActiveOk
<1>8. NoDanglingWindow
  BY <1>4, <1>5, <1>6, <1>7 DEF NoDanglingWindow
<1>9. DesktopsAlive
  <2> SUFFICES ASSUME NEW w \in Window, NEW d \in Range(s.win[w].desks)
               PROVE  d \in Range(s.desktops)
    BY DEF DesktopsAlive
  <2>1. Contains(s.win[w].desks, d)
    BY <1>2 DEF Range, Contains
  <2>2. Contains(s.desktops, d)
    BY <1>1, <2>1 DEF Alive
  <2> QED
    BY <1>2, <2>2 DEF Range, Contains
<1> QED
  BY <1>3, <1>8, <1>9 DEF ReferencesAlive

\* The same for the chains.
LEMMA InvChains ==
  ASSUME Inv
  PROVE  ChainsMatchDesktops
<1>1. /\ s \in State /\ Struct(s) /\ Len(s.chains) = Len(s.desktops)
      /\ shifted \in BOOLEAN /\ (~shifted => CurrentMatches(s) /\ ChainsMatch(s, None))
  BY DEF Inv, Sound, Steady, Struct, Matches
<1>2. /\ s.recent \in Seq(Nat) /\ s.chains \in Seq(Seq(Window))
  BY <1>1 DEF State
<1>3. CurrentKnown
  <2>1. Len(s.recent) = Len(s.desktops)
    BY <1>1 DEF Struct
  <2>2. Range(s.recent) \subseteq 1..Len(s.desktops)
    BY <1>1, <1>2 DEF Struct, Range
  <2> QED
    BY <1>1, <2>1, <2>2 DEF CurrentKnown, CurrentMatches
<1>4. IsInjective(s.mru)
  BY <1>1 DEF Struct
<1>5. ASSUME NEW n \in DOMAIN s.chains PROVE n \in 1..Len(s.desktops) /\ IsInjective(s.chains[n])
  BY <1>1, <1>2 DEF Struct
<1>6. ASSUME ~shifted, NEW n \in DOMAIN s.chains, NEW w \in Window
      PROVE  /\ Contains(s.chains[n], w) => OnDesktop(s, w, n)
             /\ Contains(s.mru, w) /\ OnDesktop(s, w, n) /\ ~OnAllDesktops(s, w)
                  => Contains(s.chains[n], w)
  BY <1>1, <1>5, <1>6, WorkspaceAssumption DEF ChainsMatch
<1> QED
  BY <1>3, <1>4, <1>5, <1>6 DEF ChainsMatchDesktops

\* The same for the layout.
LEMMA InvReturns ==
  ASSUME Inv
  PROVE  NavigationReturns
<1> SUFFICES ASSUME NEW n \in 1..Len(s.desktops), NEW dir \in DOMAIN Opposite,
                    NEW wrap \in BOOLEAN
             PROVE  LET d == s.desktops[n]
                        there == Move(s.desktops, s.rows, d, dir, wrap)
                    IN wrap \/ there # d
                         => Move(s.desktops, s.rows, there, Opposite[dir], wrap) = d
  BY DEF NavigationReturns
<1>1. Sound(s)
  BY DEF Inv
<1>2. Returns(s.desktops, s.rows, n, dir, wrap)
  BY <1>1, AllReturn
<1> QED
  BY <1>2 DEF Returns

\* The same for the types.
LEMMA InvTypes ==
  ASSUME Inv
  PROVE  TypeOK
BY DEF Inv, Sound, Steady, Struct, TypeOK

\* The invariant holds as long as desktops are not removed from under windows
\* that are not yet in m_allClients.
THEOREM WorkspaceSound ==
  ASSUME EarlyRemoval = FALSE
  PROVE  Spec => []Inv
<1>1. Inv /\ [Next]_vars => Inv'
  BY StepKeeps
<1> QED
  BY <1>1, InitSound, PTL DEF Spec

\* The state of the workspace has its types, and the layout has between one row
\* and as many rows as desktops, whatever windows and desktops come and go.
THEOREM WorkspaceTypes ==
  ASSUME EarlyRemoval = FALSE
  PROVE  Spec => []TypeOK
BY WorkspaceSound, InvTypes, PTL

\* However many windows and desktops there are, and in whichever order they come
\* and go: the lists, chains and pointers that name a window let go of it when it
\* is destroyed, no window stays on a removed desktop, and a window that is hidden
\* is not active.
THEOREM AllReferencesAlive ==
  ASSUME EarlyRemoval = FALSE
  PROVE  Spec => []ReferencesAlive
BY WorkspaceSound, InvRefers, PTL

\* FocusChain's chains have the windows of their desktops, and each at most once,
\* under any sequence of the operations on windows and desktops that does not
\* renumber the desktops.
THEOREM ChainsAlwaysMatch ==
  ASSUME EarlyRemoval = FALSE
  PROVE  Spec => []ChainsMatchDesktops
BY WorkspaceSound, InvChains, PTL

\* One goes back the way one came, in grids of any size, with a last row of any
\* length: the loops of toRight, toLeft, above and below skip the same places.
THEOREM WayBack ==
  ASSUME EarlyRemoval = FALSE
  PROVE  Spec => []NavigationReturns
BY WorkspaceSound, InvReturns, PTL

\* setCurrent, moveTo, windowToDesktop, activateClient, removeVirtualDesktop and
\* setCount leave a window of the new current desktop active, if one is to be had
\* there.
THEOREM EverySwitchActivates ==
  ASSUME EarlyRemoval = FALSE
  PROVE  Spec => SwitchActivates
<1>1. Inv /\ [Next]_vars => [SwitchesWell]_vars
  BY StepKeeps
<1>2. SwitchActivates <=> [][SwitchesWell]_vars
  BY PTL DEF SwitchActivates, SwitchesWell
<1> QED
  BY <1>1, <1>2, WorkspaceSound, PTL DEF Spec

\* What ActivationSucceeds says of a step.
LEMMA ActivatesEach ==
  ASSUME Inv
  PROVE  \A w \in Window : Activate(w) => s'.active = w /\ OnCurrentDesktop(s', w)
BY ActivateKeeps

\* activateClient ends with the window active on the current desktop, also when it
\* is minimised, or on other desktops than the current one.
THEOREM EveryActivationSucceeds ==
  ASSUME EarlyRemoval = FALSE
  PROVE  Spec => ActivationSucceeds
<1>1. Inv /\ [Next]_vars
        => [\A w \in Window : Activate(w) => s'.active = w /\ OnCurrentDesktop(s', w)]_vars
  BY ActivatesEach
<1> QED
  BY <1>1, WorkspaceSound, PTL DEF Spec, ActivationSucceeds
=============================================================================
