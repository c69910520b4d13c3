---------------------------- MODULE FutureProofs ----------------------------
(***************************************************************************)
(* Proofs about Future, for every set of futures and threads and every      *)
(* graph of continuations.  The code has no lock, so the inductive          *)
(* invariant says of every pending call what its future looks like (CallOK) *)
(* and which other calls may be pending (Compatible): at most one call at a *)
(* time owns a future.  Around them are what the lists, the callbacks and   *)
(* the results of a future say of its parents.  Each action is then shown   *)
(* to keep the calls it does not make and to justify those it makes.        *)
(*                                                                          *)
(* The values are not void: two threads can crash a void promise, as the    *)
(* run future_void shows.                                                   *)
(***************************************************************************)
EXTENDS Future, Integers, FiniteSetTheorems, FunctionTheorems, SequenceTheorems, TLAPS

(* No argument of WhenAll or WhenAny has a second continuation: MultiPost   *)
(* moves the argument's error away, which the other one would read.         *)
ArgumentsAreNotShared ==
  \A d, e \in Edge : IsMultiPost(e[2]) /\ d[1] = e[1] => d = e

(* A continuation of one parent, which waits in a list and is posted once.  *)
Single(f) == Kind[f] \in {"then", "share", "copy", "token"}
(* The only parent of such a continuation.                                  *)
Parent(f) == Parents[f][1]

-----------------------------------------------------------------------------
(* The calls on the stacks.                                                 *)

CallOps == {"TryStartSetValue", "TrySetSuccess", "TryStartSetError", "SetFailed", "Invoke",
            "Task", "TrySetPosted"}
(* The calls that work on the list of a parent.                             *)
ListOps == {"AddContinuation", "PostContinuation"}
(* Every call a stack may hold.                                             *)
Calls == [op : CallOps, f : Future, crash : BOOLEAN, sync : BOOLEAN]
           \cup [op : ListOps, f : Future, parent : Future]

(* Some stack of s holds the call r.                                        *)
At(s, r) == \E t \in Thread : \E i \in DOMAIN s[t] : s[t][i] = r

(* The call that alone decides what becomes of its future.                  *)
Owns(r) ==
  \/ r.op \in {"TrySetSuccess", "SetFailed"}
  \/ Single(r.f) /\ r.op \in {"Invoke", "Task", "TryStartSetValue", "TryStartSetError"}
  \/ Kind[r.f] = "whenAll" /\ r.op = "TryStartSetValue"

(* The call ~FutureImpl makes: nobody else has the promise.                 *)
Abandons(r) == r.op = "TryStartSetError" /\ Kind[r.f] = "promise" /\ r.crash

(* May a and b be pending at the same time?                                 *)
Compatible(a, b) ==
  /\ a.op \in ListOps /\ b.op \in ListOps /\ a.parent = b.parent => a.f # b.f
  /\ a.op = "AddContinuation" /\ b.op = "AddContinuation" /\ a.parent = b.parent => IsShared(a.parent)
  /\ Owns(a) /\ Owns(b) => a.f # b.f
  /\ Abandons(a) \/ Abandons(b) => a.f # b.f

(* No two pending calls exclude each other.                                 *)
CallsCompatible(s) ==
  \A t, u \in Thread : \A i \in DOMAIN s[t] : \A j \in DOMAIN s[u] :
    t # u \/ i # j => Compatible(s[t][i], s[u][j])

-----------------------------------------------------------------------------
(* What the state says about a future.                                      *)

(* c is posted: it has its parent's value or its parent's error.            *)
HasInput(c) ==
  IF hasError[c] THEN state[Parent(c)] = "Failed"
  ELSE state[Parent(c)] = "Succeeded" /\ link[c] = Parent(c)

(* What the parents have to say for f to succeed.                           *)
MaySucceedByParents(f) ==
  /\ Kind[f] \in {"copy", "share"} => state[Parent(f)] = "Succeeded"
  /\ Kind[f] = "share" => link[f] = Parent(f)
  /\ Kind[f] = "whenAny" => \E i \in DOMAIN Parents[f] : state[Parents[f][i]] = "Succeeded"
  /\ Kind[f] = "whenAll" => \A i \in DOMAIN Parents[f] :
       state[Parents[f][i]] = "Succeeded" /\ delivered[<<Parents[f][i], f>>] # 0

(* What the parents have to say for f to fail.                              *)
MayFailByParents(f) ==
  /\ Kind[f] \in {"copy", "share"} => state[Parent(f)] = "Failed"
  /\ IsMultiPost(f) => \E i \in DOMAIN Parents[f] : state[Parents[f][i]] = "Failed"

(* c waits for p and was not posted for it yet.                             *)
Waits(p, c) ==
  /\ <<p, c>> \in Edge /\ c \in created /\ delivered[<<p, c>>] = 0
  /\ Single(c) => state[c] = "Pending"

(* No continuation in a list is followed by c.                              *)
NotNext(c) == \A x \in Future : Single(x) /\ state[x] = "Pending" => link[x] # c

(* What the future of a pending call looks like when the call is made: the  *)
(* conditions the code relies on without checking, or checks with a crash.  *)
CallOK(r) ==
  /\ r.op \in ListOps => Waits(r.parent, r.f) /\ NotNext(r.f) /\ head[r.parent] # r.f
  /\ r.op = "AddContinuation" =>
       IsShared(r.parent) \/ Kind[r.f] = "share" \/ head[r.parent] = Null
  /\ r.op = "PostContinuation" => IsDone(r.parent)
  /\ r.op \in {"Invoke", "Task", "TrySetPosted"} => Single(r.f)
  /\ r.op = "Invoke" => state[r.f] \in {"Posting", "Posted"} /\ HasInput(r.f)
  /\ r.op = "Task" => state[r.f] = "Invoking" /\ HasInput(r.f)
  /\ r.op = "TryStartSetValue" =>
       /\ Kind[r.f] # "share" /\ MaySucceedByParents(r.f)
       /\ Single(r.f) => IF r.crash THEN r.sync /\ state[r.f] = "Invoking" ELSE state[r.f] = "Awaiting"
       /\ Kind[r.f] \in {"promise", "whenAny"} => ~r.crash
       /\ Kind[r.f] = "whenAll" => state[r.f] = "Pending"
  /\ r.op = "TryStartSetError" =>
       /\ MayFailByParents(r.f)
       /\ Single(r.f) => IF r.crash THEN r.sync /\ state[r.f] = "Invoking"
                         ELSE state[r.f] \in {"Posting", "Posted", "Awaiting"}
       /\ Abandons(r) => state[r.f] = "Pending" /\ r.f \in abandoned
       /\ IsMultiPost(r.f) => ~r.crash
  /\ r.op = "TrySetSuccess" =>
       /\ MaySucceedByParents(r.f)
       /\ IF Kind[r.f] = "share" THEN r.sync /\ state[r.f] = "Invoking"
          ELSE state[r.f] = "SettingResult" /\ hasValue[r.f]
  /\ r.op = "SetFailed" => MayFailByParents(r.f) /\ state[r.f] = "SettingResult"
  /\ Owns(r) => r.f \notin callbacks /\ r.f \notin awaited

(* Every pending call finds its future as it expects it.                    *)
CallsOK == \A r \in Calls : At(stack, r) => CallOK(r)

(* The list of a future holds continuations that wait for it, and is taken  *)
(* once it is done.                                                         *)
HeadsOK ==
  \A p \in Future :
    /\ IF IsDone(p) THEN head[p] \in {Null, Invoked} ELSE head[p] # Invoked
    /\ head[p] # Null => \E d \in created : <<p, d>> \in Edge
    /\ head[p] \in Future => Waits(p, head[p]) /\ NotNext(head[p])

(* Before its state leaves Pending, the link of a continuation is the next  *)
(* in its list, and only it leads there.                                    *)
LinksOK ==
  \A x \in Future : Single(x) /\ state[x] = "Pending" /\ link[x] # Null =>
    /\ Single(link[x]) /\ Waits(Parent(x), link[x])
    /\ \A y \in Future : Single(y) /\ state[y] = "Pending" /\ link[y] = link[x] => y = x

(* What is held outside the stacks: posted callbacks and awaited futures.   *)
HeldOK ==
  /\ \A c \in callbacks : /\ Kind[c] = "then" /\ c \notin awaited
                          /\ state[c] \in {"Posting", "Posted"} /\ HasInput(c)
  /\ \A c \in awaited : Kind[c] = "then" /\ state[c] = "Awaiting"

(* A future that does not exist yet is as the constructor leaves it.        *)
NotCreatedOK ==
  \A c \in Future : c \notin created =>
    /\ Single(c) => state[c] = "Pending"
    /\ \A p \in Future : <<p, c>> \in Edge => delivered[<<p, c>>] = 0

(* Continuations are posted for parents that are done.                      *)
DeliveredOK == \A e \in Edge : delivered[e] # 0 => IsDone(e[1])

(* A result is what the parents justify, and an error is kept unless a      *)
(* continuation of several parents has taken it.                            *)
ResultsOK ==
  \A f \in Future :
    /\ state[f] = "Succeeded" => MaySucceedByParents(f) /\ (Kind[f] # "share" => hasValue[f])
    /\ state[f] = "Failed" =>
         /\ MayFailByParents(f)
         /\ hasError[f] \/ \E c \in Future : <<f, c>> \in Edge /\ IsMultiPost(c)

(* The parents that WhenAll has counted.                                    *)
Counted(w) == {i \in DOMAIN Parents[w] :
                 delivered[<<Parents[w][i], w>>] # 0 /\ state[Parents[w][i]] = "Succeeded"}

(* The counter is exact, and only an error or the last parent ends WhenAll. *)
WhenAllOK ==
  \A w \in Future : Kind[w] = "whenAll" =>
    /\ completed[w] = Cardinality(Counted(w))
    /\ \/ state[w] = "Pending"
       \/ \E i \in DOMAIN Parents[w] : state[Parents[w][i]] = "Failed"
       \/ \A i \in DOMAIN Parents[w] : delivered[<<Parents[w][i], w>>] # 0

(* A promise has no parents; its result is being set by a pending call.     *)
PromisesOK ==
  \A p \in Future : Kind[p] = "promise" =>
    /\ link[p] = Null /\ state[p] \in Done \cup {"Pending", "SettingResult"}
    /\ state[p] = "SettingResult" =>
         \E r \in Calls : At(stack, r) /\ r.f = p /\ r.op \in {"TrySetSuccess", "SetFailed"}

(* The types of the variables.                                              *)
Types ==
  /\ state \in [Future -> Done \cup {"Pending", "Posting", "Posted", "Invoking", "Awaiting",
                                      "SettingResult"}]
  /\ head \in [Future -> Future \cup {Null, Invoked}]
  /\ link \in [Future -> Future \cup {Null}]
  /\ hasError \in [Future -> BOOLEAN] /\ hasValue \in [Future -> BOOLEAN]
  /\ completed \in [Future -> Nat]
  /\ created \subseteq Future /\ callbacks \subseteq Future /\ awaited \subseteq Future
  /\ abandoned \subseteq Future
  /\ delivered \in [Edge -> Nat] /\ stack \in [Thread -> Seq(Calls)]

(* The inductive invariant.                                                 *)
Inv ==
  /\ Types /\ CallsOK /\ CallsCompatible(stack) /\ HeadsOK /\ LinksOK /\ HeldOK
  /\ NotCreatedOK /\ DeliveredOK /\ ResultsOK /\ WhenAllOK /\ PromisesOK /\ ~crashed

-----------------------------------------------------------------------------
(* Stacks *)

Continued(s, t, calls) == [s EXCEPT ![t] = calls \o Tail(s[t])]
Started(s, t, calls) == [s EXCEPT ![t] = calls]

(* The calls after a step of t: the ones the top call made, and the others, *)
(* all of them compatible with the top call.                                *)
LEMMA AfterContinue ==
  ASSUME NEW s \in [Thread -> Seq(Calls)], NEW t \in Thread, s[t] # <<>>,
         NEW calls \in Seq(Calls), NEW s2, s2 = Continued(s, t, calls),
         CallsCompatible(s)
  PROVE  /\ s2 \in [Thread -> Seq(Calls)]
         /\ Head(s[t]) \in Calls /\ At(s, Head(s[t]))
         /\ \A k \in DOMAIN calls : At(s2, calls[k])
         /\ \A r \in Calls : At(s, r) /\ r # Head(s[t]) => At(s2, r)
         /\ \A r : At(s2, r) => \/ \E k \in DOMAIN calls : calls[k] = r
                                \/ At(s, r) /\ Compatible(Head(s[t]), r)
<1> DEFINE n == Len(calls)
<1>1. /\ s[t] \in Seq(Calls) /\ Tail(s[t]) \in Seq(Calls) /\ Len(s[t]) \in Nat \ {0}
      /\ Len(Tail(s[t])) = Len(s[t]) - 1 /\ Head(s[t]) = s[t][1] /\ s[t][1] \in Calls
      /\ \A i \in 1 .. Len(s[t]) - 1 : Tail(s[t])[i] = s[t][i + 1]
      /\ n \in Nat /\ DOMAIN calls = 1 .. n /\ DOMAIN s[t] = 1 .. Len(s[t])
  OBVIOUS
<1>2. /\ s2[t] = calls \o Tail(s[t]) /\ s2[t] \in Seq(Calls)
      /\ \A u \in Thread \ {t} : s2[u] = s[u]
      /\ s2 \in [Thread -> Seq(Calls)]
  BY <1>1 DEF Continued
<1>3. /\ Len(s2[t]) = n + Len(s[t]) - 1 /\ DOMAIN s2[t] = 1 .. n + Len(s[t]) - 1
      /\ \A i \in 1 .. n : s2[t][i] = calls[i]
      /\ \A i \in n + 1 .. n + Len(s[t]) - 1 : s2[t][i] = s[t][i - n + 1]
  BY <1>1, <1>2
<1>4. Head(s[t]) \in Calls /\ At(s, Head(s[t]))
  BY <1>1 DEF At
<1>5. \A k \in DOMAIN calls : At(s2, calls[k])
  <2> TAKE k \in DOMAIN calls
  <2>1. k \in DOMAIN s2[t] /\ s2[t][k] = calls[k]
    BY <1>1, <1>3
  <2> QED
    BY <2>1 DEF At
<1>6. ASSUME NEW r \in Calls, At(s, r), r # Head(s[t])
      PROVE  At(s2, r)
  <2>1. PICK u \in Thread : \E i \in DOMAIN s[u] : s[u][i] = r
    BY <1>6 DEF At
  <2> PICK i \in DOMAIN s[u] : s[u][i] = r
    BY <2>1
  <2>2. CASE u # t
    BY <2>1, <2>2, <1>2 DEF At
  <2>3. CASE u = t
    <3>1. i \in 2 .. Len(s[t])
      BY <2>1, <2>3, <1>1, <1>6
    <3>2. /\ i + n - 1 \in n + 1 .. n + Len(s[t]) - 1
          /\ i + n - 1 \in DOMAIN s2[t]
          /\ (i + n - 1) - n + 1 = i
      BY <3>1, <1>1, <1>3
    <3>3. s2[t][i + n - 1] = r
      BY <3>2, <1>3, <2>1, <2>3
    <3> QED
      BY <3>2, <3>3 DEF At
  <2> QED
    BY <2>2, <2>3
<1>7. ASSUME NEW r, At(s2, r)
      PROVE  \/ \E k \in DOMAIN calls : calls[k] = r
             \/ At(s, r) /\ Compatible(Head(s[t]), r)
  <2>1. PICK u \in Thread : \E i \in DOMAIN s2[u] : s2[u][i] = r
    BY <1>7 DEF At
  <2> PICK i \in DOMAIN s2[u] : s2[u][i] = r
    BY <2>1
  <2>2. CASE u # t
    <3>1. s2[u] = s[u]
      BY <1>2, <2>2
    <3>2. 1 \in DOMAIN s[t] /\ i \in DOMAIN s[u] /\ s[u][i] = r /\ s[t][1] = Head(s[t])
      BY <3>1, <2>1, <1>1
    <3> QED
      BY <3>2, <2>2 DEF At, CallsCompatible
  <2>3. CASE u = t /\ i \in 1 .. n
    BY <2>1, <2>3, <1>1, <1>3
  <2>4. CASE u = t /\ i \in n + 1 .. n + Len(s[t]) - 1
    <3>1. /\ i - n + 1 \in DOMAIN s[t] /\ i - n + 1 # 1 /\ 1 \in DOMAIN s[t]
          /\ s[t][1] = Head(s[t])
      BY <2>4, <1>1
    <3>2. s[t][i - n + 1] = r
      BY <2>4, <1>3
    <3> QED
      BY <3>1, <3>2 DEF At, CallsCompatible
  <2> QED
    BY <2>1, <2>2, <2>3, <2>4, <1>1, <1>3
<1> QED
  BY <1>2, <1>4, <1>5, <1>6, <1>7

(* Compatibility is symmetric.                                              *)
LEMMA CompatibleSymmetric ==
  ASSUME NEW a, NEW b, Compatible(a, b)
  PROVE  Compatible(b, a)
BY DEF Compatible

(* New calls that are compatible with each other and with the rest.         *)
LEMMA CompatibleAfterContinue ==
  ASSUME NEW s \in [Thread -> Seq(Calls)], NEW t \in Thread, s[t] # <<>>,
         NEW calls \in Seq(Calls), NEW s2, s2 = Continued(s, t, calls),
         CallsCompatible(s),
         \A k \in DOMAIN calls : \A r \in Calls :
           At(s, r) /\ Compatible(Head(s[t]), r) => Compatible(calls[k], r),
         \A j, k \in DOMAIN calls : j # k => Compatible(calls[j], calls[k])
  PROVE  CallsCompatible(s2)
<1> DEFINE n == Len(calls)
           Old(u, i) == IF u = t THEN i - n + 1 ELSE i
<1>1. /\ s[t] \in Seq(Calls) /\ Tail(s[t]) \in Seq(Calls) /\ Len(s[t]) \in Nat \ {0}
      /\ Len(Tail(s[t])) = Len(s[t]) - 1 /\ Head(s[t]) = s[t][1]
      /\ \A i \in 1 .. Len(s[t]) - 1 : Tail(s[t])[i] = s[t][i + 1]
      /\ n \in Nat /\ DOMAIN calls = 1 .. n /\ DOMAIN s[t] = 1 .. Len(s[t])
  OBVIOUS
<1>2. /\ s2[t] = calls \o Tail(s[t]) /\ s2[t] \in Seq(Calls)
      /\ \A u \in Thread \ {t} : s2[u] = s[u]
  BY <1>1 DEF Continued
<1>3. /\ Len(s2[t]) = n + Len(s[t]) - 1 /\ DOMAIN s2[t] = 1 .. n + Len(s[t]) - 1
      /\ \A i \in 1 .. n : s2[t][i] = calls[i]
      /\ \A i \in n + 1 .. n + Len(s[t]) - 1 : s2[t][i] = s[t][i - n + 1]
  BY <1>1, <1>2
<1>4. \A u \in Thread : \A i \in DOMAIN s[u] : s[u][i] \in Calls
  OBVIOUS
<1>5. ASSUME NEW u \in Thread, NEW i \in DOMAIN s2[u]
      PROVE  \/ u = t /\ i \in 1 .. n /\ s2[u][i] = calls[i]
             \/ /\ u # t \/ i > n
                /\ Old(u, i) \in DOMAIN s[u] /\ s2[u][i] = s[u][Old(u, i)]
                /\ u # t \/ Old(u, i) # 1
  <2>1. CASE u # t
    <3>1. s2[u] = s[u]
      BY <1>2, <2>1
    <3> QED
      BY <2>1, <3>1
  <2>2. CASE u = t /\ i \in 1 .. n
    BY <2>2, <1>3
  <2>3. CASE u = t /\ i \in n + 1 .. n + Len(s[t]) - 1
    <3>1. i - n + 1 \in 1 .. Len(s[t]) /\ i - n + 1 # 1 /\ i > n
      BY <2>3, <1>1
    <3>2. s2[t][i] = s[t][i - n + 1]
      BY <2>3, <1>3
    <3> QED
      BY <2>3, <3>1, <3>2, <1>1
  <2> QED
    BY <2>1, <2>2, <2>3, <1>3, <1>1
<1>6. ASSUME NEW u \in Thread, NEW i \in DOMAIN s2[u], NEW k \in 1 .. n, u # t \/ i > n
      PROVE  Compatible(calls[k], s2[u][i])
  <2>0. ~(u = t /\ i \in 1 .. n)
    BY <1>6, <1>1
  <2>1. PICK o \in DOMAIN s[u] : s2[u][i] = s[u][o] /\ (u # t \/ o # 1)
    <3> HIDE DEF Old
    <3> QED
      BY <1>5, <2>0
  <2>2. 1 \in DOMAIN s[t]
    BY <1>1
  <2>3. Compatible(s[t][1], s[u][o])
    BY <2>1, <2>2 DEF CallsCompatible
  <2>4. At(s, s[u][o]) /\ s[u][o] \in Calls
    BY <2>1, <1>4 DEF At
  <2> QED
    BY <2>1, <2>3, <2>4, <1>1
<1>7. ASSUME NEW u \in Thread, NEW v \in Thread, NEW i \in DOMAIN s2[u], NEW j \in DOMAIN s2[v],
             u # v \/ i # j
      PROVE  Compatible(s2[u][i], s2[v][j])
  <2>1. CASE (u = t /\ i \in 1 .. n) /\ (v = t /\ j \in 1 .. n)
    BY <2>1, <1>7, <1>1, <1>3
  <2>2. CASE (u = t /\ i \in 1 .. n) /\ (v # t \/ j > n)
    BY <2>2, <1>6, <1>3
  <2>3. CASE (u # t \/ i > n) /\ (v = t /\ j \in 1 .. n)
    BY <2>3, <1>6, <1>3, CompatibleSymmetric
  <2>4. CASE (u # t \/ i > n) /\ (v # t \/ j > n)
    <3>1. /\ Old(u, i) \in DOMAIN s[u] /\ s2[u][i] = s[u][Old(u, i)]
          /\ Old(v, j) \in DOMAIN s[v] /\ s2[v][j] = s[v][Old(v, j)]
      BY <1>5, <2>4
    <3>2. u # v \/ Old(u, i) # Old(v, j)
      BY <1>7, <1>3, <1>1
    <3> QED
      BY <3>1, <3>2 DEF CallsCompatible
  <2>5. /\ (u = t /\ i \in 1 .. n) \/ (u # t \/ i > n)
        /\ (v = t /\ j \in 1 .. n) \/ (v # t \/ j > n)
    BY <1>3, <1>1
  <2> QED
    BY <2>1, <2>2, <2>3, <2>4, <2>5
<1> QED
  BY <1>7 DEF CallsCompatible

(* The same for a thread that had nothing to do.                            *)
LEMMA AfterStart ==
  ASSUME NEW s \in [Thread -> Seq(Calls)], NEW t \in Thread, s[t] = <<>>,
         NEW calls \in Seq(Calls), NEW s2, s2 = Started(s, t, calls),
         CallsCompatible(s)
  PROVE  /\ s2 \in [Thread -> Seq(Calls)]
         /\ \A k \in DOMAIN calls : At(s2, calls[k])
         /\ \A r : At(s, r) => At(s2, r)
         /\ \A r : At(s2, r) => At(s, r) \/ \E k \in DOMAIN calls : calls[k] = r
<1>1. /\ s2[t] = calls /\ s2 \in [Thread -> Seq(Calls)] /\ DOMAIN s[t] = {}
      /\ \A u \in Thread \ {t} : s2[u] = s[u]
      /\ \A u \in Thread : \A i \in DOMAIN s[u] : s[u][i] \in Calls
  BY DEF Started
<1>2. \A k \in DOMAIN calls : At(s2, calls[k])
  BY <1>1 DEF At
<1>3. \A r : At(s, r) => At(s2, r)
  BY <1>1 DEF At
<1>4. \A r : At(s2, r) => At(s, r) \/ \E k \in DOMAIN calls : calls[k] = r
  BY <1>1 DEF At
<1> QED
  BY <1>1, <1>2, <1>3, <1>4

(* The same for calls that an idle thread begins.                           *)
LEMMA CompatibleAfterStart ==
  ASSUME NEW s \in [Thread -> Seq(Calls)], NEW t \in Thread, s[t] = <<>>,
         NEW calls \in Seq(Calls), NEW s2, s2 = Started(s, t, calls),
         CallsCompatible(s),
         \A k \in DOMAIN calls : \A r \in Calls : At(s, r) => Compatible(calls[k], r),
         \A j, k \in DOMAIN calls : j # k => Compatible(calls[j], calls[k])
  PROVE  CallsCompatible(s2)
<1>1. /\ s2[t] = calls /\ s2 \in [Thread -> Seq(Calls)] /\ DOMAIN s[t] = {}
      /\ \A u \in Thread \ {t} : s2[u] = s[u]
      /\ \A u \in Thread : \A i \in DOMAIN s[u] : s[u][i] \in Calls
  BY DEF Started
<1>5. CallsCompatible(s2)
  <2> SUFFICES ASSUME NEW u \in Thread, NEW v \in Thread, NEW i \in DOMAIN s2[u],
                      NEW j \in DOMAIN s2[v], u # v \/ i # j
               PROVE  Compatible(s2[u][i], s2[v][j])
    BY DEF CallsCompatible
  <2>1. CASE u = t /\ v = t
    BY <2>1, <1>1
  <2>2. CASE u = t /\ v # t
    <3>1. At(s, s2[v][j]) /\ s2[v][j] \in Calls
      BY <2>2, <1>1 DEF At
    <3> QED
      BY <3>1, <2>2, <1>1
  <2>3. CASE u # t /\ v = t
    <3>1. At(s, s2[u][i]) /\ s2[u][i] \in Calls
      BY <2>3, <1>1 DEF At
    <3> QED
      BY <3>1, <2>3, <1>1, CompatibleSymmetric
  <2>4. CASE u # t /\ v # t
    BY <2>4, <1>1 DEF CallsCompatible
  <2> QED
    BY <2>1, <2>2, <2>3, <2>4
<1> QED
  BY <1>5

(* What a step has to show about the calls on the stacks: about each call   *)
(* that was there, and about each one it makes.                             *)
LEMMA ContinueCalls ==
  ASSUME Types, CallsOK, CallsCompatible(stack), NEW t \in Thread, stack[t] # <<>>,
         NEW calls \in Seq(Calls), Continue(t, calls),
         \A r \in Calls : CallOK(r) /\ Compatible(Head(stack[t]), r) => CallOK(r)',
         \A k \in DOMAIN calls : CallOK(calls[k])',
         \A k \in DOMAIN calls : \A r \in Calls :
           CallOK(r) /\ Compatible(Head(stack[t]), r) => Compatible(calls[k], r),
         \A j, k \in DOMAIN calls : j # k => Compatible(calls[j], calls[k])
  PROVE  /\ stack' \in [Thread -> Seq(Calls)] /\ CallsOK' /\ CallsCompatible(stack')
         /\ \A r \in Calls : At(stack, r) /\ r # Head(stack[t]) => At(stack', r)
         /\ \A k \in DOMAIN calls : At(stack', calls[k])
<1>1. stack \in [Thread -> Seq(Calls)] /\ stack' = Continued(stack, t, calls)
  BY DEF Types, Continue, Continued
<1>2. /\ stack' \in [Thread -> Seq(Calls)]
      /\ \A k \in DOMAIN calls : At(stack', calls[k])
      /\ \A r \in Calls : At(stack, r) /\ r # Head(stack[t]) => At(stack', r)
      /\ \A r : At(stack', r) => \/ \E k \in DOMAIN calls : calls[k] = r
                                 \/ At(stack, r) /\ Compatible(Head(stack[t]), r)
  BY <1>1, AfterContinue
<1>3. \A r \in Calls : At(stack, r) => CallOK(r)
  BY DEF CallsOK
<1>4. CallsCompatible(stack')
  BY <1>1, <1>3, CompatibleAfterContinue
<1>5. \A r \in Calls : At(stack', r) => CallOK(r)'
  <2> SUFFICES ASSUME NEW r \in Calls, At(stack', r)
               PROVE  CallOK(r)'
    OBVIOUS
  <2>1. CASE \E k \in DOMAIN calls : calls[k] = r
    <3> PICK k \in DOMAIN calls : calls[k] = r
      BY <2>1
    <3>1. CallOK(calls[k])'
      OBVIOUS
    <3> QED
      BY <3>1
  <2>2. CASE At(stack, r) /\ Compatible(Head(stack[t]), r)
    BY <2>2, <1>3
  <2> QED
    BY <1>2, <2>1, <2>2
<1>6. CallsOK'
  BY <1>5 DEF CallsOK
<1> QED
  BY <1>2, <1>4, <1>6

(* The same for the calls of a caller, which change no future.              *)
LEMMA StartCalls ==
  ASSUME Types, CallsOK, CallsCompatible(stack), NEW t \in Thread,
         NEW calls \in Seq(Calls), Start(t, calls),
         \A r \in Calls : At(stack, r) /\ CallOK(r) => CallOK(r)',
         \A k \in DOMAIN calls : CallOK(calls[k])',
         \A k \in DOMAIN calls : \A r \in Calls :
           At(stack, r) /\ CallOK(r) => Compatible(calls[k], r),
         \A j, k \in DOMAIN calls : j # k => Compatible(calls[j], calls[k])
  PROVE  /\ stack' \in [Thread -> Seq(Calls)] /\ CallsOK' /\ CallsCompatible(stack')
         /\ \A r \in Calls : At(stack, r) => At(stack', r)
<1>1. /\ stack \in [Thread -> Seq(Calls)] /\ stack' = Started(stack, t, calls)
      /\ stack[t] = <<>>
  BY DEF Types, Start, Started
<1>3. \A r \in Calls : At(stack, r) => CallOK(r)
  BY DEF CallsOK
<1>2. /\ stack' \in [Thread -> Seq(Calls)] /\ CallsCompatible(stack')
      /\ \A r : At(stack, r) => At(stack', r)
      /\ \A r : At(stack', r) => At(stack, r) \/ \E k \in DOMAIN calls : calls[k] = r
  <2>1. \A k \in DOMAIN calls : \A r \in Calls : At(stack, r) => Compatible(calls[k], r)
    BY <1>3
  <2>2. CallsCompatible(stack')
    BY <1>1, <2>1, CompatibleAfterStart
  <2> QED
    BY <1>1, <2>2, AfterStart
<1>5. \A r \in Calls : At(stack', r) => CallOK(r)'
  <2> SUFFICES ASSUME NEW r \in Calls, At(stack', r)
               PROVE  CallOK(r)'
    OBVIOUS
  <2>1. CASE \E k \in DOMAIN calls : calls[k] = r
    <3> PICK k \in DOMAIN calls : calls[k] = r
      BY <2>1
    <3>1. CallOK(calls[k])'
      OBVIOUS
    <3> QED
      BY <3>1
  <2>2. CASE At(stack, r)
    BY <2>2, <1>3
  <2> QED
    BY <1>2, <2>1, <2>2
<1>6. CallsOK'
  BY <1>5 DEF CallsOK
<1> QED
  BY <1>2, <1>6

-----------------------------------------------------------------------------
(* Edges *)

LEMMA KindCases ==
  ASSUME NEW f \in Future
  PROVE  /\ Kind[f] \in Kinds /\ (Single(f) \/ IsMultiPost(f) \/ Kind[f] = "promise")
         /\ Parents[f] \in Seq(Future)
BY KindAssumption DEF Kinds, Single, IsMultiPost

(* A parent is the beginning of an edge.                                    *)
LEMMA ParentEdge ==
  ASSUME NEW c \in Future, NEW i \in DOMAIN Parents[c]
  PROVE  Parents[c][i] \in Future /\ <<Parents[c][i], c>> \in Edge
<1>1. Parents[c] \in Seq(Future)
  BY KindAssumption
<1> QED
  BY <1>1 DEF Edge

(* A continuation of one parent has that parent; Share has no shared        *)
(* parent.                                                                  *)
LEMMA SingleParent ==
  ASSUME NEW c \in Future, Single(c)
  PROVE  /\ Parent(c) \in Future /\ <<Parent(c), c>> \in Edge /\ DOMAIN Parents[c] = {1}
         /\ Kind[c] = "share" => Kind[Parent(c)] # "share"
<1>1. Parents[c] \in Seq(Future) /\ Len(Parents[c]) = 1
  BY KindAssumption DEF Single
<1>2. DOMAIN Parents[c] = {1}
  BY <1>1
<1>3. Kind[c] = "share" => Kind[Parent(c)] # "share"
  BY KindAssumption DEF Parent
<1> QED
  BY <1>2, <1>3, ParentEdge DEF Parent

(* The end of an edge has its beginning among its parents.                  *)
LEMMA EdgeFacts ==
  ASSUME NEW p, NEW c, <<p, c>> \in Edge
  PROVE  /\ p \in Future /\ c \in Future /\ Kind[c] # "promise"
         /\ \E i \in DOMAIN Parents[c] : p = Parents[c][i]
         /\ Single(c) => p = Parent(c)
<1>1. c \in Future /\ \E i \in DOMAIN Parents[c] : p = Parents[c][i]
  BY DEF Edge
<1>2. PICK i \in DOMAIN Parents[c] : p = Parents[c][i]
  BY <1>1
<1>3. p \in Future
  BY <1>1, <1>2, ParentEdge
<1>4. Kind[c] # "promise"
  BY <1>1, <1>2, KindAssumption
<1>5. Single(c) => p = Parent(c)
  BY <1>1, <1>2, SingleParent DEF Parent
<1> QED
  BY <1>1, <1>3, <1>4, <1>5

(* An argument of WhenAll or WhenAny has no other continuation.             *)
LEMMA SoleContinuation ==
  ASSUME ArgumentsAreNotShared, NEW p, NEW w, <<p, w>> \in Edge, IsMultiPost(w),
         NEW c, <<p, c>> \in Edge
  PROVE  c = w
<1>1. <<p, c>> = <<p, w>>
  BY DEF ArgumentsAreNotShared
<1> QED
  BY <1>1

-----------------------------------------------------------------------------
(* Steps that change the state of one future, f, which has left Pending     *)
(* unless nothing waits for it in a list.                                   *)

Touches(f) ==
  /\ state[f] \notin Done /\ state'[f] # "Pending" /\ (Single(f) => state[f] # "Pending")
  /\ head'[f] = head[f] \/ (head[f] # Null /\ head'[f] = Invoked)
  /\ \A g \in Future \ {f} : /\ state'[g] = state[g] /\ link'[g] = link[g] /\ head'[g] = head[g]
                             /\ hasError'[g] = hasError[g]
  /\ \A g \in Future : hasValue[g] => hasValue'[g]
  /\ \A g \in awaited' : g \in awaited \/ g = f
  /\ UNCHANGED <<completed, created, callbacks, abandoned, delivered>>

(* Who waits still waits.                                                   *)
LEMMA TouchWaits ==
  ASSUME Types, NEW f \in Future, Touches(f), NEW p, NEW c
  PROVE  /\ Waits(p, c) => Waits(p, c)'
         /\ NotNext(c) => NotNext(c)'
<1>1. Waits(p, c) => Waits(p, c)'
  BY EdgeFacts DEF Waits, Touches
<1>2. NotNext(c) => NotNext(c)'
  BY DEF NotNext, Touches
<1> QED
  BY <1>1, <1>2

(* Parents that are done stay as they are.                                  *)
LEMMA TouchParents ==
  ASSUME Types, NEW f \in Future, Touches(f), NEW g \in Future
  PROVE  /\ MayFailByParents(g) => MayFailByParents(g)'
         /\ MaySucceedByParents(g) /\ (g = f /\ Kind[f] = "share" => link'[f] = link[f])
              => MaySucceedByParents(g)'
         /\ g # f /\ Single(g) /\ HasInput(g) => HasInput(g)'
<1>1. \A h \in Future : state[h] \in {"Succeeded", "Failed"} => state'[h] = state[h]
  BY DEF Touches, Done
<1>2. \A i \in DOMAIN Parents[g] : Parents[g][i] \in Future /\ <<Parents[g][i], g>> \in Edge
  BY ParentEdge
<1>3. Single(g) => Parent(g) \in Future
  BY SingleParent
<1>4. MayFailByParents(g) => MayFailByParents(g)'
  BY <1>1, <1>2, <1>3 DEF MayFailByParents, Single
<1>5. delivered' = delivered /\ (g # f => link'[g] = link[g] /\ hasError'[g] = hasError[g])
  BY DEF Touches
<1>6. MaySucceedByParents(g) /\ (g = f /\ Kind[f] = "share" => link'[f] = link[f])
        => MaySucceedByParents(g)'
  BY <1>1, <1>2, <1>3, <1>5 DEF MaySucceedByParents, Single
<1>7. g # f /\ Single(g) /\ HasInput(g) => HasInput(g)'
  BY <1>1, <1>3, <1>5 DEF HasInput
<1> QED
  BY <1>4, <1>6, <1>7

(* The calls that are not about f, or not the ones that decide about it.    *)
LEMMA TouchCalls ==
  ASSUME Types, NEW f \in Future, Touches(f), NEW r \in Calls, CallOK(r),
         r.op \in ListOps \/ r.f # f \/ (~Owns(r) /\ ~Abandons(r))
  PROVE  CallOK(r)'
<1>0. r.f \in Future /\ (r.op \in ListOps => r.parent \in Future /\ r.op \notin CallOps)
  BY DEF Calls, CallOps, ListOps
<1>1. CASE r.op \in ListOps
  <2>1. Waits(r.parent, r.f)' /\ NotNext(r.f)'
    BY <1>1, TouchWaits DEF CallOK
  <2>2. head'[r.parent] # r.f
    BY <1>0, <1>1, FutureAssumption DEF CallOK, Touches
  <2>3. r.op = "AddContinuation" =>
          IsShared(r.parent) \/ Kind[r.f] = "share" \/ head'[r.parent] = Null
    BY <1>0, <1>1 DEF CallOK, Touches
  <2>4. r.op = "PostContinuation" => IsDone(r.parent)'
    BY <1>0, <1>1 DEF CallOK, Touches, IsDone
  <2>5. r.op \in {"AddContinuation", "PostContinuation"}
    BY <1>1 DEF ListOps
  <2> QED
    BY <2>1, <2>2, <2>3, <2>4, <2>5 DEF CallOK, Owns
<1>2. CASE r.op \notin ListOps /\ r.f # f
  <2>1. /\ state'[r.f] = state[r.f] /\ (hasValue[r.f] => hasValue'[r.f])
        /\ (r.f \in callbacks' => r.f \in callbacks) /\ (r.f \in awaited' => r.f \in awaited)
        /\ abandoned' = abandoned
    BY <1>0, <1>2 DEF Touches
  <2>2. /\ MayFailByParents(r.f) => MayFailByParents(r.f)'
        /\ MaySucceedByParents(r.f) => MaySucceedByParents(r.f)'
        /\ Single(r.f) /\ HasInput(r.f) => HasInput(r.f)'
    BY <1>0, <1>2, TouchParents
  <2> QED
    BY <1>2, <2>1, <2>2 DEF CallOK, ListOps
<1>3. CASE r.op \notin ListOps /\ r.f = f /\ ~Owns(r) /\ ~Abandons(r)
  <2>1. /\ MayFailByParents(r.f) => MayFailByParents(r.f)'
        /\ MaySucceedByParents(r.f) /\ Kind[r.f] # "share" => MaySucceedByParents(r.f)'
    BY <1>0, <1>3, TouchParents
  <2>2. r.op \in {"TrySetPosted", "TryStartSetValue", "TryStartSetError"} /\ Single(r.f) => r.op = "TrySetPosted"
    BY <1>3 DEF Owns
  <2>3. Kind[r.f] = "whenAll" => r.op # "TryStartSetValue"
    BY <1>3 DEF Owns
  <2>4. r.op \notin {"Invoke", "Task", "TrySetSuccess", "SetFailed"}
    BY <1>3 DEF Owns, CallOK
  <2> QED
    BY <1>3, <2>1, <2>2, <2>3, <2>4 DEF CallOK, ListOps
<1> QED
  BY <1>1, <1>2, <1>3

(* The lists stay as they are, or one is taken when its future is done.     *)
LEMMA TouchLists ==
  ASSUME Types, NEW f \in Future, Touches(f), HeadsOK, LinksOK, NotCreatedOK, DeliveredOK,
         IF IsDone(f)' THEN head'[f] \in {Null, Invoked} ELSE head'[f] = head[f]
  PROVE  HeadsOK' /\ LinksOK' /\ NotCreatedOK' /\ DeliveredOK'
<1>1. created' = created /\ delivered' = delivered
  BY DEF Touches
<1>2. ASSUME NEW p \in Future
      PROVE  /\ IF IsDone(p)' THEN head'[p] \in {Null, Invoked} ELSE head'[p] # Invoked
             /\ head'[p] # Null => \E d \in created' : <<p, d>> \in Edge
             /\ head'[p] \in Future => Waits(p, head[p])' /\ NotNext(head[p])'
  <2>1. head'[p] = head[p] \/ (p = f /\ head[f] # Null /\ head'[f] = Invoked)
    BY DEF Touches
  <2>2. IF IsDone(p)' THEN head'[p] \in {Null, Invoked} ELSE head'[p] # Invoked
    <3>1. CASE p = f
      BY <3>1 DEF HeadsOK, Touches, IsDone
    <3>2. CASE p # f
      BY <3>2 DEF HeadsOK, Touches, IsDone
    <3> QED
      BY <3>1, <3>2
  <2>3. head'[p] # Null => \E d \in created' : <<p, d>> \in Edge
    BY <1>1, <2>1 DEF HeadsOK
  <2>4. ASSUME head'[p] \in Future
        PROVE  Waits(p, head[p])' /\ NotNext(head[p])'
    <3>1. PICK h \in Future : h = head[p] /\ h = head'[p]
      BY <2>1, <2>4, FutureAssumption
    <3>2. Waits(p, h) /\ NotNext(h)
      BY <3>1 DEF HeadsOK
    <3>3. Waits(p, h)' /\ NotNext(h)'
      BY <3>2, TouchWaits
    <3> QED
      BY <3>1, <3>3 DEF Waits, NotNext
  <2> QED
    BY <2>2, <2>3, <2>4
<1>3. HeadsOK'
  BY <1>2 DEF HeadsOK
<1>4. \A x \in Future : Single(x) /\ state'[x] = "Pending" =>
        state[x] = "Pending" /\ link'[x] = link[x]
  BY DEF Touches
<1>5. ASSUME NEW x \in Future, Single(x), state'[x] = "Pending", link'[x] # Null
      PROVE  /\ Single(link'[x]) /\ Waits(Parent(x), link[x])'
             /\ \A y \in Future : Single(y) /\ state'[y] = "Pending" /\ link'[y] = link'[x] => y = x
  <2>1. PICK n : n = link[x] /\ n = link'[x]
    BY <1>4, <1>5
  <2>2. /\ Single(n) /\ Waits(Parent(x), n)
        /\ \A y \in Future : Single(y) /\ state[y] = "Pending" /\ link[y] = n => y = x
    BY <2>1, <1>4, <1>5 DEF LinksOK
  <2>3. Waits(Parent(x), n)'
    BY <2>2, TouchWaits
  <2> QED
    BY <2>1, <2>2, <2>3, <1>4 DEF Waits
<1>6. LinksOK'
  BY <1>5 DEF LinksOK
<1>7. NotCreatedOK'
  BY <1>1 DEF NotCreatedOK, Touches
<1>8. DeliveredOK'
  BY <1>1, EdgeFacts DEF DeliveredOK, Touches, IsDone, Edge
<1> QED
  BY <1>3, <1>6, <1>7, <1>8

(* What WhenAll counted stays as it is.                                     *)
LEMMA TouchCounted ==
  ASSUME Types, NEW f \in Future, Touches(f), DeliveredOK, NEW w \in Future
  PROVE  Counted(w)' = Counted(w)
<1>1. \A i \in DOMAIN Parents[w] : /\ Parents[w][i] \in Future /\ <<Parents[w][i], w>> \in Edge
  BY ParentEdge
<1>2. ASSUME NEW i \in DOMAIN Parents[w], delivered[<<Parents[w][i], w>>] # 0
      PROVE  state'[Parents[w][i]] = state[Parents[w][i]]
  <2>1. PICK p : p = Parents[w][i]
    OBVIOUS
  <2>2. <<p, w>> \in Edge /\ delivered[<<p, w>>] # 0 /\ p \in Future
    BY <1>1, <1>2, <2>1
  <2>3. IsDone(<<p, w>>[1])
    BY <2>2 DEF DeliveredOK, IsDone
  <2>4. p # f
    BY <2>3 DEF IsDone, Touches
  <2> QED
    BY <2>1, <2>2, <2>4 DEF Touches
<1>3. delivered' = delivered
  BY DEF Touches
<1> QED
  BY <1>2, <1>3 DEF Counted

(* A step on a WhenAll future keeps its counter and its reason to end.      *)
LEMMA TouchWhenAll ==
  ASSUME Types, NEW f \in Future, Touches(f), DeliveredOK, WhenAllOK,
         Kind[f] = "whenAll" => \/ state[f] # "Pending"
                                \/ MayFailByParents(f) \/ MaySucceedByParents(f)
  PROVE  WhenAllOK'
<1>1. ASSUME NEW w \in Future, Kind[w] = "whenAll"
      PROVE  /\ completed'[w] = Cardinality(Counted(w)')
             /\ \/ state'[w] = "Pending"
                \/ \E i \in DOMAIN Parents[w] : state'[Parents[w][i]] = "Failed"
                \/ \A i \in DOMAIN Parents[w] : delivered'[<<Parents[w][i], w>>] # 0
  <2>1. completed'[w] = Cardinality(Counted(w)')
    <3>1. completed[w] = Cardinality(Counted(w)) /\ completed' = completed
      BY <1>1 DEF WhenAllOK, Touches
    <3>2. Counted(w)' = Counted(w)
      BY TouchCounted
    <3> QED
      BY <3>1, <3>2
  <2>2. \A i \in DOMAIN Parents[w] : Parents[w][i] \in Future
    BY ParentEdge
  <2>3. \A h \in Future : state[h] = "Failed" => state'[h] = "Failed"
    BY DEF Touches, Done
  <2>4. \/ state'[w] = "Pending"
        \/ \E i \in DOMAIN Parents[w] : state[Parents[w][i]] = "Failed"
        \/ \A i \in DOMAIN Parents[w] : delivered[<<Parents[w][i], w>>] # 0
    <3>1. CASE w = f
      BY <3>1, <1>1 DEF WhenAllOK, MayFailByParents, MaySucceedByParents, IsMultiPost
    <3>2. CASE w # f
      BY <3>2, <1>1 DEF WhenAllOK, Touches
    <3> QED
      BY <3>1, <3>2
  <2>5. delivered' = delivered
    BY DEF Touches
  <2> QED
    BY <2>1, <2>2, <2>3, <2>4, <2>5
<1> QED
  BY <1>1 DEF WhenAllOK, Counted

(* Results stay, and the new one is justified.                              *)
LEMMA TouchResults ==
  ASSUME Types, NEW f \in Future, Touches(f), ResultsOK,
         state'[f] = "Succeeded" =>
           MaySucceedByParents(f)' /\ (Kind[f] # "share" => hasValue'[f]),
         state'[f] = "Failed" => MayFailByParents(f)' /\ hasError'[f]
  PROVE  ResultsOK'
<1>1. ASSUME NEW g \in Future
      PROVE  /\ state'[g] = "Succeeded" =>
                  MaySucceedByParents(g)' /\ (Kind[g] # "share" => hasValue'[g])
             /\ state'[g] = "Failed" =>
                  /\ MayFailByParents(g)'
                  /\ hasError'[g] \/ \E c \in Future : <<g, c>> \in Edge /\ IsMultiPost(c)
  <2>1. CASE g = f
    BY <2>1
  <2>2. CASE g # f
    <3>1. /\ MayFailByParents(g) => MayFailByParents(g)'
          /\ MaySucceedByParents(g) => MaySucceedByParents(g)'
      BY <2>2, TouchParents
    <3> QED
      BY <2>2, <3>1 DEF ResultsOK, Touches
  <2> QED
    BY <2>1, <2>2
<1> QED
  BY <1>1 DEF ResultsOK

(* Callbacks and awaited futures of others stay.                            *)
LEMMA TouchHeld ==
  ASSUME Types, NEW f \in Future, Touches(f), HeldOK, f \notin callbacks,
         f \in awaited' => Kind[f] = "then" /\ state'[f] = "Awaiting"
  PROVE  HeldOK'
<1>1. ASSUME NEW c \in callbacks'
      PROVE  /\ Kind[c] = "then" /\ c \notin awaited'
             /\ state'[c] \in {"Posting", "Posted"} /\ HasInput(c)'
  <2>1. c \in callbacks /\ c # f /\ c \in Future
    BY <1>1 DEF Touches, Types
  <2>2. Kind[c] = "then" /\ c \notin awaited /\ state[c] \in {"Posting", "Posted"} /\ HasInput(c)
    BY <2>1 DEF HeldOK
  <2>3. HasInput(c)'
    BY <2>1, <2>2, TouchParents DEF Single
  <2> QED
    BY <2>1, <2>2, <2>3 DEF Touches
<1>2. ASSUME NEW c \in awaited'
      PROVE  Kind[c] = "then" /\ state'[c] = "Awaiting"
  <2>1. CASE c = f
    BY <2>1, <1>2
  <2>2. CASE c # f
    BY <2>2, <1>2 DEF HeldOK, Touches, Types
  <2> QED
    BY <2>1, <2>2
<1> QED
  BY <1>1, <1>2 DEF HeldOK

-----------------------------------------------------------------------------
(* One step of a call *)

(* The call on top of a stack.                                              *)
LEMMA TopCall ==
  ASSUME Types, CallsOK, NEW t \in Thread, NEW op, Top(t, op)
  PROVE  /\ stack[t] # <<>>
         /\ \E r \in Calls : r = Head(stack[t]) /\ r.op = op /\ At(stack, r) /\ CallOK(r)
<1>1. stack[t] # <<>> /\ Head(stack[t]).op = op /\ stack[t] \in Seq(Calls)
  BY DEF Top, Types
<1>2. Head(stack[t]) \in Calls /\ 1 \in DOMAIN stack[t] /\ stack[t][1] = Head(stack[t])
  BY <1>1
<1>3. PICK r \in Calls : r = Head(stack[t])
  BY <1>2
<1>4. At(stack, r)
  BY <1>2, <1>3 DEF At
<1> QED
  BY <1>1, <1>3, <1>4 DEF CallsOK

(* A call that makes no other and one that makes one.                       *)
LEMMA ContinueNone ==
  ASSUME Types, CallsOK, CallsCompatible(stack), NEW t \in Thread, stack[t] # <<>>,
         Continue(t, <<>>),
         \A r \in Calls : CallOK(r) /\ Compatible(Head(stack[t]), r) => CallOK(r)'
  PROVE  /\ stack' \in [Thread -> Seq(Calls)] /\ CallsOK' /\ CallsCompatible(stack')
         /\ \A r \in Calls : At(stack, r) /\ r # Head(stack[t]) => At(stack', r)
<1>0. <<>> \in Seq(Calls)
  OBVIOUS
<1>1. PICK calls \in Seq(Calls) : calls = <<>>
  BY <1>0
<1>2. DOMAIN calls = {} /\ Continue(t, calls)
  BY <1>1
<1> QED
  BY <1>2, ContinueCalls

(* The top call is replaced by one.                                         *)
LEMMA ContinueOne ==
  ASSUME Types, CallsOK, CallsCompatible(stack), NEW t \in Thread, stack[t] # <<>>,
         NEW a \in Calls, Continue(t, <<a>>),
         \A r \in Calls : CallOK(r) /\ Compatible(Head(stack[t]), r) => CallOK(r)',
         CallOK(a)',
         \A r \in Calls : CallOK(r) /\ Compatible(Head(stack[t]), r) => Compatible(a, r)
  PROVE  /\ stack' \in [Thread -> Seq(Calls)] /\ CallsOK' /\ CallsCompatible(stack')
         /\ \A r \in Calls : At(stack, r) /\ r # Head(stack[t]) => At(stack', r)
         /\ At(stack', a)
<1>1. <<a>> \in Seq(Calls)
  OBVIOUS
<1>2. PICK calls \in Seq(Calls) : calls = <<a>>
  BY <1>1
<1>3. DOMAIN calls = {1} /\ calls[1] = a /\ Continue(t, calls)
  BY <1>2
<1>4. \A k \in DOMAIN calls : CallOK(calls[k])'
  <2> TAKE k \in DOMAIN calls
  <2>1. calls[k] = a
    BY <1>3
  <2> QED
    BY <2>1
<1> QED
  BY <1>3, <1>4, ContinueCalls

(* Steps that only return.                                                  *)
LEMMA SameCalls ==
  ASSUME UNCHANGED <<word, data, clients, delivered>>, NEW r, CallOK(r)
  PROVE  CallOK(r)'
BY DEF CallOK, Waits, NotNext, HasInput, MaySucceedByParents, MayFailByParents, IsDone, word, data,
       clients

(* A step that changes no future keeps what is said of them.                *)
LEMMA SameState ==
  ASSUME UNCHANGED <<word, data, delivered>>, UNCHANGED <<created, callbacks, awaited>>,
         HeadsOK, LinksOK, HeldOK, NotCreatedOK, DeliveredOK, ResultsOK, WhenAllOK
  PROVE  HeadsOK' /\ LinksOK' /\ HeldOK' /\ NotCreatedOK' /\ DeliveredOK' /\ ResultsOK' /\ WhenAllOK'
<1> USE DEF word, data
<1>1. HeadsOK' /\ LinksOK'
  BY DEF HeadsOK, LinksOK, Waits, NotNext, IsDone
<1>2. HeldOK' /\ NotCreatedOK' /\ DeliveredOK'
  BY DEF HeldOK, HasInput, NotCreatedOK, DeliveredOK, IsDone
<1>3. ResultsOK'
  BY DEF ResultsOK, MaySucceedByParents, MayFailByParents
<1>4. WhenAllOK'
  BY DEF WhenAllOK, Counted
<1> QED
  BY <1>1, <1>2, <1>3, <1>4

(* A call that returns without effect.                                      *)
LEMMA ReturnInv ==
  ASSUME Inv, NEW t \in Thread, stack[t] # <<>>, Return(t),
         UNCHANGED <<word, data, clients, delivered, crashed>>,
         Head(stack[t]).op \notin {"TrySetSuccess", "SetFailed"}
  PROVE  Inv'
<1>1. /\ stack' \in [Thread -> Seq(Calls)] /\ CallsOK' /\ CallsCompatible(stack')
      /\ \A r \in Calls : At(stack, r) /\ r # Head(stack[t]) => At(stack', r)
  BY SameCalls, ContinueNone DEF Inv, Return
<1>2. HeadsOK' /\ LinksOK' /\ HeldOK' /\ NotCreatedOK' /\ DeliveredOK' /\ ResultsOK' /\ WhenAllOK'
  BY SameState DEF Inv, clients
<1>3. Types'
  BY <1>1 DEF Inv, Types, word, data, clients
<1>4. PromisesOK'
  BY <1>1 DEF Inv, PromisesOK, word, data
<1> QED
  BY <1>1, <1>2, <1>3, <1>4 DEF Inv

(* The promises: while one is being completed, some call completes it.      *)
LEMMA TouchPromises ==
  ASSUME Types, NEW f \in Future, Touches(f), PromisesOK, NEW top, top.f = f,
         \A r \in Calls : At(stack, r) /\ r # top => At(stack', r),
         Kind[f] = "promise" =>
           /\ link'[f] = Null /\ state'[f] \in Done \cup {"Pending", "SettingResult"}
           /\ state'[f] = "SettingResult" =>
                \E r \in Calls : At(stack', r) /\ r.f = f /\ r.op \in {"TrySetSuccess", "SetFailed"}
  PROVE  PromisesOK'
<1>1. ASSUME NEW p \in Future, Kind[p] = "promise"
      PROVE  /\ link'[p] = Null /\ state'[p] \in Done \cup {"Pending", "SettingResult"}
             /\ state'[p] = "SettingResult" =>
                  \E r \in Calls : At(stack', r) /\ r.f = p /\ r.op \in {"TrySetSuccess", "SetFailed"}
  <2>1. CASE p = f
    BY <2>1, <1>1
  <2>2. CASE p # f
    <3>1. state'[p] = state[p] /\ link'[p] = link[p]
      BY <2>2 DEF Touches
    <3>2. /\ link[p] = Null /\ state[p] \in Done \cup {"Pending", "SettingResult"}
          /\ state[p] = "SettingResult" =>
               \E r \in Calls : At(stack, r) /\ r.f = p /\ r.op \in {"TrySetSuccess", "SetFailed"}
      BY <1>1 DEF PromisesOK
    <3> QED
      BY <2>2, <3>1, <3>2
  <2> QED
    BY <2>1, <2>2
<1> QED
  BY <1>1 DEF PromisesOK

(* A step of a call that decides about f, or that returns without effect.   *)
LEMMA TouchInv ==
  ASSUME Inv, NEW f \in Future, Touches(f), Types', CallsOK', CallsCompatible(stack'), PromisesOK',
         ~crashed', f \notin callbacks,
         f \in awaited' => Kind[f] = "then" /\ state'[f] = "Awaiting",
         IF IsDone(f)' THEN head'[f] \in {Null, Invoked} ELSE head'[f] = head[f],
         Kind[f] = "whenAll" => state[f] # "Pending" \/ MayFailByParents(f) \/ MaySucceedByParents(f),
         state'[f] = "Succeeded" =>
           MaySucceedByParents(f)' /\ (Kind[f] # "share" => hasValue'[f]),
         state'[f] = "Failed" => MayFailByParents(f)' /\ hasError'[f]
  PROVE  Inv'
<1>1. HeadsOK' /\ LinksOK' /\ NotCreatedOK' /\ DeliveredOK'
  BY TouchLists DEF Inv
<1>2. WhenAllOK'
  BY TouchWhenAll DEF Inv
<1>3. ResultsOK'
  BY TouchResults DEF Inv
<1>4. HeldOK'
  BY TouchHeld DEF Inv
<1> QED
  BY <1>1, <1>2, <1>3, <1>4 DEF Inv

(* Invoke: the future runs its task, once.                                  *)
LEMMA InvokeInv ==
  ASSUME Inv, NEW t \in Thread, Invoke(t)
  PROVE  Inv'
<1>1. PICK r0 \in Calls : r0 = Head(stack[t]) /\ r0.op = "Invoke" /\ At(stack, r0) /\ CallOK(r0)
  BY TopCall DEF Inv, Invoke
<1>2. PICK f \in Future : f = r0.f
  BY DEF Calls
<1>3. stack[t] # <<>>
  BY TopCall DEF Inv, Invoke
<1>4. /\ Single(f) /\ state[f] \in {"Posting", "Posted"} /\ HasInput(f) /\ Owns(r0)
      /\ f \notin callbacks /\ f \notin awaited
  BY <1>1, <1>2 DEF CallOK, Owns
<1>5. PICK a \in Calls : a = Call("Task", f, TRUE, TRUE)
  BY DEF Calls, Call, CallOps
<1>6. /\ state' = [state EXCEPT ![f] = "Invoking"] /\ Continue(t, <<a>>)
      /\ UNCHANGED <<head, data, clients, delivered, crashed>>
  BY <1>1, <1>2, <1>4, <1>5 DEF Invoke
<1>7. Touches(f)
  BY <1>4, <1>6 DEF Touches, Inv, Types, data, clients, Done
<1>8. a.op = "Task" /\ a.f = f
  BY <1>5 DEF Call
<1>9. CallOK(a)'
  <2>1. HasInput(f)'
    <3>1. Parent(f) \in Future
      BY <1>4, SingleParent
    <3>2. state'[Parent(f)] = state[Parent(f)] \/ Parent(f) = f
      BY <3>1, <1>7 DEF Touches
    <3>3. Parent(f) # f
      BY <1>4 DEF HasInput
    <3> QED
      BY <3>2, <3>3, <1>4, <1>6 DEF HasInput, data
  <2> QED
    BY <2>1, <1>8, <1>4, <1>6 DEF CallOK, ListOps, Owns, clients, Inv, Types
<1>10. \A r \in Calls : CallOK(r) /\ Compatible(Head(stack[t]), r) => CallOK(r)'
  <2> SUFFICES ASSUME NEW r \in Calls, CallOK(r), Compatible(r0, r)
               PROVE  CallOK(r)'
    BY <1>1
  <2>1. r.f = f => ~Owns(r)
    BY <1>2, <1>4 DEF Compatible
  <2>2. r.f = f => ~Abandons(r)
    BY <1>4 DEF Abandons, Single
  <2> QED
    BY <2>1, <2>2, <1>7, TouchCalls DEF Inv
<1>11. \A r \in Calls : CallOK(r) /\ Compatible(Head(stack[t]), r) => Compatible(a, r)
  BY <1>1, <1>2, <1>4, <1>8 DEF Compatible, Owns, Abandons, ListOps, Single
<1>12. /\ stack' \in [Thread -> Seq(Calls)] /\ CallsOK' /\ CallsCompatible(stack')
       /\ \A r \in Calls : At(stack, r) /\ r # Head(stack[t]) => At(stack', r)
  BY <1>3, <1>6, <1>9, <1>10, <1>11, ContinueOne DEF Inv
<1>13. Types'
  BY <1>6, <1>12 DEF Inv, Types, data, clients
<1>14. PromisesOK'
  BY <1>1, <1>2, <1>4, <1>7, <1>12, TouchPromises DEF Inv, Single
<1>15. ~crashed' /\ state'[f] = "Invoking" /\ f \notin awaited' /\ head' = head
  BY <1>4, <1>6 DEF Inv, Types, clients
<1> QED
  BY <1>4, <1>7, <1>12, <1>13, <1>14, <1>15, TouchInv DEF Single, IsDone, Done

(* TrySetPosted: the thread that posted the future is done with it.         *)
LEMMA TrySetPostedInv ==
  ASSUME Inv, NEW t \in Thread, TrySetPosted(t)
  PROVE  Inv'
<1>1. PICK r0 \in Calls :
        r0 = Head(stack[t]) /\ r0.op = "TrySetPosted" /\ At(stack, r0) /\ CallOK(r0)
  BY TopCall DEF Inv, TrySetPosted
<1>2. PICK f \in Future : f = r0.f
  BY DEF Calls
<1>3. stack[t] # <<>>
  BY TopCall DEF Inv, TrySetPosted
<1>4. Single(f)
  BY <1>1, <1>2 DEF CallOK
<1>5. /\ state' = [state EXCEPT ![f] = IF state[f] = "Posting" THEN "Posted" ELSE state[f]]
      /\ Return(t) /\ UNCHANGED <<head, data, clients, delivered, crashed>>
  BY <1>1, <1>2 DEF TrySetPosted
<1>6. CASE state[f] # "Posting"
  <2>1. state' = state
    BY <1>5, <1>6 DEF Inv, Types
  <2> QED
    BY <2>1, <1>1, <1>3, <1>5, ReturnInv DEF word
<1>7. CASE state[f] = "Posting"
  <2>1. state' = [state EXCEPT ![f] = "Posted"] /\ state'[f] = "Posted"
    BY <1>5, <1>7 DEF Inv, Types
  <2>2. Touches(f)
    BY <2>1, <1>5, <1>7 DEF Touches, Inv, Types, data, clients, Done
  <2>3. HasInput(f) => HasInput(f)'
    <3>1. Parent(f) \in Future
      BY <1>4, SingleParent
    <3>2. state'[Parent(f)] = state[Parent(f)] \/ Parent(f) = f
      BY <3>1, <2>2 DEF Touches
    <3>3. HasInput(f) => Parent(f) # f
      BY <1>7 DEF HasInput
    <3> QED
      BY <3>2, <3>3, <1>5 DEF HasInput, data
  <2>4. \A r \in Calls : CallOK(r) => CallOK(r)'
    <3> SUFFICES ASSUME NEW r \in Calls, CallOK(r)
                 PROVE  CallOK(r)'
      OBVIOUS
    <3>1. CASE r.f # f \/ r.op \in ListOps \/ ~Owns(r)
      <4>1. r.f = f => ~Abandons(r)
        BY <1>4 DEF Abandons, Single
      <4> QED
        BY <3>1, <4>1, <2>2, TouchCalls DEF Inv
    <3>2. CASE r.f = f /\ r.op \notin ListOps /\ Owns(r)
      <4>1. MayFailByParents(f) => MayFailByParents(f)'
        BY <2>2, TouchParents DEF Inv
      <4>2. r.op \in {"Invoke", "TryStartSetError"} /\ ~Abandons(r)
        BY <3>2, <1>4, <1>7 DEF Owns, CallOK, Single, Abandons
      <4>3. UNCHANGED <<callbacks, awaited>>
        BY <1>5 DEF clients
      <4> QED
        BY <3>2, <4>1, <4>2, <4>3, <2>1, <2>3, <1>4, <1>7 DEF CallOK, ListOps, Single, IsMultiPost
    <3> QED
      BY <3>1, <3>2
  <2>5. /\ stack' \in [Thread -> Seq(Calls)] /\ CallsOK' /\ CallsCompatible(stack')
        /\ \A r \in Calls : At(stack, r) /\ r # Head(stack[t]) => At(stack', r)
    BY <1>3, <1>5, <2>4, ContinueNone DEF Inv, Return
  <2>6. Types'
    BY <1>5, <2>1, <2>5 DEF Inv, Types, data, clients
  <2>7. PromisesOK'
    BY <1>1, <1>2, <1>4, <2>2, <2>5, TouchPromises DEF Inv, Single
  <2>8. HeadsOK' /\ LinksOK' /\ NotCreatedOK' /\ DeliveredOK'
    BY <2>1, <2>2, <1>5, TouchLists DEF Inv, IsDone, Done
  <2>9. WhenAllOK'
    BY <2>2, <1>4, TouchWhenAll DEF Inv, Single
  <2>10. ResultsOK'
    BY <2>1, <2>2, TouchResults DEF Inv
  <2>11. HeldOK'
    <3>1. UNCHANGED <<callbacks, awaited>> /\ callbacks \subseteq Future /\ awaited \subseteq Future
      BY <1>5 DEF clients, Inv, Types
    <3>2. \A c \in callbacks : Kind[c] = "then" /\ c \notin awaited /\ HasInput(c)'
      <4> TAKE c \in callbacks
      <4>1. c \in Future /\ Kind[c] = "then" /\ c \notin awaited /\ HasInput(c)
        BY <3>1 DEF Inv, HeldOK
      <4> QED
        BY <4>1, <2>2, <2>3, TouchParents DEF Inv, Single
    <3>3. \A c \in callbacks : state'[c] \in {"Posting", "Posted"}
      BY <3>1, <2>1 DEF Inv, HeldOK, Types
    <3>4. \A c \in awaited : Kind[c] = "then" /\ state'[c] = "Awaiting"
      BY <3>1, <2>1, <1>7 DEF Inv, HeldOK, Types
    <3> QED
      BY <3>1, <3>2, <3>3, <3>4 DEF HeldOK
  <2> QED
    BY <1>5, <2>5, <2>6, <2>7, <2>8, <2>9, <2>10, <2>11 DEF Inv
<1> QED
  BY <1>6, <1>7

(* Whoever sees a future succeed can read its value.                        *)
LEMMA InvReadable ==
  ASSUME ~IsVoid, Inv, NEW f \in Future, state[f] = "Succeeded"
  PROVE  IsReadable(f)
<1>1. MaySucceedByParents(f) /\ (Kind[f] # "share" => hasValue[f])
  BY DEF Inv, ResultsOK
<1>2. CASE Kind[f] # "share"
  BY <1>1, <1>2, FutureAssumption DEF IsReadable
<1>3. CASE Kind[f] = "share"
  <2>1. Parent(f) \in Future /\ Kind[Parent(f)] # "share"
    BY <1>3, SingleParent DEF Single
  <2>2. link[f] = Parent(f) /\ state[Parent(f)] = "Succeeded"
    BY <1>1, <1>3 DEF MaySucceedByParents
  <2>3. hasValue[Parent(f)]
    BY <2>1, <2>2 DEF Inv, ResultsOK
  <2> QED
    BY <1>3, <2>1, <2>2, <2>3, FutureAssumption DEF IsReadable
<1> QED
  BY <1>2, <1>3

(* The call SetValue makes.                                                 *)
LEMMA SetValueCall ==
  ASSUME ~IsVoid, NEW f \in Future, NEW crash \in BOOLEAN, NEW sync \in BOOLEAN
  PROVE  /\ SetValue(f, crash, sync) \in Calls
         /\ SetValue(f, crash, sync).f = f
         /\ SetValue(f, crash, sync).crash = crash /\ SetValue(f, crash, sync).sync = sync
         /\ SetValue(f, crash, sync).op = IF Kind[f] = "share" THEN "TrySetSuccess" ELSE "TryStartSetValue"
<1>1. IsVoidValue(f) <=> Kind[f] = "share"
  BY DEF IsVoidValue
<1>2. CASE Kind[f] = "share"
  BY <1>1, <1>2 DEF SetValue, Call, Calls, CallOps
<1>3. CASE Kind[f] # "share"
  BY <1>1, <1>3 DEF SetValue, Call, Calls, CallOps
<1> QED
  BY <1>2, <1>3

(* A call that decides about a continuation f makes a (nothing, or a call   *)
(* that decides about f): the others are not disturbed.                     *)
LEMMA OwnerCompatible ==
  ASSUME NEW r0, Owns(r0), r0.op \in CallOps, NEW a, a.f = r0.f, a.op \in CallOps, ~Abandons(a),
         NEW r, Compatible(r0, r)
  PROVE  Compatible(a, r)
BY DEF Compatible, CallOps, ListOps, Abandons

(* A step of the owner leaves the other calls justified.                    *)
LEMMA OwnerOthers ==
  ASSUME Types, NEW f \in Future, Touches(f), NEW r0, Owns(r0), r0.f = f,
         NEW r \in Calls, CallOK(r), Compatible(r0, r)
  PROVE  CallOK(r)'
<1>1. r.f = f => ~Owns(r) /\ ~Abandons(r)
  BY DEF Compatible
<1> QED
  BY <1>1, TouchCalls

(* Task: the task can read what its parent left, and asks for one result.   *)
LEMMA TaskInv ==
  ASSUME ~IsVoid, Inv, NEW t \in Thread, Task(t)
  PROVE  Inv'
<1>1. PICK r0 \in Calls : r0 = Head(stack[t]) /\ r0.op = "Task" /\ At(stack, r0) /\ CallOK(r0)
  BY TopCall DEF Inv, Task
<1>2. PICK f \in Future : f = r0.f
  BY DEF Calls
<1>3. stack[t] # <<>>
  BY TopCall DEF Inv, Task
<1>4. /\ Single(f) /\ state[f] = "Invoking" /\ HasInput(f) /\ Owns(r0)
      /\ f \notin callbacks /\ f \notin awaited /\ r0.op \in CallOps
  BY <1>1, <1>2 DEF CallOK, Owns, CallOps
<1>5. Parent(f) \in Future /\ Parent(f) # f
  BY <1>4, SingleParent DEF HasInput
<1>6. hasError[f] \/ IsReadable(link[f])
  <2>1. CASE ~hasError[f]
    <3>1. link[f] = Parent(f) /\ state[Parent(f)] = "Succeeded"
      BY <2>1, <1>4 DEF HasInput
    <3>2. IsReadable(Parent(f))
      BY <3>1, <1>5, InvReadable
    <3> QED
      BY <3>1, <3>2
  <2> QED
    BY <2>1
<1>7. PICK result \in TaskResults(f) :
        /\ hasError' = [hasError EXCEPT ![f] = FALSE]
        /\ Continue(t, CASE result = "value" -> <<SetValue(f, TRUE, TRUE)>>
                         [] result = "error" -> <<Call("TryStartSetError", f, TRUE, TRUE)>>
                         [] OTHER -> <<>>)
        /\ IF result = "future"
           THEN state' = [state EXCEPT ![f] = "Awaiting"] /\ awaited' = awaited \cup {f}
           ELSE UNCHANGED <<state, awaited>>
        /\ UNCHANGED <<head, link, hasValue, completed, created, callbacks, tried, abandoned, delivered,
                       crashed>>
  BY <1>1, <1>2, <1>6 DEF Task
<1>8. Touches(f)
  BY <1>4, <1>7 DEF Touches, Inv, Types, Done
<1>9. \A r \in Calls : CallOK(r) /\ Compatible(Head(stack[t]), r) => CallOK(r)'
  BY <1>1, <1>2, <1>4, <1>8, OwnerOthers DEF Inv
<1>10. state'[Parent(f)] = state[Parent(f)] /\ link' = link
  BY <1>5, <1>7, <1>8 DEF Touches
<1>11. /\ Kind[f] # "promise" /\ ~IsMultiPost(f) /\ Kind[f] # "whenAll" /\ Kind[f] # "whenAny"
  BY <1>4 DEF Single, IsMultiPost
<1>12. /\ stack' \in [Thread -> Seq(Calls)] /\ CallsOK' /\ CallsCompatible(stack')
       /\ \A r \in Calls : At(stack, r) /\ r # Head(stack[t]) => At(stack', r)
  <2>1. CASE result = "value"
    <3>1. PICK a \in Calls :
            /\ a = SetValue(f, TRUE, TRUE) /\ a.f = f /\ a.crash = TRUE /\ a.sync = TRUE
            /\ a.op = IF Kind[f] = "share" THEN "TrySetSuccess" ELSE "TryStartSetValue"
      BY SetValueCall
    <3>2. Continue(t, <<a>>) /\ UNCHANGED <<state, awaited>>
      BY <2>1, <3>1, <1>7
    <3>3. Kind[f] \in {"copy", "share"} => ~hasError[f]
      BY <2>1, <1>7 DEF TaskResults
    <3>4. MaySucceedByParents(f)'
      BY <3>3, <1>4, <1>10, <1>11 DEF MaySucceedByParents, HasInput, IsMultiPost
    <3>5. CallOK(a)'
      BY <3>1, <3>2, <3>4, <1>4, <1>7, <1>11 DEF CallOK, ListOps, Owns
    <3>6. \A r \in Calls : CallOK(r) /\ Compatible(Head(stack[t]), r) => Compatible(a, r)
      BY <3>1, <1>1, <1>2, <1>4, <1>11, OwnerCompatible DEF Abandons, CallOps
    <3> QED
      BY <3>2, <3>5, <3>6, <1>3, <1>9, ContinueOne DEF Inv
  <2>2. CASE result = "error"
    <3>0. PICK a \in Calls : a = Call("TryStartSetError", f, TRUE, TRUE)
      BY DEF Call, Calls, CallOps
    <3>1. /\ a = Call("TryStartSetError", f, TRUE, TRUE) /\ a.f = f /\ a.crash = TRUE
          /\ a.sync = TRUE /\ a.op = "TryStartSetError"
      BY <3>0 DEF Call
    <3>2. Continue(t, <<a>>) /\ UNCHANGED <<state, awaited>>
      BY <2>2, <3>1, <1>7
    <3>3. Kind[f] \in {"copy", "share"} => hasError[f]
      BY <2>2, <1>7 DEF TaskResults
    <3>4. MayFailByParents(f)'
      BY <3>3, <1>4, <1>10, <1>11 DEF MayFailByParents, HasInput, IsMultiPost
    <3>5. CallOK(a)'
      BY <3>1, <3>2, <3>4, <1>4, <1>7, <1>11 DEF CallOK, ListOps, Owns, Abandons
    <3>6. \A r \in Calls : CallOK(r) /\ Compatible(Head(stack[t]), r) => Compatible(a, r)
      BY <3>1, <1>1, <1>2, <1>4, <1>11, OwnerCompatible DEF Abandons, CallOps
    <3> QED
      BY <3>2, <3>5, <3>6, <1>3, <1>9, ContinueOne DEF Inv
  <2>3. CASE result \notin {"value", "error"}
    <3>1. Continue(t, <<>>)
      BY <2>3, <1>7
    <3> QED
      BY <3>1, <1>3, <1>9, ContinueNone DEF Inv
  <2> QED
    BY <2>1, <2>2, <2>3
<1>13. Types'
  BY <1>7, <1>12 DEF Inv, Types
<1>14. PromisesOK'
  BY <1>1, <1>2, <1>8, <1>11, <1>12, TouchPromises DEF Inv
<1>15. /\ f \in awaited' => Kind[f] = "then" /\ state'[f] = "Awaiting"
       /\ state'[f] \in {"Invoking", "Awaiting"} /\ head' = head /\ ~crashed'
  <2>1. result = "future" => Kind[f] = "then"
    BY <1>7 DEF TaskResults
  <2> QED
    BY <2>1, <1>4, <1>7 DEF Inv, Types
<1> QED
  BY <1>4, <1>8, <1>11, <1>12, <1>13, <1>14, <1>15, TouchInv DEF IsDone, Done

(* The state a call finds before it starts to set a result, and the call    *)
(* that sets it.                                                            *)
LEMMA StartSet ==
  ASSUME Inv, NEW t \in Thread, stack[t] # <<>>, NEW r0 \in Calls, r0 = Head(stack[t]), At(stack, r0),
         CallOK(r0), NEW f \in Future, r0.f = f, r0.op \in {"TryStartSetValue", "TryStartSetError"},
         NEW a \in Calls, a.f = f, a.op \in {"TrySetSuccess", "SetFailed"},
         (r0.op = "TryStartSetValue" <=> a.op = "TrySetSuccess"),
         state[f] \in {"Pending", "Posting", "Posted", "Invoking", "Awaiting"},
         Continue(t, <<a>>),
         state' = [state EXCEPT ![f] = "SettingResult"],
         hasValue' = [hasValue EXCEPT ![f] = IF r0.op = "TryStartSetValue" THEN TRUE ELSE hasValue[f]],
         UNCHANGED <<head, link, hasError, completed, clients, delivered, crashed>>
  PROVE  Inv'
<1>1. Single(f) => state[f] # "Pending" /\ Owns(r0)
  BY DEF CallOK, Owns
<1>2. Touches(f)
  BY <1>1 DEF Touches, Inv, Types, Done, clients
<1>3. /\ r0.op = "TryStartSetValue" => MaySucceedByParents(f) /\ Kind[f] # "share"
      /\ r0.op = "TryStartSetError" => MayFailByParents(f)
  BY DEF CallOK
<1>4. f \notin callbacks /\ f \notin awaited
  <2>1. CASE Single(f)
    BY <2>1, <1>1 DEF CallOK
  <2>2. CASE ~Single(f)
    BY <2>2 DEF Inv, HeldOK, Single
  <2> QED
    BY <2>1, <2>2
<1>5. /\ r0.op = "TryStartSetValue" => MaySucceedByParents(f)'
      /\ r0.op = "TryStartSetError" => MayFailByParents(f)'
  BY <1>2, <1>3, TouchParents DEF Inv
<1>6. state'[f] = "SettingResult" /\ (r0.op = "TryStartSetValue" => hasValue'[f])
  BY DEF Inv, Types
<1>7. CallOK(a)'
  <2>1. f \notin callbacks' /\ f \notin awaited'
    BY <1>4 DEF clients
  <2> QED
    BY <1>3, <1>5, <1>6, <2>1 DEF CallOK, ListOps
<1>8. ASSUME NEW r \in Calls, CallOK(r), Compatible(r0, r)
      PROVE  CallOK(r)' /\ Compatible(a, r)
  <2>1. CASE r.f # f
    <3>1. CallOK(r)'
      BY <2>1, <1>2, <1>8, TouchCalls DEF Inv
    <3>2. Compatible(a, r)
      BY <2>1 DEF Compatible, ListOps
    <3> QED
      BY <3>1, <3>2
  <2>2. CASE r.f = f
    <3>1. r.op \notin {"TrySetSuccess", "SetFailed"}
      <4>1. CASE Single(f)
        BY <4>1, <2>2, <1>1, <1>8 DEF Compatible, Owns
      <4>2. CASE ~Single(f)
        BY <4>2, <2>2, <1>8 DEF CallOK, Single
      <4> QED
        BY <4>1, <4>2
    <3>2. ~Abandons(r)
      BY <2>2, <1>8 DEF Compatible
    <3>3. ~Owns(r)
      <4>1. CASE Single(f)
        BY <4>1, <2>2, <1>1, <1>8 DEF Compatible
      <4>2. CASE Kind[f] = "whenAll"
        <5> SUFFICES ASSUME r.op = "TryStartSetValue"
                     PROVE  FALSE
          BY <3>1, <2>2, <4>2 DEF Owns, Single
        <5>1. MaySucceedByParents(f)
          BY <2>2, <1>8 DEF CallOK
        <5>2. CASE r0.op = "TryStartSetValue"
          BY <5>2, <2>2, <4>2, <1>8 DEF Compatible, Owns
        <5>3. CASE r0.op = "TryStartSetError"
          BY <5>1, <5>3, <4>2, <1>3 DEF MaySucceedByParents, MayFailByParents, IsMultiPost
        <5> QED
          BY <5>2, <5>3
      <4>3. CASE ~Single(f) /\ Kind[f] # "whenAll"
        BY <4>3, <3>1, <2>2 DEF Owns
      <4> QED
        BY <4>1, <4>2, <4>3
    <3>4. CallOK(r)'
      BY <3>2, <3>3, <1>2, <1>8, TouchCalls DEF Inv
    <3>5. Compatible(a, r)
      BY <3>2, <3>3 DEF Compatible, ListOps, Abandons
    <3> QED
      BY <3>4, <3>5
  <2> QED
    BY <2>1, <2>2
<1>9. /\ stack' \in [Thread -> Seq(Calls)] /\ CallsOK' /\ CallsCompatible(stack')
      /\ \A r \in Calls : At(stack, r) /\ r # Head(stack[t]) => At(stack', r)
      /\ At(stack', a)
  BY <1>7, <1>8, ContinueOne DEF Inv
<1>10. Types'
  BY <1>9 DEF Inv, Types, clients
<1>11. PromisesOK'
  <2>1. Kind[f] = "promise" => link'[f] = Null
    BY DEF Inv, PromisesOK
  <2> QED
    BY <2>1, <1>2, <1>6, <1>9, TouchPromises DEF Inv
<1>12. ~crashed' /\ head' = head /\ f \notin awaited'
  BY <1>4 DEF Inv, clients
<1> QED
  BY <1>2, <1>3, <1>4, <1>6, <1>9, <1>10, <1>11, <1>12, TouchInv DEF IsDone, Done

(* TryStartSetValue: a value is constructed once.                           *)
LEMMA TryStartSetValueInv ==
  ASSUME Inv, NEW t \in Thread, TryStartSetValue(t)
  PROVE  Inv'
<1>1. PICK r0 \in Calls :
        r0 = Head(stack[t]) /\ r0.op = "TryStartSetValue" /\ At(stack, r0) /\ CallOK(r0)
  BY TopCall DEF Inv, TryStartSetValue
<1>2. PICK f \in Future : f = r0.f
  BY DEF Calls
<1>3. stack[t] # <<>> /\ r0.sync \in BOOLEAN /\ r0.crash \in BOOLEAN
  BY <1>1, TopCall DEF Inv, TryStartSetValue, Calls, ListOps
<1>4. CASE MayStartSetValue(f, r0.sync)
  <2>0. PICK a \in Calls : a = Call("TrySetSuccess", f, TRUE, r0.sync)
    BY <1>3 DEF Call, Calls, CallOps
  <2>1. a = Call("TrySetSuccess", f, TRUE, r0.sync) /\ a.f = f /\ a.op = "TrySetSuccess"
    BY <2>0 DEF Call
  <2>2. /\ state' = [state EXCEPT ![f] = "SettingResult"] /\ hasValue' = [hasValue EXCEPT ![f] = TRUE]
        /\ Continue(t, <<a>>)
        /\ UNCHANGED <<head, link, hasError, completed, clients, delivered, crashed>>
    BY <2>1, <1>1, <1>2, <1>4 DEF TryStartSetValue
  <2>3. state[f] \in {"Pending", "Invoking", "Awaiting"}
    BY <1>4 DEF MayStartSetValue
  <2> QED
    BY <2>1, <2>2, <2>3, <1>1, <1>2, <1>3, StartSet
<1>5. CASE ~MayStartSetValue(f, r0.sync)
  <2>1. ~r0.crash
    BY <1>1, <1>2, <1>5, KindCases DEF CallOK, MayStartSetValue, IsMultiPost, Single
  <2> QED
    BY <2>1, <1>1, <1>2, <1>3, <1>5, ReturnInv DEF TryStartSetValue, Unexpected
<1> QED
  BY <1>4, <1>5

(* TryStartSetError: an error is accepted once, and never after a value.    *)
LEMMA TryStartSetErrorInv ==
  ASSUME Inv, NEW t \in Thread, TryStartSetError(t)
  PROVE  Inv'
<1>1. PICK r0 \in Calls :
        r0 = Head(stack[t]) /\ r0.op = "TryStartSetError" /\ At(stack, r0) /\ CallOK(r0)
  BY TopCall DEF Inv, TryStartSetError
<1>2. PICK f \in Future : f = r0.f
  BY DEF Calls
<1>3. stack[t] # <<>> /\ r0.sync \in BOOLEAN /\ r0.crash \in BOOLEAN
  BY <1>1, TopCall DEF Inv, TryStartSetError, Calls, ListOps
<1>4. CASE MayFail(f, r0.sync)
  <2>0. PICK a \in Calls : a = Call("SetFailed", f, TRUE, r0.sync)
    BY <1>3 DEF Call, Calls, CallOps
  <2>1. a = Call("SetFailed", f, TRUE, r0.sync) /\ a.f = f /\ a.op = "SetFailed"
    BY <2>0 DEF Call
  <2>2. /\ state' = [state EXCEPT ![f] = "SettingResult"]
        /\ Continue(t, <<a>>)
        /\ UNCHANGED <<head, data, clients, delivered, crashed>>
    BY <2>1, <1>1, <1>2, <1>4 DEF TryStartSetError
  <2>3. state[f] \in {"Pending", "Posting", "Posted", "Invoking", "Awaiting"}
    BY <1>4 DEF MayFail
  <2>4. hasValue' = [hasValue EXCEPT ![f] = hasValue[f]]
    BY <2>2 DEF data, Inv, Types
  <2> QED
    BY <2>1, <2>2, <2>3, <2>4, <1>1, <1>2, <1>3, StartSet DEF data
<1>5. CASE ~MayFail(f, r0.sync)
  <2>1. Abandons(r0) => link[f] = Null
    BY <1>2 DEF Abandons, Inv, PromisesOK
  <2>2. ~r0.crash
    BY <2>1, <1>1, <1>2, <1>5, KindCases DEF CallOK, MayFail, IsMultiPost, Single, Abandons
  <2> QED
    BY <2>2, <1>1, <1>2, <1>3, <1>5, ReturnInv DEF TryStartSetError, Unexpected
<1> QED
  BY <1>4, <1>5

(* A result is set and the continuations are taken out of the word: the     *)
(* first one is to be posted, and nobody else has it.                       *)
LEMMA SetResult ==
  ASSUME Inv, NEW t \in Thread, stack[t] # <<>>, NEW r0 \in Calls, r0 = Head(stack[t]), CallOK(r0),
         NEW f \in Future, r0.f = f, r0.op \in {"TrySetSuccess", "SetFailed"},
         NEW v, v = IF r0.op = "TrySetSuccess" THEN "Succeeded" ELSE "Failed",
         head[f] # Invoked,
         state' = [state EXCEPT ![f] = v],
         link' = [link EXCEPT ![f] = IF Kind[f] = "share" /\ v = "Succeeded" THEN link[f] ELSE Null],
         hasError' = [hasError EXCEPT ![f] = (v = "Failed")],
         TakeContinuations(t, f),
         UNCHANGED <<hasValue, completed, clients, delivered, crashed>>
  PROVE  Inv'
<1>1. /\ Owns(r0) /\ state[f] \in {"Invoking", "SettingResult"} /\ f \notin callbacks /\ f \notin awaited
      /\ v \in Done /\ v # "Pending" /\ (v = "Succeeded" \/ v = "Failed")
  BY DEF CallOK, Owns, Done
<1>2. /\ head' = [head EXCEPT ![f] = IF head[f] = Null THEN Null ELSE Invoked]
      /\ head'[f] \in {Null, Invoked} /\ state'[f] = v /\ hasError'[f] = (v = "Failed")
  BY DEF TakeContinuations, Inv, Types
<1>3. Touches(f)
  BY <1>1, <1>2 DEF Touches, Inv, Types, Done, clients
<1>4. \A r \in Calls : CallOK(r) /\ Compatible(Head(stack[t]), r) => CallOK(r)'
  BY <1>1, <1>3, OwnerOthers DEF Inv
<1>5. /\ stack' \in [Thread -> Seq(Calls)] /\ CallsOK' /\ CallsCompatible(stack')
      /\ \A r \in Calls : At(stack, r) /\ r # Head(stack[t]) => At(stack', r)
  <2>1. CASE head[f] = Null
    <3>1. Continue(t, <<>>)
      BY <2>1 DEF TakeContinuations
    <3> QED
      BY <3>1, <1>4, ContinueNone DEF Inv
  <2>2. CASE head[f] # Null
    <3>1. PICK h \in Future : h = head[f]
      BY <2>2 DEF Inv, Types
    <3>2. PICK a \in Calls : a = ListCall("PostContinuation", f, h)
      BY DEF Calls, ListCall, ListOps
    <3>3. a.op = "PostContinuation" /\ a.parent = f /\ a.f = h
      BY <3>2 DEF ListCall
    <3>4. Continue(t, <<a>>)
      BY <2>2, <3>1, <3>2 DEF TakeContinuations
    <3>5. Waits(f, h) /\ NotNext(h)
      BY <3>1 DEF Inv, HeadsOK
    <3>6. Waits(f, h)' /\ NotNext(h)'
      BY <3>5, <1>3, TouchWaits DEF Inv
    <3>7. CallOK(a)'
      BY <3>3, <3>6, <1>1, <1>2, FutureAssumption DEF CallOK, ListOps, IsDone, Owns
    <3>8. ASSUME NEW r \in Calls, CallOK(r)
          PROVE  Compatible(a, r)
      <4>1. Kind[h] # "promise"
        BY <3>5, EdgeFacts DEF Waits
      <4> QED
        BY <4>1, <3>1, <3>3, <3>8 DEF Compatible, CallOK, Owns, Abandons, ListOps
    <3> QED
      BY <3>4, <3>7, <3>8, <1>4, ContinueOne DEF Inv
  <2> QED
    BY <2>1, <2>2
<1>6. link' \in [Future -> Future \cup {Null}]
  BY DEF Inv, Types
<1>7. state' \in [Future -> Done \cup {"Pending", "Posting", "Posted", "Invoking", "Awaiting",
                                        "SettingResult"}]
  BY <1>1 DEF Inv, Types
<1>8. Types'
  <2>1. hasError' \in [Future -> BOOLEAN]
    BY DEF Inv, Types
  <2>2. head' \in [Future -> Future \cup {Null, Invoked}]
    BY <1>2 DEF Inv, Types
  <2> QED
    BY <2>1, <2>2, <1>5, <1>6, <1>7 DEF Inv, Types, clients
<1>9. PromisesOK'
  <2>1. Kind[f] = "promise" => link'[f] = Null /\ state'[f] \in Done /\ state'[f] # "SettingResult"
    BY <1>1, <1>2 DEF Inv, Types, Done
  <2> QED
    BY <2>1, <1>3, <1>5, TouchPromises DEF Inv
<1>10. /\ MaySucceedByParents(f) /\ v = "Succeeded" => MaySucceedByParents(f)'
       /\ MayFailByParents(f) => MayFailByParents(f)'
  BY <1>3, TouchParents DEF Inv, Types
<1>11. /\ v = "Succeeded" => MaySucceedByParents(f) /\ (Kind[f] # "share" => hasValue[f])
       /\ v = "Failed" => MayFailByParents(f)
  BY DEF CallOK
<1>12. state[f] # "Pending" /\ ~crashed' /\ f \notin awaited' /\ IsDone(f)' /\ hasValue' = hasValue
  BY <1>1, <1>2 DEF IsDone, Inv, clients
<1>13. /\ state'[f] = "Succeeded" =>
            MaySucceedByParents(f)' /\ (Kind[f] # "share" => hasValue'[f])
       /\ state'[f] = "Failed" => MayFailByParents(f)' /\ hasError'[f]
  BY <1>2, <1>10, <1>11, <1>12
<1> QED
  BY <1>1, <1>2, <1>3, <1>5, <1>8, <1>9, <1>12, <1>13, TouchInv

(* TrySetSuccess follows the construction of the value; the one of a shared *)
(* future follows its task.  Neither fails.                                 *)
LEMMA TrySetSuccessInv ==
  ASSUME Inv, NEW t \in Thread, TrySetSuccess(t)
  PROVE  Inv'
<1>1. PICK r0 \in Calls :
        r0 = Head(stack[t]) /\ r0.op = "TrySetSuccess" /\ At(stack, r0) /\ CallOK(r0)
  BY TopCall DEF Inv, TrySetSuccess
<1>2. PICK f \in Future : f = r0.f
  BY DEF Calls
<1>3. stack[t] # <<>>
  BY TopCall DEF Inv, TrySetSuccess
<1>4. MaySucceed(f, r0.sync) /\ state[f] \notin Done
  BY <1>1, <1>2 DEF CallOK, MaySucceed, IsVoidValue, Done
<1>5. head[f] # Invoked
  BY <1>4 DEF Inv, HeadsOK, IsDone
<1>6. /\ state' = [state EXCEPT ![f] = "Succeeded"]
      /\ link' = [link EXCEPT ![f] = IF Kind[f] = "share" THEN link[f] ELSE Null]
      /\ hasError' = [hasError EXCEPT ![f] = FALSE]
      /\ TakeContinuations(t, f)
      /\ UNCHANGED <<hasValue, completed, clients, delivered, crashed>>
  BY <1>1, <1>2, <1>4, <1>5 DEF TrySetSuccess
<1> QED
  BY <1>1, <1>2, <1>3, <1>5, <1>6, SetResult

(* SetFailed *)
LEMMA SetFailedInv ==
  ASSUME Inv, NEW t \in Thread, SetFailed(t)
  PROVE  Inv'
<1>1. PICK r0 \in Calls : r0 = Head(stack[t]) /\ r0.op = "SetFailed" /\ At(stack, r0) /\ CallOK(r0)
  BY TopCall DEF Inv, SetFailed
<1>2. PICK f \in Future : f = r0.f
  BY DEF Calls
<1>3. stack[t] # <<>>
  BY TopCall DEF Inv, SetFailed
<1>4. state[f] = "SettingResult"
  BY <1>1, <1>2 DEF CallOK
<1>5. head[f] # Invoked
  BY <1>4 DEF Inv, HeadsOK, IsDone, Done
<1>6. /\ state' = [state EXCEPT ![f] = "Failed"]
      /\ link' = [link EXCEPT ![f] = Null]
      /\ hasError' = [hasError EXCEPT ![f] = TRUE]
      /\ TakeContinuations(t, f)
      /\ UNCHANGED <<hasValue, completed, clients, delivered, crashed>>
  BY <1>1, <1>2, <1>4, <1>5 DEF SetFailed
<1> QED
  BY <1>1, <1>2, <1>3, <1>5, <1>6, SetResult

(* A step that changes the link of a continuation c that was not posted yet *)
(* and no state keeps every result.                                         *)
LEMMA RelinkResults ==
  ASSUME Inv, NEW c \in Future, Single(c) => state[c] = "Pending",
         \A g \in Future \ {c} : link'[g] = link[g], UNCHANGED <<state, hasError, hasValue, completed>>,
         UNCHANGED <<created, callbacks, awaited, delivered>>
  PROVE  /\ HeldOK' /\ NotCreatedOK' /\ DeliveredOK' /\ ResultsOK' /\ WhenAllOK'
         /\ \A g \in Future : /\ MayFailByParents(g) => MayFailByParents(g)'
                              /\ MaySucceedByParents(g) /\ (g # c \/ Kind[g] # "share") =>
                                   MaySucceedByParents(g)'
                              /\ HasInput(g) /\ g # c => HasInput(g)'
         /\ \A p, d : Waits(p, d) => Waits(p, d)'
<1>1. \A p, d : Waits(p, d) => Waits(p, d)'
  BY DEF Waits
<1>2. ASSUME NEW g \in Future
      PROVE  /\ MayFailByParents(g) => MayFailByParents(g)'
             /\ MaySucceedByParents(g) /\ (g # c \/ Kind[g] # "share") => MaySucceedByParents(g)'
             /\ HasInput(g) /\ g # c => HasInput(g)'
  BY DEF MayFailByParents, MaySucceedByParents, HasInput
<1>3. HeldOK'
  <2>1. \A d \in callbacks : d \in Future /\ d # c
    BY DEF Inv, Types, HeldOK, Single
  <2> QED
    BY <1>2, <2>1 DEF Inv, HeldOK
<1>4. NotCreatedOK' /\ DeliveredOK'
  BY DEF Inv, NotCreatedOK, DeliveredOK, IsDone
<1>5. ResultsOK'
  <2>1. \A g \in Future : state[g] = "Succeeded" => g # c \/ Kind[g] # "share"
    BY DEF Single
  <2> QED
    BY <1>2, <2>1 DEF Inv, ResultsOK
<1>6. WhenAllOK'
  BY DEF Inv, WhenAllOK, Counted
<1> QED
  BY <1>1, <1>2, <1>3, <1>4, <1>5, <1>6

(* The calls after such a step, but for what they say about lists.          *)
LEMMA RelinkCalls ==
  ASSUME Inv, NEW c \in Future, Single(c) => state[c] = "Pending",
         \A g \in Future \ {c} : link'[g] = link[g], UNCHANGED <<state, hasError, hasValue, completed>>,
         UNCHANGED <<created, callbacks, awaited, abandoned, delivered>>,
         NEW r \in Calls, CallOK(r),
         r.op \in ListOps => NotNext(r.f)' /\ head'[r.parent] # r.f,
         r.op = "AddContinuation" => IsShared(r.parent) \/ Kind[r.f] = "share" \/ head'[r.parent] = Null
  PROVE  CallOK(r)'
<1>0. r.f \in Future
  BY DEF Calls
<1>1. /\ MayFailByParents(r.f) => MayFailByParents(r.f)'
      /\ MaySucceedByParents(r.f) /\ (r.f # c \/ Kind[r.f] # "share") => MaySucceedByParents(r.f)'
      /\ HasInput(r.f) /\ r.f # c => HasInput(r.f)'
      /\ \A p, d : Waits(p, d) => Waits(p, d)'
  BY <1>0, RelinkResults
<1>2. r.f = c /\ Kind[r.f] = "share" => r.op \notin {"TrySetSuccess", "TryStartSetValue"}
  BY DEF CallOK, Single
<1>3. r.f = c => r.op \notin {"Invoke", "Task"}
  BY DEF CallOK
<1> QED
  BY <1>1, <1>2, <1>3 DEF CallOK, ListOps, IsDone

(* AddContinuation: c joins the list of p, or is posted as p is done.       *)
LEMMA AddContinuationInv ==
  ASSUME ArgumentsAreNotShared, Inv, NEW t \in Thread, AddContinuation(t)
  PROVE  Inv'
<1>1. PICK r0 \in Calls :
        r0 = Head(stack[t]) /\ r0.op = "AddContinuation" /\ At(stack, r0) /\ CallOK(r0)
  BY TopCall DEF Inv, AddContinuation
<1>2. PICK p, c : p = r0.parent /\ c = r0.f
  OBVIOUS
<1>3. stack[t] # <<>>
  BY TopCall DEF Inv, AddContinuation
<1>4. /\ Waits(p, c) /\ NotNext(c) /\ head[p] # c
      /\ IsShared(p) \/ Kind[c] = "share" \/ head[p] = Null
  BY <1>1, <1>2 DEF CallOK, ListOps
<1>5. /\ <<p, c>> \in Edge /\ p \in Future /\ c \in Future /\ Kind[c] # "promise" /\ c \in created
      /\ Single(c) => state[c] = "Pending" /\ p = Parent(c)
  BY <1>4, EdgeFacts DEF Waits
<1>6. MayJoin(p, c)
  BY <1>4 DEF MayJoin
<1>7. /\ UNCHANGED <<state, hasError, hasValue, completed, clients, delivered, crashed>>
      /\ \/ /\ IsDone(p) /\ head' = [head EXCEPT ![p] = Invoked] /\ link' = [link EXCEPT ![c] = Null]
            /\ Continue(t, <<ListCall("PostContinuation", p, c)>>)
         \/ /\ ~IsDone(p) /\ head' = [head EXCEPT ![p] = c] /\ link' = [link EXCEPT ![c] = head[p]]
            /\ Return(t)
  BY <1>1, <1>2, <1>6 DEF AddContinuation
<1>8. UNCHANGED <<created, callbacks, awaited, tried, abandoned>>
  BY <1>7 DEF clients
<1>9. \A g \in Future \ {c} : link'[g] = link[g]
  BY <1>7 DEF Inv, Types
<1>10. /\ HeldOK' /\ NotCreatedOK' /\ DeliveredOK' /\ ResultsOK' /\ WhenAllOK'
       /\ \A q, d : Waits(q, d) => Waits(q, d)'
  BY <1>5, <1>7, <1>8, <1>9, RelinkResults
<1>11. \A r \in Calls : Compatible(r0, r) => r0 # r
  BY <1>1 DEF Compatible, ListOps
<1>12. ASSUME /\ stack' \in [Thread -> Seq(Calls)]
              /\ \A r \in Calls : At(stack, r) /\ r # Head(stack[t]) => At(stack', r),
              head' \in [Future -> Future \cup {Null, Invoked}], link' \in [Future -> Future \cup {Null}]
       PROVE  Types' /\ PromisesOK'
  <2>1. Types'
    BY <1>7, <1>8, <1>12 DEF Inv, Types
  <2>2. PromisesOK'
    <3>1. \A q \in Future : Kind[q] = "promise" => link'[q] = link[q]
      BY <1>5, <1>9
    <3>2. \A r \in Calls : r.op \in {"TrySetSuccess", "SetFailed"} => r # Head(stack[t])
      BY <1>1
    <3> QED
      BY <3>1, <3>2, <1>7, <1>12 DEF Inv, PromisesOK
  <2> QED
    BY <2>1, <2>2
<1>13. CASE IsDone(p)
  <2>1. /\ head' = [head EXCEPT ![p] = Invoked] /\ link' = [link EXCEPT ![c] = Null]
        /\ Continue(t, <<ListCall("PostContinuation", p, c)>>)
    BY <1>7, <1>13
  <2>2. PICK a \in Calls : a = ListCall("PostContinuation", p, c)
    BY <1>5 DEF Calls, ListCall, ListOps
  <2>3. a.op = "PostContinuation" /\ a.parent = p /\ a.f = c
    BY <2>2 DEF ListCall
  <2>4. /\ head'[p] = Invoked /\ link'[c] = Null
        /\ \A q \in Future \ {p} : head'[q] = head[q]
    BY <2>1, <1>5 DEF Inv, Types
  <2>5. \A d \in Future : NotNext(d) => NotNext(d)'
    BY <2>4, <1>7, <1>9, FutureAssumption DEF NotNext
  <2>6. HeadsOK'
    <3>1. ASSUME NEW q \in Future
          PROVE  /\ IF IsDone(q)' THEN head'[q] \in {Null, Invoked} ELSE head'[q] # Invoked
                 /\ head'[q] # Null => \E d \in created' : <<q, d>> \in Edge
                 /\ head'[q] \in Future => Waits(q, head[q])' /\ NotNext(head[q])'
      <4>1. CASE q = p
        BY <4>1, <2>4, <1>5, <1>7, <1>8, <1>13, FutureAssumption DEF IsDone
      <4>2. CASE q # p
        <5>1. PICK h : h = head[q] /\ h = head'[q]
          BY <4>2, <2>4
        <5>2. /\ IF IsDone(q) THEN h \in {Null, Invoked} ELSE h # Invoked
              /\ h # Null => \E d \in created : <<q, d>> \in Edge
              /\ h \in Future => Waits(q, h) /\ NotNext(h)
          BY <5>1 DEF Inv, HeadsOK
        <5>3. h \in Future => Waits(q, h)' /\ NotNext(h)'
          BY <5>2, <1>10, <2>5
        <5>4. IsDone(q)' = IsDone(q)
          BY <1>7 DEF IsDone
        <5> QED
          BY <5>1, <5>2, <5>3, <5>4, <1>8 DEF Waits, NotNext
      <4> QED
        BY <4>1, <4>2
    <3> QED
      BY <3>1 DEF HeadsOK
  <2>7. LinksOK'
    <3>1. ASSUME NEW x \in Future, Single(x), state'[x] = "Pending", link'[x] # Null
          PROVE  /\ Single(link'[x]) /\ Waits(Parent(x), link[x])'
                 /\ \A y \in Future : Single(y) /\ state'[y] = "Pending" /\ link'[y] = link'[x] => y = x
      <4>1. PICK n : n = link[x] /\ n = link'[x] /\ x # c
        BY <3>1, <2>4, <1>9
      <4>2. /\ Single(n) /\ Waits(Parent(x), n)
            /\ \A y \in Future : Single(y) /\ state[y] = "Pending" /\ link[y] = n => y = x
        BY <4>1, <3>1, <1>7 DEF Inv, LinksOK
      <4>3. Waits(Parent(x), n)'
        BY <4>2, <1>10
      <4>4. \A y \in Future : link'[y] = n => link[y] = n
        BY <4>1, <3>1, <2>4, <1>9
      <4> QED
        BY <4>1, <4>2, <4>3, <4>4, <1>7 DEF Waits
    <3> QED
      BY <3>1 DEF LinksOK
  <2>8. \A r \in Calls : CallOK(r) /\ Compatible(Head(stack[t]), r) => CallOK(r)'
    <3> SUFFICES ASSUME NEW r \in Calls, CallOK(r), Compatible(r0, r)
                 PROVE  CallOK(r)'
      BY <1>1
    <3>1. r.op \in ListOps => r.f \in Future /\ r.parent \in Future /\ NotNext(r.f)
      BY DEF CallOK, Calls, CallOps, ListOps
    <3>2. r.op \in ListOps => NotNext(r.f)' /\ head'[r.parent] # r.f
      BY <3>1, <2>4, <2>5, FutureAssumption DEF CallOK
    <3>3. r.op = "AddContinuation" =>
            IsShared(r.parent) \/ Kind[r.f] = "share" \/ head'[r.parent] = Null
      BY <3>1, <2>4, <1>1, <1>2 DEF CallOK, Compatible, ListOps
    <3> QED
      BY <3>2, <3>3, <1>5, <1>7, <1>8, <1>9, RelinkCalls
  <2>9. CallOK(a)'
    BY <2>3, <2>4, <2>5, <1>4, <1>5, <1>7, <1>10, <1>13, FutureAssumption
       DEF CallOK, ListOps, Owns, IsDone
  <2>10. \A r \in Calls : CallOK(r) /\ Compatible(Head(stack[t]), r) => Compatible(a, r)
    BY <2>3, <1>1, <1>2, <1>5 DEF Compatible, ListOps, Owns, Abandons
  <2>11. /\ stack' \in [Thread -> Seq(Calls)] /\ CallsOK' /\ CallsCompatible(stack')
         /\ \A r \in Calls : At(stack, r) /\ r # Head(stack[t]) => At(stack', r)
    BY <2>1, <2>2, <2>8, <2>9, <2>10, <1>3, ContinueOne DEF Inv
  <2>12. head' \in [Future -> Future \cup {Null, Invoked}] /\ link' \in [Future -> Future \cup {Null}]
    BY <2>1 DEF Inv, Types
  <2> QED
    BY <2>6, <2>7, <2>11, <2>12, <1>7, <1>10, <1>12 DEF Inv
<1>14. CASE ~IsDone(p)
  <2>1. /\ head' = [head EXCEPT ![p] = c] /\ link' = [link EXCEPT ![c] = head[p]]
        /\ Continue(t, <<>>)
    BY <1>7, <1>14 DEF Return
  <2>2. PICK h : h = head[p]
    OBVIOUS
  <2>3. h \in Future \cup {Null} /\ h # c
    BY <2>2, <1>4, <1>5, <1>14 DEF Inv, Types, HeadsOK
  <2>4. /\ head'[p] = c /\ link'[c] = h
        /\ \A q \in Future \ {p} : head'[q] = head[q]
    BY <2>1, <2>2, <1>5 DEF Inv, Types
  <2>5. h \in Future => Waits(p, h) /\ NotNext(h) /\ Single(h) /\ p = Parent(h)
    <3> SUFFICES ASSUME h \in Future
                 PROVE  Waits(p, h) /\ NotNext(h) /\ Single(h) /\ p = Parent(h)
      OBVIOUS
    <3>1. Waits(p, h) /\ NotNext(h) /\ <<p, h>> \in Edge
      BY <2>2, <1>5 DEF Inv, HeadsOK, Waits
    <3>2. ~IsMultiPost(h)
      BY <3>1, <2>3, <1>5, SoleContinuation
    <3>3. Single(h)
      BY <3>1, <3>2, EdgeFacts, KindCases
    <3> QED
      BY <3>1, <3>3, EdgeFacts
  <2>6. \A d : d # h /\ NotNext(d) => NotNext(d)'
    BY <2>4, <1>7, <1>9 DEF NotNext
  <2>7. HeadsOK'
    <3>1. ASSUME NEW q \in Future
          PROVE  /\ IF IsDone(q)' THEN head'[q] \in {Null, Invoked} ELSE head'[q] # Invoked
                 /\ head'[q] # Null => \E d \in created' : <<q, d>> \in Edge
                 /\ head'[q] \in Future => Waits(q, head[q])' /\ NotNext(head[q])'
      <4>1. CASE q = p
        <5>1. Waits(p, c)' /\ NotNext(c)'
          BY <1>4, <1>10, <2>3, <2>6
        <5>2. ~IsDone(p)'
          BY <1>7, <1>14 DEF IsDone
        <5> QED
          BY <4>1, <5>1, <5>2, <2>4, <1>5, <1>8, FutureAssumption DEF Waits, NotNext
      <4>2. CASE q # p
        <5>1. PICK k : k = head[q] /\ k = head'[q]
          BY <4>2, <2>4
        <5>2. /\ IF IsDone(q) THEN k \in {Null, Invoked} ELSE k # Invoked
              /\ k # Null => \E d \in created : <<q, d>> \in Edge
              /\ k \in Future => Waits(q, k) /\ NotNext(k)
          BY <5>1 DEF Inv, HeadsOK
        <5>3. k \in Future => k # h
          BY <5>2, <4>2, <2>5, EdgeFacts DEF Waits
        <5>4. k \in Future => Waits(q, k)' /\ NotNext(k)'
          BY <5>2, <5>3, <1>10, <2>6
        <5>5. IsDone(q)' = IsDone(q)
          BY <1>7 DEF IsDone
        <5> QED
          BY <5>1, <5>2, <5>4, <5>5, <1>8 DEF Waits, NotNext
      <4> QED
        BY <4>1, <4>2
    <3> QED
      BY <3>1 DEF HeadsOK
  <2>8. LinksOK'
    <3>1. ASSUME NEW x \in Future, Single(x), state'[x] = "Pending", link'[x] # Null
          PROVE  /\ Single(link'[x]) /\ Waits(Parent(x), link[x])'
                 /\ \A y \in Future : Single(y) /\ state'[y] = "Pending" /\ link'[y] = link'[x] => y = x
      <4>1. PICK n : n = link'[x]
        OBVIOUS
      <4>2. CASE x = c
        <5>1. n = h /\ h \in Future
          BY <4>1, <4>2, <3>1, <2>3, <2>4
        <5>2. Single(n) /\ Waits(Parent(x), n)' /\ NotNext(n)
          BY <5>1, <4>2, <3>1, <2>5, <1>5, <1>10
        <5>3. \A y \in Future : Single(y) /\ state'[y] = "Pending" /\ link'[y] = n => y = x
          BY <5>2, <4>2, <1>7, <1>9 DEF NotNext
        <5> QED
          BY <5>2, <5>3, <4>1 DEF Waits
      <4>3. CASE x # c
        <5>1. n = link[x]
          BY <4>1, <4>3, <1>9
        <5>2. /\ Single(n) /\ Waits(Parent(x), n)
              /\ \A y \in Future : Single(y) /\ state[y] = "Pending" /\ link[y] = n => y = x
          BY <4>1, <5>1, <3>1, <1>7 DEF Inv, LinksOK
        <5>3. Waits(Parent(x), n)'
          BY <5>2, <1>10
        <5>4. n # h
          <6>1. n \in Future
            BY <5>2, EdgeFacts DEF Waits
          <6> QED
            BY <6>1, <5>1, <3>1, <2>5, <1>7 DEF NotNext
        <5> QED
          BY <4>1, <5>2, <5>3, <5>4, <2>4, <1>7, <1>9 DEF Waits
      <4> QED
        BY <4>2, <4>3
    <3> QED
      BY <3>1 DEF LinksOK
  <2>9. \A r \in Calls : CallOK(r) /\ Compatible(Head(stack[t]), r) => CallOK(r)'
    <3> SUFFICES ASSUME NEW r \in Calls, CallOK(r), Compatible(r0, r)
                 PROVE  CallOK(r)'
      BY <1>1
    <3>1. r.op \in ListOps => r.f \in Future /\ r.parent \in Future /\ NotNext(r.f)
                              /\ Waits(r.parent, r.f) /\ head[r.parent] # r.f
      BY DEF CallOK, Calls, CallOps, ListOps
    <3>2. r.op \in ListOps => r.f # h
      BY <3>1, <2>2, <2>5, EdgeFacts DEF Waits
    <3>3. r.op \in ListOps /\ r.parent = p => r.f # c
      BY <1>1, <1>2 DEF Compatible, ListOps
    <3>4. r.op \in ListOps => NotNext(r.f)' /\ head'[r.parent] # r.f
      BY <3>1, <3>2, <3>3, <2>4, <2>6
    <3>5. r.op = "AddContinuation" =>
            IsShared(r.parent) \/ Kind[r.f] = "share" \/ head'[r.parent] = Null
      BY <3>1, <2>4, <1>1, <1>2 DEF CallOK, Compatible, ListOps
    <3> QED
      BY <3>4, <3>5, <1>5, <1>7, <1>8, <1>9, RelinkCalls
  <2>10. /\ stack' \in [Thread -> Seq(Calls)] /\ CallsOK' /\ CallsCompatible(stack')
         /\ \A r \in Calls : At(stack, r) /\ r # Head(stack[t]) => At(stack', r)
    BY <2>1, <2>9, <1>3, ContinueNone DEF Inv
  <2>11. head' \in [Future -> Future \cup {Null, Invoked}] /\ link' \in [Future -> Future \cup {Null}]
    BY <2>1, <2>2, <2>3, <1>5 DEF Inv, Types
  <2> QED
    BY <2>7, <2>8, <2>10, <2>11, <1>7, <1>10, <1>12 DEF Inv
<1> QED
  BY <1>13, <1>14

(* What MultiPost changes: p's error, the count of w, and that p's result   *)
(* was delivered to w.                                                      *)
LEMMA MultiPostState ==
  ASSUME ArgumentsAreNotShared, Inv, NEW p \in Future, NEW w \in Future, <<p, w>> \in Edge,
         IsMultiPost(w), IsDone(p), w \in created, delivered[<<p, w>>] = 0,
         UNCHANGED <<state, head, link, hasValue, clients>>,
         hasError' = [hasError EXCEPT ![p] = FALSE],
         completed' = [completed EXCEPT ![w] =
           completed[w] + (IF Kind[w] = "whenAll" /\ state[p] = "Succeeded" THEN 1 ELSE 0)],
         delivered' = [delivered EXCEPT ![<<p, w>>] = delivered[<<p, w>>] + 1]
  PROVE  /\ HeadsOK' /\ LinksOK' /\ HeldOK' /\ NotCreatedOK' /\ DeliveredOK' /\ ResultsOK' /\ WhenAllOK'
         /\ \A q, d : Waits(q, d) /\ (q # p \/ d # w) => Waits(q, d)'
         /\ \A g \in Future : /\ MayFailByParents(g) => MayFailByParents(g)'
                              /\ MaySucceedByParents(g) => MaySucceedByParents(g)'
                              /\ HasInput(g) /\ ~IsDone(g) => HasInput(g)'
<1>1. /\ delivered'[<<p, w>>] = 1
      /\ \A e \in Edge : e # <<p, w>> => delivered'[e] = delivered[e]
      /\ \A e \in Edge : delivered[e] # 0 => delivered'[e] # 0
  BY DEF Inv, Types
<1>2. ~Single(w) /\ w \notin callbacks /\ w \notin awaited
  BY DEF IsMultiPost, Single, Inv, HeldOK
<1>3. UNCHANGED <<created, callbacks, awaited>> /\ (\A g \in Future \ {p} : hasError'[g] = hasError[g])
  BY DEF clients, Inv, Types
<1>4. ASSUME NEW q, NEW d, Waits(q, d), q # p \/ d # w
      PROVE  Waits(q, d)'
  <2>1. <<q, d>> \in Edge /\ <<q, d>> # <<p, w>>
    BY <1>4 DEF Waits
  <2>2. delivered'[<<q, d>>] = delivered[<<q, d>>]
    BY <2>1, <1>1
  <2> QED
    BY <2>2, <1>3, <1>4 DEF Waits
<1>5. ASSUME NEW g \in Future
      PROVE  /\ MayFailByParents(g) => MayFailByParents(g)'
             /\ MaySucceedByParents(g) => MaySucceedByParents(g)'
             /\ HasInput(g) /\ ~IsDone(g) => HasInput(g)'
  <2>1. \A i \in DOMAIN Parents[g] : <<Parents[g][i], g>> \in Edge
    BY ParentEdge
  <2>2. \A i \in DOMAIN Parents[g] :
          delivered[<<Parents[g][i], g>>] # 0 => delivered'[<<Parents[g][i], g>>] # 0
    BY <2>1, <1>1
  <2>3. MaySucceedByParents(g) => MaySucceedByParents(g)'
    BY <2>2 DEF MaySucceedByParents
  <2>4. MayFailByParents(g) => MayFailByParents(g)'
    BY DEF MayFailByParents
  <2>5. HasInput(g) /\ ~IsDone(g) => HasInput(g)'
    BY <1>3 DEF HasInput
  <2> QED
    BY <2>3, <2>4, <2>5
<1>6. HeadsOK'
  <2>1. ASSUME NEW q \in Future
        PROVE  /\ IF IsDone(q)' THEN head'[q] \in {Null, Invoked} ELSE head'[q] # Invoked
               /\ head'[q] # Null => \E d \in created' : <<q, d>> \in Edge
               /\ head'[q] \in Future => Waits(q, head[q])' /\ NotNext(head[q])'
    <3>1. PICK h : h = head[q] /\ h = head'[q]
      OBVIOUS
    <3>2. /\ IF IsDone(q) THEN h \in {Null, Invoked} ELSE h # Invoked
          /\ h # Null => \E d \in created : <<q, d>> \in Edge
          /\ h \in Future => Waits(q, h) /\ NotNext(h)
      BY <3>1 DEF Inv, HeadsOK
    <3>3. h \in Future => q # p
      BY <3>2, FutureAssumption
    <3>4. h \in Future => Waits(q, h)' /\ NotNext(h)'
      BY <3>2, <3>3, <1>4 DEF NotNext
    <3>5. IsDone(q)' = IsDone(q)
      BY DEF IsDone
    <3> QED
      BY <3>1, <3>2, <3>4, <3>5, <1>3 DEF Waits, NotNext
  <2> QED
    BY <2>1 DEF HeadsOK
<1>7. LinksOK'
  <2>1. ASSUME NEW x \in Future, Single(x), state'[x] = "Pending", link'[x] # Null
        PROVE  /\ Single(link'[x]) /\ Waits(Parent(x), link[x])'
               /\ \A y \in Future : Single(y) /\ state'[y] = "Pending" /\ link'[y] = link'[x] => y = x
    <3>1. PICK n : n = link[x] /\ n = link'[x]
      OBVIOUS
    <3>2. /\ Single(n) /\ Waits(Parent(x), n)
          /\ \A y \in Future : Single(y) /\ state[y] = "Pending" /\ link[y] = n => y = x
      BY <3>1, <2>1 DEF Inv, LinksOK
    <3>3. Waits(Parent(x), n)'
      BY <3>2, <1>2, <1>4
    <3> QED
      BY <3>1, <3>2, <3>3 DEF Waits
  <2> QED
    BY <2>1 DEF LinksOK
<1>8. HeldOK'
  <2>1. \A c \in callbacks : c \in Future /\ ~IsDone(c)
    BY DEF Inv, Types, HeldOK, IsDone, Done
  <2> QED
    BY <2>1, <1>3, <1>5 DEF Inv, HeldOK
<1>9. NotCreatedOK'
  <2>1. ASSUME NEW c \in Future, c \notin created'
        PROVE  /\ Single(c) => state'[c] = "Pending"
               /\ \A q \in Future : <<q, c>> \in Edge => delivered'[<<q, c>>] = 0
    <3>1. c # w /\ c \notin created
      BY <2>1, <1>3
    <3>2. \A q \in Future : <<q, c>> \in Edge => delivered'[<<q, c>>] = delivered[<<q, c>>]
      BY <3>1, <1>1
    <3> QED
      BY <3>1, <3>2 DEF Inv, NotCreatedOK
  <2> QED
    BY <2>1 DEF NotCreatedOK
<1>10. DeliveredOK'
  <2>1. ASSUME NEW e \in Edge, delivered'[e] # 0
        PROVE  state'[e[1]] \in Done
    <3>1. CASE e = <<p, w>>
      BY <3>1 DEF IsDone
    <3>2. CASE e # <<p, w>>
      BY <3>2, <2>1, <1>1 DEF Inv, DeliveredOK, IsDone
    <3> QED
      BY <3>1, <3>2
  <2> QED
    BY <2>1 DEF DeliveredOK, IsDone
<1>11. ResultsOK'
  <2>1. ASSUME NEW g \in Future
        PROVE  /\ state'[g] = "Succeeded" =>
                    MaySucceedByParents(g)' /\ (Kind[g] # "share" => hasValue'[g])
               /\ state'[g] = "Failed" =>
                    /\ MayFailByParents(g)'
                    /\ hasError'[g] \/ \E c \in Future : <<g, c>> \in Edge /\ IsMultiPost(c)
    BY <1>3, <1>5 DEF Inv, ResultsOK
  <2> QED
    BY <2>1 DEF ResultsOK
<1>12. ASSUME NEW v \in Future, v # w
       PROVE  Counted(v)' = Counted(v) /\ completed'[v] = completed[v]
  <2>1. \A i \in DOMAIN Parents[v] : delivered'[<<Parents[v][i], v>>] = delivered[<<Parents[v][i], v>>]
    BY <1>12, <1>1, ParentEdge
  <2> QED
    BY <2>1, <1>12 DEF Counted, Inv, Types
<1>13. Kind[w] = "whenAll" => completed'[w] = Cardinality(Counted(w)')
  <2> SUFFICES ASSUME Kind[w] = "whenAll"
               PROVE  completed'[w] = Cardinality(Counted(w)')
    OBVIOUS
  <2>1. PICK i0 \in DOMAIN Parents[w] : p = Parents[w][i0]
    BY EdgeFacts
  <2>2. \A i \in DOMAIN Parents[w] : i # i0 =>
          <<Parents[w][i], w>> # <<p, w>> /\ <<Parents[w][i], w>> \in Edge
    BY <2>1, KindAssumption, ParentEdge
  <2>3. \A i \in DOMAIN Parents[w] : i # i0 =>
          delivered'[<<Parents[w][i], w>>] = delivered[<<Parents[w][i], w>>]
    BY <2>2, <1>1
  <2>4. Counted(w)' = IF state[p] = "Succeeded" THEN Counted(w) \cup {i0} ELSE Counted(w)
    BY <2>1, <2>3, <1>1 DEF Counted
  <2>5. i0 \notin Counted(w)
    BY <2>1 DEF Counted
  <2>6. IsFiniteSet(Counted(w))
    <3>1. Parents[w] \in Seq(Future)
      BY KindAssumption
    <3>0. DOMAIN Parents[w] = 1 .. Len(Parents[w]) /\ Len(Parents[w]) \in Nat
      BY <3>1
    <3>2. IsFiniteSet(DOMAIN Parents[w])
      BY <3>0, FS_Interval
    <3>3. Counted(w) \subseteq DOMAIN Parents[w]
      BY DEF Counted
    <3> QED
      BY <3>2, <3>3, FS_Subset
  <2>7. completed[w] = Cardinality(Counted(w)) /\ completed[w] \in Nat
    BY DEF Inv, WhenAllOK, Types
  <2>8. CASE state[p] = "Succeeded"
    <3>1. Cardinality(Counted(w) \cup {i0}) = Cardinality(Counted(w)) + 1
      BY <2>5, <2>6, FS_AddElement
    <3>2. completed'[w] = completed[w] + 1
      BY <2>8 DEF Inv, Types
    <3> QED
      BY <2>4, <2>7, <2>8, <3>1, <3>2
  <2>9. CASE state[p] # "Succeeded"
    <3>1. completed'[w] = completed[w]
      BY <2>7, <2>9 DEF Inv, Types
    <3> QED
      BY <2>4, <2>7, <2>9, <3>1
  <2> QED
    BY <2>8, <2>9
<1>14. WhenAllOK'
  <2>1. ASSUME NEW v \in Future, Kind[v] = "whenAll"
        PROVE  /\ completed'[v] = Cardinality(Counted(v)')
               /\ \/ state'[v] = "Pending"
                  \/ \E i \in DOMAIN Parents[v] : state'[Parents[v][i]] = "Failed"
                  \/ \A i \in DOMAIN Parents[v] : delivered'[<<Parents[v][i], v>>] # 0
    <3>1. completed[v] = Cardinality(Counted(v))
      BY <2>1 DEF Inv, WhenAllOK
    <3>2. completed'[v] = Cardinality(Counted(v)')
      BY <3>1, <2>1, <1>12, <1>13
    <3>3. \A i \in DOMAIN Parents[v] :
            delivered[<<Parents[v][i], v>>] # 0 => delivered'[<<Parents[v][i], v>>] # 0
      BY <1>1, ParentEdge
    <3>4. \/ state[v] = "Pending"
          \/ \E i \in DOMAIN Parents[v] : state[Parents[v][i]] = "Failed"
          \/ \A i \in DOMAIN Parents[v] : delivered[<<Parents[v][i], v>>] # 0
      BY <2>1 DEF Inv, WhenAllOK
    <3> QED
      BY <3>2, <3>3, <3>4
  <2> QED
    BY <2>1 DEF WhenAllOK, Counted
<1> QED
  BY <1>4, <1>5, <1>6, <1>7, <1>8, <1>9, <1>10, <1>11, <1>14

(* The count is complete only when every parent succeeded.                  *)
LEMMA AllCounted ==
  ASSUME NEW w \in Future, NEW S \in SUBSET (DOMAIN Parents[w]), Cardinality(S) = Len(Parents[w])
  PROVE  S = DOMAIN Parents[w]
<1>1. Parents[w] \in Seq(Future)
  BY KindAssumption
<1>2. DOMAIN Parents[w] = 1 .. Len(Parents[w]) /\ Len(Parents[w]) \in Nat
  BY <1>1
<1>3. IsFiniteSet(DOMAIN Parents[w]) /\ Cardinality(DOMAIN Parents[w]) = Len(Parents[w])
  BY <1>2, FS_Interval
<1> QED
  BY <1>3, FS_Subset

(* PostContinuation to WhenAll or WhenAny: its task runs inline.            *)
LEMMA MultiPostInv ==
  ASSUME ~IsVoid, ArgumentsAreNotShared, Inv, NEW t \in Thread, stack[t] # <<>>,
         NEW r0 \in Calls, r0 = Head(stack[t]), r0.op = "PostContinuation", CallOK(r0),
         NEW p, NEW w, p = r0.parent, w = r0.f, IsMultiPost(w), MultiPost(t, p, w),
         delivered' = [delivered EXCEPT ![<<p, w>>] = delivered[<<p, w>>] + 1],
         UNCHANGED crashed
  PROVE  Inv'
<1>1. /\ Waits(p, w) /\ IsDone(p) /\ <<p, w>> \in Edge /\ p \in Future /\ w \in Future /\ w \in created
      /\ delivered[<<p, w>>] = 0 /\ Kind[w] # "promise" /\ ~Single(w)
      /\ Kind[w] = "whenAll" \/ Kind[w] = "whenAny"
  BY EdgeFacts DEF CallOK, ListOps, Waits, IsMultiPost, Single
<1>2. PICK count : count = completed[w] + (IF Kind[w] = "whenAll" /\ state[p] = "Succeeded" THEN 1 ELSE 0)
  OBVIOUS
<1>3. /\ completed' = [completed EXCEPT ![w] = count]
      /\ hasError' = [hasError EXCEPT ![p] = FALSE]
      /\ UNCHANGED <<state, head, link, hasValue, clients>>
      /\ Continue(t,
           IF state[p] = "Failed" THEN <<Call("TryStartSetError", w, FALSE, TRUE)>>
           ELSE IF Kind[w] = "whenAny" THEN <<SetValue(w, FALSE, TRUE)>>
           ELSE IF count = Len(Parents[w]) THEN <<SetValue(w, TRUE, TRUE)>>
           ELSE <<>>)
  BY <1>2 DEF MultiPost, word
<1>4. /\ HeadsOK' /\ LinksOK' /\ HeldOK' /\ NotCreatedOK' /\ DeliveredOK' /\ ResultsOK' /\ WhenAllOK'
      /\ \A q, d : Waits(q, d) /\ (q # p \/ d # w) => Waits(q, d)'
      /\ \A g \in Future : /\ MayFailByParents(g) => MayFailByParents(g)'
                           /\ MaySucceedByParents(g) => MaySucceedByParents(g)'
                           /\ HasInput(g) /\ ~IsDone(g) => HasInput(g)'
  BY <1>1, <1>2, <1>3, MultiPostState
<1>5. UNCHANGED <<created, callbacks, awaited, abandoned>>
  BY <1>3 DEF clients
<1>6. \A r \in Calls : CallOK(r) /\ Compatible(Head(stack[t]), r) => CallOK(r)'
  <2> SUFFICES ASSUME NEW r \in Calls, CallOK(r), Compatible(r0, r)
               PROVE  CallOK(r)'
    OBVIOUS
  <2>1. r.f \in Future
    BY DEF Calls
  <2>2. r.op \in ListOps => r.parent # p \/ r.f # w
    BY DEF Compatible, ListOps
  <2>3. r.op \in ListOps => Waits(r.parent, r.f)' /\ NotNext(r.f)' /\ head'[r.parent] # r.f
    BY <2>2, <1>3, <1>4 DEF CallOK, NotNext
  <2>4. /\ MayFailByParents(r.f) => MayFailByParents(r.f)'
        /\ MaySucceedByParents(r.f) => MaySucceedByParents(r.f)'
        /\ HasInput(r.f) /\ ~IsDone(r.f) => HasInput(r.f)'
    BY <2>1, <1>4
  <2>5. r.op \in {"Invoke", "Task"} => ~IsDone(r.f)
    BY DEF CallOK, IsDone, Done
  <2> QED
    BY <2>3, <2>4, <2>5, <1>3, <1>5 DEF CallOK, ListOps, IsDone
<1>7. state[p] \in {"Succeeded", "Failed"}
  BY <1>1 DEF IsDone, Done
<1>8. PICK i0 \in DOMAIN Parents[w] : p = Parents[w][i0]
  BY <1>1, EdgeFacts
<1>9. w \notin callbacks' /\ w \notin awaited'
  BY <1>1, <1>5 DEF Inv, HeldOK
<1>10. /\ stack' \in [Thread -> Seq(Calls)] /\ CallsOK' /\ CallsCompatible(stack')
       /\ \A r \in Calls : At(stack, r) /\ r # Head(stack[t]) => At(stack', r)
  <2>1. CASE state[p] = "Failed"
    <3>1. PICK a \in Calls : a = Call("TryStartSetError", w, FALSE, TRUE)
      BY <1>1 DEF Call, Calls, CallOps
    <3>2. a.op = "TryStartSetError" /\ a.f = w /\ a.crash = FALSE
      BY <3>1 DEF Call
    <3>3. Continue(t, <<a>>)
      BY <3>1, <2>1, <1>3
    <3>4. MayFailByParents(w)'
      BY <2>1, <1>1, <1>3, <1>8 DEF MayFailByParents
    <3>5. CallOK(a)'
      BY <3>2, <3>4, <1>1, <1>9 DEF CallOK, ListOps, Owns, Abandons
    <3>6. \A r \in Calls : CallOK(r) /\ Compatible(Head(stack[t]), r) => Compatible(a, r)
      BY <3>2, <1>1 DEF Compatible, ListOps, Owns, Abandons
    <3> QED
      BY <3>3, <3>5, <3>6, <1>6, ContinueOne DEF Inv
  <2>2. CASE state[p] = "Succeeded" /\ Kind[w] = "whenAny"
    <3>1. PICK a \in Calls : a = SetValue(w, FALSE, TRUE) /\ a.f = w /\ a.crash = FALSE
                             /\ a.op = "TryStartSetValue"
      BY <2>2, <1>1, SetValueCall
    <3>2. Continue(t, <<a>>)
      BY <3>1, <2>2, <1>3
    <3>3. MaySucceedByParents(w)'
      BY <2>2, <1>1, <1>3, <1>8 DEF MaySucceedByParents
    <3>4. CallOK(a)'
      BY <3>1, <3>3, <2>2, <1>1, <1>9 DEF CallOK, ListOps, Owns, Abandons
    <3>5. \A r \in Calls : CallOK(r) /\ Compatible(Head(stack[t]), r) => Compatible(a, r)
      BY <3>1, <2>2, <1>1 DEF Compatible, ListOps, Owns, Abandons, Single
    <3> QED
      BY <3>2, <3>4, <3>5, <1>6, ContinueOne DEF Inv
  <2>3. CASE state[p] = "Succeeded" /\ Kind[w] = "whenAll" /\ count = Len(Parents[w])
    <3>1. PICK a \in Calls : a = SetValue(w, TRUE, TRUE) /\ a.f = w /\ a.op = "TryStartSetValue"
      BY <2>3, <1>1, SetValueCall
    <3>2. Continue(t, <<a>>)
      BY <3>1, <2>3, <1>3
    <3>3. Cardinality(Counted(w)') = Len(Parents[w])
      <4>1. completed'[w] = count
        BY <1>1, <1>3 DEF Inv, Types
      <4>2. completed'[w] = Cardinality(Counted(w)')
        BY <2>3, <1>1, <1>4 DEF WhenAllOK
      <4> QED
        BY <4>1, <4>2, <2>3
    <3>4. Counted(w)' = DOMAIN Parents[w]
      <4>1. PICK S \in SUBSET (DOMAIN Parents[w]) : S = Counted(w)'
        BY DEF Counted
      <4>2. S = DOMAIN Parents[w]
        BY <4>1, <3>3, <1>1, AllCounted
      <4> QED
        BY <4>1, <4>2
    <3>5. \A i \in DOMAIN Parents[w] :
            state[Parents[w][i]] = "Succeeded" /\ delivered'[<<Parents[w][i], w>>] # 0
      BY <3>4, <1>3 DEF Counted
    <3>6. MaySucceedByParents(w)'
      BY <3>5, <2>3, <1>3 DEF MaySucceedByParents
    <3>7. delivered[<<Parents[w][i0], w>>] = 0
      BY <1>1, <1>8
    <3>8. state[w] = "Pending"
      BY <3>5, <3>7, <2>3, <1>1 DEF Inv, WhenAllOK
    <3>9. CallOK(a)'
      BY <3>1, <3>6, <3>8, <2>3, <1>1, <1>3, <1>9 DEF CallOK, ListOps, Owns, Abandons
    <3>10. ASSUME NEW r \in Calls, CallOK(r), r.f = w
           PROVE  ~Owns(r) /\ ~Abandons(r)
      <4>1. ~MaySucceedByParents(w) /\ ~MayFailByParents(w)
        BY <3>5, <3>7, <2>3 DEF MaySucceedByParents, MayFailByParents, IsMultiPost
      <4> QED
        BY <4>1, <3>10, <1>1 DEF CallOK, Owns, Abandons
    <3>11. \A r \in Calls : CallOK(r) /\ Compatible(Head(stack[t]), r) => Compatible(a, r)
      BY <3>1, <3>10, <1>1 DEF Compatible, ListOps, Abandons
    <3> QED
      BY <3>2, <3>9, <3>11, <1>6, ContinueOne DEF Inv
  <2>4. CASE state[p] = "Succeeded" /\ Kind[w] = "whenAll" /\ count # Len(Parents[w])
    <3>1. Continue(t, <<>>)
      BY <2>4, <1>3
    <3> QED
      BY <3>1, <1>6, ContinueNone DEF Inv
  <2> QED
    BY <2>1, <2>2, <2>3, <2>4, <1>1, <1>7
<1>11. Types'
  <2>1. count \in Nat
    BY <1>1, <1>2 DEF Inv, Types
  <2>2. completed' \in [Future -> Nat] /\ hasError' \in [Future -> BOOLEAN]
    BY <2>1, <1>3 DEF Inv, Types
  <2>3. delivered' \in [Edge -> Nat]
    BY <1>1 DEF Inv, Types
  <2> QED
    BY <2>2, <2>3, <1>3, <1>5, <1>10 DEF Inv, Types
<1>12. PromisesOK'
  <2>1. \A r \in Calls : r.op \in {"TrySetSuccess", "SetFailed"} => r # Head(stack[t])
    OBVIOUS
  <2> QED
    BY <2>1, <1>3, <1>10 DEF Inv, PromisesOK
<1> QED
  BY <1>4, <1>10, <1>11, <1>12 DEF Inv

(* What PostOne changes: c leaves Pending with its parent's result.         *)
LEMMA PostOneState ==
  ASSUME ArgumentsAreNotShared, Inv, NEW p \in Future, NEW c \in Future, <<p, c>> \in Edge,
         Single(c), state[c] = "Pending", IsDone(p), c \in created, NotNext(c),
         state' = [state EXCEPT ![c] = "Posting"],
         link' = [link EXCEPT ![c] = IF state[p] = "Succeeded" THEN p ELSE Null],
         hasError' = [hasError EXCEPT ![c] = (state[p] = "Failed" /\ hasError[p])],
         delivered' = [delivered EXCEPT ![<<p, c>>] = delivered[<<p, c>>] + 1],
         UNCHANGED <<head, hasValue, completed, created, awaited>>
  PROVE  /\ HeadsOK' /\ LinksOK' /\ NotCreatedOK' /\ DeliveredOK' /\ ResultsOK' /\ WhenAllOK'
         /\ HasInput(c)' /\ state'[c] = "Posting"
         /\ \A q, d : Waits(q, d) /\ d # c => Waits(q, d)'
         /\ \A d : NotNext(d) => NotNext(d)'
         /\ \A g \in Future : /\ MayFailByParents(g) => MayFailByParents(g)'
                              /\ MaySucceedByParents(g) /\ (g # c \/ Kind[g] # "share") =>
                                   MaySucceedByParents(g)'
                              /\ HasInput(g) /\ Single(g) /\ g # c => HasInput(g)'
<1>1. /\ state'[c] = "Posting" /\ p = Parent(c) /\ p # c
      /\ link'[c] = (IF state[p] = "Succeeded" THEN p ELSE Null)
      /\ hasError'[c] = (state[p] = "Failed" /\ hasError[p])
      /\ \A g \in Future \ {c} : /\ state'[g] = state[g] /\ link'[g] = link[g]
                                 /\ hasError'[g] = hasError[g]
      /\ \A e \in Edge : e # <<p, c>> => delivered'[e] = delivered[e]
      /\ \A e \in Edge : delivered[e] # 0 => delivered'[e] # 0
  <2>1. p = Parent(c) /\ p # c
    BY EdgeFacts DEF IsDone, Done
  <2>2. /\ \A e \in Edge : e # <<p, c>> => delivered'[e] = delivered[e]
        /\ \A e \in Edge : delivered[e] # 0 => delivered'[e] # 0
    <3>1. PICK d : d = delivered[<<p, c>>]
      OBVIOUS
    <3>2. d \in Nat /\ delivered'[<<p, c>>] = d + 1
      BY <3>1 DEF Inv, Types
    <3>3. \A e \in Edge : e # <<p, c>> => delivered'[e] = delivered[e]
      BY DEF Inv, Types
    <3>4. delivered'[<<p, c>>] # 0
      BY <3>2
    <3> QED
      BY <3>3, <3>4
  <2>3. hasError'[c] = (state[p] = "Failed" /\ hasError[p])
    BY DEF Inv, Types
  <2> QED
    BY <2>1, <2>2, <2>3 DEF Inv, Types
<1>2. \A h \in Future : state[h] \in {"Succeeded", "Failed"} => state'[h] = state[h]
  BY <1>1
<1>3. HasInput(c)'
  <2>1. ~\E d \in Future : <<p, d>> \in Edge /\ IsMultiPost(d)
    BY SoleContinuation DEF Single, IsMultiPost
  <2>2. state[p] = "Failed" => hasError[p]
    BY <2>1 DEF Inv, ResultsOK
  <2>3. state'[p] = state[p] /\ state[p] \in {"Succeeded", "Failed"}
    BY <1>1 DEF IsDone, Done
  <2> QED
    BY <2>2, <2>3, <1>1 DEF HasInput
<1>4. ASSUME NEW q, NEW d, Waits(q, d), d # c
      PROVE  Waits(q, d)'
  <2>1. <<q, d>> \in Edge /\ <<q, d>> # <<p, c>> /\ d \in Future
    BY <1>4, EdgeFacts DEF Waits
  <2>2. delivered'[<<q, d>>] = delivered[<<q, d>>] /\ state'[d] = state[d]
    BY <2>1, <1>1, <1>4
  <2> QED
    BY <2>2, <1>4 DEF Waits
<1>5. \A d : NotNext(d) => NotNext(d)'
  BY <1>1 DEF NotNext
<1>6. ASSUME NEW g \in Future
      PROVE  /\ MayFailByParents(g) => MayFailByParents(g)'
             /\ MaySucceedByParents(g) /\ (g # c \/ Kind[g] # "share") => MaySucceedByParents(g)'
             /\ HasInput(g) /\ Single(g) /\ g # c => HasInput(g)'
  <2>1. \A i \in DOMAIN Parents[g] : <<Parents[g][i], g>> \in Edge /\ Parents[g][i] \in Future
    BY ParentEdge
  <2>2. \A i \in DOMAIN Parents[g] :
          delivered[<<Parents[g][i], g>>] # 0 => delivered'[<<Parents[g][i], g>>] # 0
    BY <2>1, <1>1
  <2>3. Single(g) => Parent(g) \in Future
    BY SingleParent
  <2>4. MaySucceedByParents(g) /\ (g # c \/ Kind[g] # "share") => MaySucceedByParents(g)'
    BY <2>1, <2>2, <2>3, <1>1, <1>2 DEF MaySucceedByParents, Single
  <2>5. MayFailByParents(g) => MayFailByParents(g)'
    BY <2>1, <2>3, <1>2 DEF MayFailByParents, Single
  <2>6. HasInput(g) /\ Single(g) /\ g # c => HasInput(g)'
    BY <2>3, <1>1, <1>2 DEF HasInput
  <2> QED
    BY <2>4, <2>5, <2>6
<1>7. HeadsOK'
  <2>1. ASSUME NEW q \in Future
        PROVE  /\ IF IsDone(q)' THEN head'[q] \in {Null, Invoked} ELSE head'[q] # Invoked
               /\ head'[q] # Null => \E d \in created' : <<q, d>> \in Edge
               /\ head'[q] \in Future => Waits(q, head[q])' /\ NotNext(head[q])'
    <3>1. PICK h : h = head[q] /\ h = head'[q]
      OBVIOUS
    <3>2. /\ IF IsDone(q) THEN h \in {Null, Invoked} ELSE h # Invoked
          /\ h # Null => \E d \in created : <<q, d>> \in Edge
          /\ h \in Future => Waits(q, h) /\ NotNext(h)
      BY <3>1 DEF Inv, HeadsOK
    <3>3. h \in Future => h # c
      BY <3>2, <1>1, EdgeFacts, FutureAssumption DEF Waits
    <3>4. h \in Future => Waits(q, h)' /\ NotNext(h)'
      BY <3>2, <3>3, <1>4, <1>5
    <3>5. IsDone(q)' = IsDone(q)
      BY <1>1 DEF IsDone, Done
    <3> QED
      BY <3>1, <3>2, <3>4, <3>5 DEF Waits, NotNext
  <2> QED
    BY <2>1 DEF HeadsOK
<1>8. LinksOK'
  <2>1. ASSUME NEW x \in Future, Single(x), state'[x] = "Pending", link'[x] # Null
        PROVE  /\ Single(link'[x]) /\ Waits(Parent(x), link[x])'
               /\ \A y \in Future : Single(y) /\ state'[y] = "Pending" /\ link'[y] = link'[x] => y = x
    <3>1. PICK n : n = link[x] /\ n = link'[x] /\ state[x] = "Pending"
      BY <2>1, <1>1
    <3>2. /\ Single(n) /\ Waits(Parent(x), n)
          /\ \A y \in Future : Single(y) /\ state[y] = "Pending" /\ link[y] = n => y = x
      BY <3>1, <2>1 DEF Inv, LinksOK
    <3>3. n # c
      BY <3>1, <2>1 DEF NotNext
    <3>4. Waits(Parent(x), n)'
      BY <3>2, <3>3, <1>4
    <3>5. \A y \in Future : state'[y] = "Pending" => state[y] = "Pending" /\ link'[y] = link[y]
      BY <1>1
    <3> QED
      BY <3>1, <3>2, <3>4, <3>5 DEF Waits
  <2> QED
    BY <2>1 DEF LinksOK
<1>9. NotCreatedOK'
  <2>1. ASSUME NEW d \in Future, d \notin created'
        PROVE  /\ Single(d) => state'[d] = "Pending"
               /\ \A q \in Future : <<q, d>> \in Edge => delivered'[<<q, d>>] = 0
    <3>1. d # c /\ d \notin created
      BY <2>1
    <3>2. \A q \in Future : <<q, d>> \in Edge => delivered'[<<q, d>>] = delivered[<<q, d>>]
      BY <3>1, <1>1
    <3> QED
      BY <3>1, <3>2, <1>1 DEF Inv, NotCreatedOK
  <2> QED
    BY <2>1 DEF NotCreatedOK
<1>10. DeliveredOK'
  <2>1. ASSUME NEW e \in Edge, delivered'[e] # 0
        PROVE  state'[e[1]] \in Done
    <3>1. CASE e = <<p, c>>
      BY <3>1, <1>1 DEF IsDone
    <3>2. CASE e # <<p, c>>
      <4>1. e[1] \in Future /\ state[e[1]] \in Done
        BY <3>2, <2>1, <1>1, ParentEdge DEF Inv, DeliveredOK, IsDone, Edge
      <4> QED
        BY <4>1, <1>1 DEF Done
    <3> QED
      BY <3>1, <3>2
  <2> QED
    BY <2>1 DEF DeliveredOK, IsDone
<1>11. ResultsOK'
  <2>1. ASSUME NEW g \in Future
        PROVE  /\ state'[g] = "Succeeded" =>
                    MaySucceedByParents(g)' /\ (Kind[g] # "share" => hasValue'[g])
               /\ state'[g] = "Failed" =>
                    /\ MayFailByParents(g)'
                    /\ hasError'[g] \/ \E d \in Future : <<g, d>> \in Edge /\ IsMultiPost(d)
    BY <1>1, <1>6 DEF Inv, ResultsOK
  <2> QED
    BY <2>1 DEF ResultsOK
<1>12. WhenAllOK'
  <2>1. ASSUME NEW w \in Future, Kind[w] = "whenAll"
        PROVE  /\ completed'[w] = Cardinality(Counted(w)')
               /\ \/ state'[w] = "Pending"
                  \/ \E i \in DOMAIN Parents[w] : state'[Parents[w][i]] = "Failed"
                  \/ \A i \in DOMAIN Parents[w] : delivered'[<<Parents[w][i], w>>] # 0
    <3>1. w # c
      BY <2>1 DEF Single
    <3>2. \A i \in DOMAIN Parents[w] :
            /\ Parents[w][i] \in Future
            /\ delivered'[<<Parents[w][i], w>>] = delivered[<<Parents[w][i], w>>]
      BY <3>1, <1>1, ParentEdge
    <3>3. ASSUME NEW i \in DOMAIN Parents[w], delivered[<<Parents[w][i], w>>] # 0
          PROVE  state'[Parents[w][i]] = state[Parents[w][i]]
      <4>1. PICK q : q = Parents[w][i]
        OBVIOUS
      <4>2. <<q, w>> \in Edge /\ delivered[<<q, w>>] # 0 /\ q \in Future
        BY <3>3, <4>1, ParentEdge
      <4>3. state[<<q, w>>[1]] \in Done
        BY <4>2 DEF Inv, DeliveredOK, IsDone
      <4> QED
        BY <4>1, <4>2, <4>3, <1>2 DEF Done
    <3>4. Counted(w)' = Counted(w)
      BY <3>2, <3>3 DEF Counted
    <3>5. /\ completed[w] = Cardinality(Counted(w))
          /\ \/ state[w] = "Pending"
             \/ \E i \in DOMAIN Parents[w] : state[Parents[w][i]] = "Failed"
             \/ \A i \in DOMAIN Parents[w] : delivered[<<Parents[w][i], w>>] # 0
      BY <2>1 DEF Inv, WhenAllOK
    <3> QED
      BY <3>1, <3>2, <3>4, <3>5, <1>1, <1>2
  <2> QED
    BY <2>1 DEF WhenAllOK, Counted
<1> QED
  BY <1>1, <1>3, <1>4, <1>5, <1>6, <1>7, <1>8, <1>9, <1>10, <1>11, <1>12

(* The calls PostOne makes.                                                 *)
LEMMA PostOneCalls ==
  ASSUME NEW i \in Calls, NEW s \in Calls, NEW n \in Calls,
         i.op = "Invoke", s.op = "TrySetPosted", n.op = "PostContinuation",
         NEW calls, calls \in {<<i>>, <<i, n>>, <<i, s>>, <<i, s, n>>, <<s>>, <<s, n>>}
  PROVE  /\ calls \in Seq(Calls)
         /\ \A k \in DOMAIN calls : calls[k] \in {i, s, n}
         /\ \A j, k \in DOMAIN calls : j # k => calls[j].op # calls[k].op
         /\ calls \in {<<i, n>>, <<i, s, n>>, <<s, n>>} => \E k \in DOMAIN calls : calls[k] = n
         /\ calls \in {<<i>>, <<i, s>>, <<s>>} => \A k \in DOMAIN calls : calls[k] # n
         /\ calls \in {<<s>>, <<s, n>>} => \A k \in DOMAIN calls : calls[k] # i
<1>1. CASE calls = <<i>>
  BY <1>1
<1>2. CASE calls = <<i, n>>
  BY <1>2
<1>3. CASE calls = <<i, s>>
  BY <1>3
<1>4. CASE calls = <<i, s, n>>
  BY <1>4
<1>5. CASE calls = <<s>>
  BY <1>5
<1>6. CASE calls = <<s, n>>
  BY <1>6
<1> QED
  BY <1>1, <1>2, <1>3, <1>4, <1>5, <1>6

(* Two calls in a row.                                                      *)
LEMMA Pair ==
  ASSUME NEW a \in Calls, NEW b \in Calls
  PROVE  <<a>> \o <<b>> = <<a, b>>
<1>1. <<a>> \in Seq(Calls) /\ <<b>> \in Seq(Calls)
  OBVIOUS
<1>2. <<a, b>> \in Seq(Calls) /\ Len(<<a, b>>) = 2 /\ <<a, b>>[1] = a /\ <<a, b>>[2] = b
  OBVIOUS
<1>3. Len(<<a>>) = 1 /\ Len(<<b>>) = 1 /\ <<a>>[1] = a /\ <<b>>[1] = b
  OBVIOUS
<1>4. PICK s \in Seq(Calls) : s = <<a>> \o <<b>>
  BY <1>1, ConcatProperties
<1>5. Len(s) = 2 /\ s[1] = a /\ s[2] = b
  BY <1>1, <1>3, <1>4, ConcatProperties
<1>6. Len(s) = Len(<<a, b>>) /\ \A k \in 1 .. Len(s) : s[k] = <<a, b>>[k]
  BY <1>2, <1>5
<1> QED
  BY <1>2, <1>4, <1>6, SeqEqual

(* Three calls in a row.                                                    *)
LEMMA Triple ==
  ASSUME NEW a \in Calls, NEW b \in Calls, NEW c \in Calls
  PROVE  <<a, b>> \o <<c>> = <<a, b, c>>
<1>1. <<a, b>> \in Seq(Calls) /\ <<c>> \in Seq(Calls)
  OBVIOUS
<1>2. /\ <<a, b, c>> \in Seq(Calls) /\ Len(<<a, b, c>>) = 3 /\ <<a, b, c>>[1] = a
      /\ <<a, b, c>>[2] = b /\ <<a, b, c>>[3] = c
  OBVIOUS
<1>3. Len(<<a, b>>) = 2 /\ Len(<<c>>) = 1 /\ <<a, b>>[1] = a /\ <<a, b>>[2] = b /\ <<c>>[1] = c
  OBVIOUS
<1>4. PICK s \in Seq(Calls) : s = <<a, b>> \o <<c>>
  BY <1>1, ConcatProperties
<1>5. Len(s) = 3 /\ s[1] = a /\ s[2] = b /\ s[3] = c
  BY <1>1, <1>3, <1>4, ConcatProperties
<1>6. Len(s) = Len(<<a, b, c>>) /\ \A k \in 1 .. Len(s) : s[k] = <<a, b, c>>[k]
  BY <1>2, <1>5
<1> QED
  BY <1>2, <1>4, <1>6, SeqEqual

(* The calls of PostOne as one sequence.                                    *)
LEMMA PostOneTuples ==
  ASSUME NEW i \in Calls, NEW s \in Calls, NEW n \in Calls
  PROVE  /\ <<i>> \o <<>> = <<i>> /\ <<i>> \o <<n>> = <<i, n>>
         /\ <<i>> \o <<s>> \o <<>> = <<i, s>> /\ <<i>> \o <<s>> \o <<n>> = <<i, s, n>>
         /\ <<s>> \o <<>> = <<s>> /\ <<s>> \o <<n>> = <<s, n>>
<1>1. <<i>> \o <<>> = <<i>> /\ <<s>> \o <<>> = <<s>> /\ <<i, s>> \o <<>> = <<i, s>>
  OBVIOUS
<1>2. <<i>> \o <<n>> = <<i, n>> /\ <<s>> \o <<n>> = <<s, n>> /\ <<i>> \o <<s>> = <<i, s>>
  BY Pair
<1>3. <<i, s>> \o <<n>> = <<i, s, n>>
  BY Triple
<1> QED
  BY <1>1, <1>2, <1>3

(* What PostOne calls: the task or its posting, and the next of the list.   *)
Makes(t, p, c, i, s, n, calls) ==
  /\ i.op = "Invoke" /\ i.f = c /\ s.op = "TrySetPosted" /\ s.f = c
  /\ n.op = "PostContinuation"
  /\ link[c] # Null => n = ListCall("PostContinuation", p, link[c]) /\ n.parent = p /\ n.f = link[c]
  /\ Continue(t, calls)
  /\ \A k \in DOMAIN calls : calls[k] \in {i, s, n}
  /\ \A j, k \in DOMAIN calls : j # k => calls[j].op # calls[k].op
  /\ IF link[c] = Null THEN \A k \in DOMAIN calls : calls[k] # n
     ELSE \E k \in DOMAIN calls : calls[k] = n
  /\ \A k \in DOMAIN calls : calls[k] = i => callbacks' = callbacks
  /\ callbacks' = callbacks \/ (Kind[c] = "then" /\ callbacks' = callbacks \cup {c})

(* PostOne replaces the top call by at most an Invoke, a result and the     *)
(* next in the list.                                                        *)
LEMMA PostOneMakes ==
  ASSUME Types, NEW t \in Thread, NEW p \in Future, NEW c \in Future, PostOne(t, p, c)
  PROVE  \E i, s, n \in Calls, calls \in Seq(Calls) :
           Makes(t, p, c, i, s, n, calls)
<1>1. PICK i \in Calls : i = Call("Invoke", c, TRUE, TRUE)
  BY DEF Call, Calls, CallOps
<1>2. PICK s \in Calls : s = Call("TrySetPosted", c, TRUE, TRUE)
  BY DEF Call, Calls, CallOps
<1>3. PICK n \in Calls : /\ link[c] # Null => n = ListCall("PostContinuation", p, link[c])
                         /\ n.op = "PostContinuation"
  <2>1. PICK l \in Future : link[c] # Null => l = link[c]
    BY DEF Types
  <2>2. PICK n \in Calls : n = ListCall("PostContinuation", p, l)
    BY DEF Calls, ListCall, ListOps
  <2>3. n.op = "PostContinuation"
    BY <2>2 DEF ListCall
  <2> QED
    BY <2>1, <2>2, <2>3
<1>4. /\ i.op = "Invoke" /\ i.f = c /\ s.op = "TrySetPosted" /\ s.f = c
      /\ link[c] # Null => n.parent = p /\ n.f = link[c]
  BY <1>1, <1>2, <1>3 DEF Call, ListCall
<1>5. PICK calls : /\ Continue(t, calls)
                   /\ calls \in {<<i>>, <<i, n>>, <<i, s>>, <<i, s, n>>, <<s>>, <<s, n>>}
                   /\ IF link[c] = Null THEN calls \in {<<i>>, <<i, s>>, <<s>>}
                      ELSE calls \in {<<i, n>>, <<i, s, n>>, <<s, n>>}
                   /\ \/ callbacks' = callbacks
                      \/ /\ Kind[c] = "then" /\ callbacks' = callbacks \cup {c}
                         /\ calls \in {<<s>>, <<s, n>>}
  <2>1. CASE link[c] = Null
    <3>1. \/ Continue(t, <<i>> \o <<>>) /\ callbacks' = callbacks
          \/ Continue(t, <<i>> \o <<s>> \o <<>>) /\ callbacks' = callbacks
          \/ Kind[c] = "then" /\ Continue(t, <<s>> \o <<>>) /\ callbacks' = callbacks \cup {c}
      BY <2>1, <1>1, <1>2 DEF PostOne
    <3>2. \/ Continue(t, <<i>>) /\ callbacks' = callbacks
          \/ Continue(t, <<i, s>>) /\ callbacks' = callbacks
          \/ Kind[c] = "then" /\ Continue(t, <<s>>) /\ callbacks' = callbacks \cup {c}
      BY <3>1, PostOneTuples
    <3> QED
      BY <3>2, <2>1
  <2>2. CASE link[c] # Null
    <3>1. \/ Continue(t, <<i>> \o <<n>>) /\ callbacks' = callbacks
          \/ Continue(t, <<i>> \o <<s>> \o <<n>>) /\ callbacks' = callbacks
          \/ Kind[c] = "then" /\ Continue(t, <<s>> \o <<n>>) /\ callbacks' = callbacks \cup {c}
      BY <2>2, <1>1, <1>2, <1>3 DEF PostOne
    <3>a. /\ <<i>> \o <<n>> = <<i, n>> /\ <<i>> \o <<s>> \o <<n>> = <<i, s, n>>
          /\ <<s>> \o <<n>> = <<s, n>>
      BY PostOneTuples
    <3>2. \/ Continue(t, <<i, n>>) /\ callbacks' = callbacks
          \/ Continue(t, <<i, s, n>>) /\ callbacks' = callbacks
          \/ Kind[c] = "then" /\ Continue(t, <<s, n>>) /\ callbacks' = callbacks \cup {c}
      BY <3>1, <3>a, Zenon
    <3> QED
      BY <3>2, <2>2
  <2> QED
    BY <2>1, <2>2
<1>6. /\ calls \in Seq(Calls)
      /\ \A k \in DOMAIN calls : calls[k] \in {i, s, n}
      /\ \A j, k \in DOMAIN calls : j # k => calls[j].op # calls[k].op
      /\ IF link[c] = Null THEN \A k \in DOMAIN calls : calls[k] # n
         ELSE \E k \in DOMAIN calls : calls[k] = n
      /\ \A k \in DOMAIN calls : calls[k] = i => callbacks' = callbacks
  BY <1>3, <1>4, <1>5, PostOneCalls
<1>7. Makes(t, p, c, i, s, n, calls)
  BY <1>3, <1>4, <1>5, <1>6 DEF Makes
<1> QED
  BY <1>6, <1>7

(* PostContinuation to a continuation of one parent: it was not posted yet, *)
(* and the next of the list follows it.                                     *)
LEMMA PostOneInv ==
  ASSUME ArgumentsAreNotShared, Inv, NEW t \in Thread, stack[t] # <<>>,
         NEW r0 \in Calls, r0 = Head(stack[t]), r0.op = "PostContinuation", CallOK(r0),
         NEW p, NEW c, p = r0.parent, c = r0.f, ~IsMultiPost(c), PostOne(t, p, c),
         delivered' = [delivered EXCEPT ![<<p, c>>] = delivered[<<p, c>>] + 1],
         UNCHANGED crashed
  PROVE  Inv'
<1>1. /\ Waits(p, c) /\ IsDone(p) /\ <<p, c>> \in Edge /\ p \in Future /\ c \in Future /\ c \in created
      /\ NotNext(c) /\ Kind[c] # "promise"
  BY EdgeFacts DEF CallOK, ListOps, Waits
<1>2. Single(c) /\ state[c] = "Pending" /\ p = Parent(c)
  BY <1>1, KindCases, EdgeFacts DEF Waits
<1>3. /\ state' = [state EXCEPT ![c] = "Posting"]
      /\ link' = [link EXCEPT ![c] = IF state[p] = "Succeeded" THEN p ELSE Null]
      /\ hasError' = [hasError EXCEPT ![c] = (state[p] = "Failed" /\ hasError[p])]
      /\ UNCHANGED <<head, hasValue, completed, created, awaited, tried, abandoned>>
  BY DEF PostOne
<1>4. /\ HeadsOK' /\ LinksOK' /\ NotCreatedOK' /\ DeliveredOK' /\ ResultsOK' /\ WhenAllOK'
      /\ HasInput(c)' /\ state'[c] = "Posting"
      /\ \A q, d : Waits(q, d) /\ d # c => Waits(q, d)'
      /\ \A d : NotNext(d) => NotNext(d)'
      /\ \A g \in Future : /\ MayFailByParents(g) => MayFailByParents(g)'
                           /\ MaySucceedByParents(g) /\ (g # c \/ Kind[g] # "share") =>
                                MaySucceedByParents(g)'
                           /\ HasInput(g) /\ Single(g) /\ g # c => HasInput(g)'
  BY <1>1, <1>2, <1>3, PostOneState
<1>5. PICK i, s, n \in Calls, calls \in Seq(Calls) : Makes(t, p, c, i, s, n, calls)
  <2>1. Types
    BY DEF Inv
  <2> QED
    BY <2>1, <1>1, PostOneMakes
<1>6. /\ i.op = "Invoke" /\ i.f = c /\ s.op = "TrySetPosted" /\ s.f = c
      /\ n.op = "PostContinuation"
      /\ link[c] # Null => n = ListCall("PostContinuation", p, link[c]) /\ n.parent = p /\ n.f = link[c]
      /\ Continue(t, calls)
      /\ \A k \in DOMAIN calls : calls[k] \in {i, s, n}
      /\ \A j, k \in DOMAIN calls : j # k => calls[j].op # calls[k].op
      /\ IF link[c] = Null THEN \A k \in DOMAIN calls : calls[k] # n
         ELSE \E k \in DOMAIN calls : calls[k] = n
      /\ \A k \in DOMAIN calls : calls[k] = i => callbacks' = callbacks
      /\ callbacks' = callbacks \/ (Kind[c] = "then" /\ callbacks' = callbacks \cup {c})
  BY <1>5 DEF Makes
<1>7. c \notin callbacks /\ c \notin awaited
  BY <1>2 DEF Inv, HeldOK
<1>8. HeldOK'
  <2>1. \A d \in callbacks : d \in Future /\ d # c /\ Single(d)
    BY <1>7 DEF Inv, Types, HeldOK, Single
  <2>2. \A d \in callbacks : /\ Kind[d] = "then" /\ d \notin awaited
                              /\ state'[d] \in {"Posting", "Posted"} /\ HasInput(d)'
    BY <2>1, <1>3, <1>4 DEF Inv, HeldOK, Types
  <2>3. \A d \in awaited : Kind[d] = "then" /\ state'[d] = "Awaiting"
    BY <1>3, <1>7 DEF Inv, HeldOK, Types
  <2> QED
    BY <2>2, <2>3, <1>3, <1>4, <1>6, <1>7 DEF HeldOK
<1>9. ASSUME NEW r \in Calls, CallOK(r), r.f = c
       PROVE  ~Owns(r) /\ ~Abandons(r)
  BY <1>2, <1>9 DEF CallOK, Owns, Abandons, Single
<1>10. ASSUME NEW r \in Calls, CallOK(r), Compatible(r0, r)
       PROVE  CallOK(r)'
  <2>1. r.f \in Future /\ (r.op \in ListOps => r.parent \in Future)
    BY DEF Calls, CallOps, ListOps
  <2>2. r.op \in ListOps => r.f # c
    <3>1. r.op \in ListOps /\ r.f = c => r.parent = p
      BY <1>2, <1>10, EdgeFacts DEF CallOK, Waits
    <3> QED
      BY <3>1, <1>10 DEF Compatible, ListOps
  <2>3. r.op \in ListOps => Waits(r.parent, r.f)' /\ NotNext(r.f)' /\ head'[r.parent] # r.f
    BY <2>2, <1>3, <1>4, <1>10 DEF CallOK
  <2>4. r.f # c => /\ state'[r.f] = state[r.f] /\ (r.f \in callbacks' => r.f \in callbacks)
                   /\ (MayFailByParents(r.f) => MayFailByParents(r.f)')
                   /\ (MaySucceedByParents(r.f) => MaySucceedByParents(r.f)')
                   /\ (HasInput(r.f) /\ Single(r.f) => HasInput(r.f)')
    BY <2>1, <1>3, <1>4, <1>6 DEF Inv, Types
  <2>5. r.op = "PostContinuation" => IsDone(r.parent)'
    <3>1. r.op = "PostContinuation" => IsDone(r.parent) /\ r.parent \in Future
      BY <2>1, <1>10 DEF CallOK, ListOps
    <3> QED
      BY <3>1, <1>2, <1>3 DEF IsDone, Done, Inv, Types
  <2>6. CASE r.f # c
    BY <2>3, <2>4, <2>5, <2>6, <1>3, <1>10 DEF CallOK, ListOps
  <2>7. CASE r.f = c
    <3>1. r.op \notin ListOps /\ ~Owns(r) /\ ~Abandons(r)
      BY <2>2, <2>7, <1>9, <1>10
    <3>2. r.op = "TrySetPosted"
      BY <3>1, <2>7, <1>2 DEF Owns, Calls, CallOps
    <3> QED
      BY <3>1, <3>2, <2>7, <1>2 DEF CallOK, ListOps
  <2> QED
    BY <2>6, <2>7
<1>11. link[c] # Null => CallOK(n)' /\ \A r \in Calls : CallOK(r) => Compatible(n, r)
  <2> SUFFICES ASSUME link[c] # Null
               PROVE  CallOK(n)' /\ \A r \in Calls : CallOK(r) => Compatible(n, r)
    OBVIOUS
  <2>1. PICK l : l = link[c]
    OBVIOUS
  <2>2. /\ Waits(p, l) /\ Single(l)
        /\ \A y \in Future : Single(y) /\ state[y] = "Pending" /\ link[y] = l => y = c
    BY <2>1, <1>1, <1>2 DEF Inv, LinksOK
  <2>3. l # c /\ l \in Future /\ Kind[l] # "promise"
    BY <2>1, <2>2, <1>1, <1>2, EdgeFacts DEF NotNext, Waits
  <2>4. Waits(p, l)'
    BY <2>2, <2>3, <1>4
  <2>5. NotNext(l)'
    BY <2>2, <1>3, <1>4 DEF NotNext, Inv, Types
  <2>6. head'[p] # l /\ IsDone(p)'
    <3>1. head[p] \in {Null, Invoked}
      BY <1>1 DEF Inv, HeadsOK
    <3> QED
      BY <3>1, <2>3, <1>1, <1>2, <1>3, FutureAssumption DEF IsDone, Done, Inv, Types
  <2>7. CallOK(n)'
    BY <2>1, <2>4, <2>5, <2>6, <1>6 DEF CallOK, ListOps, Owns
  <2>8. ASSUME NEW r \in Calls, CallOK(r)
        PROVE  Compatible(n, r)
    <3>1. r.op \in ListOps => r.f # l
      BY <2>1, <2>8, <1>1, <1>2 DEF CallOK, NotNext
    <3> QED
      BY <3>1, <2>1, <2>3, <1>6 DEF Compatible, ListOps, Owns, Abandons
  <2> QED
    BY <2>7, <2>8
<1>12. CallOK(s)' /\ \A r \in Calls : CallOK(r) => Compatible(s, r)
  <2>1. CallOK(s)'
    BY <1>2, <1>6 DEF CallOK, ListOps, Owns
  <2>2. ~Owns(s) /\ ~Abandons(s) /\ s.op \notin ListOps
    BY <1>6 DEF Owns, Abandons, ListOps
  <2> QED
    BY <2>1, <2>2, <1>6, <1>9 DEF Compatible, ListOps
<1>13. callbacks' = callbacks => CallOK(i)'
  BY <1>2, <1>3, <1>4, <1>6, <1>7 DEF CallOK, ListOps, Owns
<1>14. \A r \in Calls : CallOK(r) => Compatible(i, r)
  <2>1. ~Abandons(i) /\ i.op \notin ListOps
    BY <1>6 DEF Abandons, ListOps
  <2> QED
    BY <2>1, <1>6, <1>9 DEF Compatible, ListOps
<1>15. /\ stack' \in [Thread -> Seq(Calls)] /\ CallsOK' /\ CallsCompatible(stack')
       /\ \A r \in Calls : At(stack, r) /\ r # Head(stack[t]) => At(stack', r)
  <2>1. \A k \in DOMAIN calls : CallOK(calls[k])'
    <3> TAKE k \in DOMAIN calls
    <3>1. calls[k] \in {i, s, n}
      BY <1>6
    <3>2. CASE calls[k] = i
      BY <3>2, <1>6, <1>13
    <3>3. CASE calls[k] = s
      BY <3>3, <1>12
    <3>4. CASE calls[k] = n
      BY <3>4, <1>6, <1>11
    <3> QED
      BY <3>1, <3>2, <3>3, <3>4
  <2>2. \A k \in DOMAIN calls : \A r \in Calls : CallOK(r) => Compatible(calls[k], r)
    BY <1>6, <1>11, <1>12, <1>14
  <2>3. ASSUME NEW j \in DOMAIN calls, NEW k \in DOMAIN calls, j # k
        PROVE  Compatible(calls[j], calls[k])
    <3>1. calls[j].op # calls[k].op /\ calls[j] \in {i, s, n} /\ calls[k] \in {i, s, n}
      BY <2>3, <1>6
    <3>2. ~Owns(s) /\ ~Owns(n) /\ ~Abandons(i) /\ ~Abandons(s) /\ ~Abandons(n)
      BY <1>6 DEF Owns, Abandons
    <3> QED
      BY <3>1, <3>2, <1>6 DEF Compatible, ListOps
  <2> QED
    BY <2>1, <2>2, <2>3, <1>6, <1>10, ContinueCalls DEF Inv
<1>16. Types'
  <2>1. link' \in [Future -> Future \cup {Null}] /\ hasError' \in [Future -> BOOLEAN]
    BY <1>1, <1>3 DEF Inv, Types
  <2>2. delivered' \in [Edge -> Nat] /\ callbacks' \subseteq Future
    BY <1>1, <1>6 DEF Inv, Types
  <2> QED
    BY <2>1, <2>2, <1>3, <1>15 DEF Inv, Types
<1>17. PromisesOK'
  <2>1. \A r \in Calls : r.op \in {"TrySetSuccess", "SetFailed"} => r # Head(stack[t])
    OBVIOUS
  <2>2. \A q \in Future : Kind[q] = "promise" => state'[q] = state[q] /\ link'[q] = link[q]
    BY <1>1, <1>3 DEF Inv, Types
  <2> QED
    BY <2>1, <2>2, <1>15 DEF Inv, PromisesOK
<1> QED
  BY <1>4, <1>8, <1>15, <1>16, <1>17 DEF Inv

(* PostContinuation: the two kinds of continuation.                         *)
LEMMA PostContinuationInv ==
  ASSUME ~IsVoid, ArgumentsAreNotShared, Inv, NEW t \in Thread, PostContinuation(t)
  PROVE  Inv'
<1>1. PICK r0 \in Calls :
        r0 = Head(stack[t]) /\ r0.op = "PostContinuation" /\ At(stack, r0) /\ CallOK(r0)
  BY TopCall DEF Inv, PostContinuation
<1>2. PICK p, c : p = r0.parent /\ c = r0.f
  OBVIOUS
<1>3. stack[t] # <<>>
  BY TopCall DEF Inv, PostContinuation
<1>4. Waits(p, c) /\ c \in Future /\ Kind[c] # "promise"
  BY <1>1, <1>2, EdgeFacts DEF CallOK, ListOps, Waits
<1>5. IsMultiPost(c) \/ state[c] = "Pending"
  BY <1>4, KindCases DEF Waits
<1>6. /\ IF IsMultiPost(c) THEN MultiPost(t, p, c) ELSE PostOne(t, p, c)
      /\ delivered' = [delivered EXCEPT ![<<p, c>>] = delivered[<<p, c>>] + 1]
      /\ UNCHANGED crashed
  BY <1>1, <1>2, <1>5 DEF PostContinuation
<1>7. CASE IsMultiPost(c)
  BY <1>1, <1>2, <1>3, <1>6, <1>7, MultiPostInv
<1>8. CASE ~IsMultiPost(c)
  BY <1>1, <1>2, <1>3, <1>6, <1>8, PostOneInv
<1> QED
  BY <1>7, <1>8

-----------------------------------------------------------------------------
(* Callers *)

LEMMA StartOne ==
  ASSUME Types, CallsOK, CallsCompatible(stack), NEW t \in Thread,
         NEW a \in Calls, Start(t, <<a>>),
         \A r \in Calls : At(stack, r) /\ CallOK(r) => CallOK(r)',
         CallOK(a)',
         \A r \in Calls : At(stack, r) /\ CallOK(r) => Compatible(a, r)
  PROVE  /\ stack' \in [Thread -> Seq(Calls)] /\ CallsOK' /\ CallsCompatible(stack')
         /\ \A r \in Calls : At(stack, r) => At(stack', r)
<1>1. <<a>> \in Seq(Calls)
  OBVIOUS
<1>2. PICK calls \in Seq(Calls) : calls = <<a>>
  BY <1>1
<1>3. DOMAIN calls = {1} /\ calls[1] = a /\ Start(t, calls)
  BY <1>2
<1>4. \A k \in DOMAIN calls : CallOK(calls[k])'
  <2> TAKE k \in DOMAIN calls
  <2>1. calls[k] = a
    BY <1>3
  <2> QED
    BY <2>1
<1> QED
  BY <1>3, <1>4, StartCalls

(* An idle thread that stays idle.                                          *)
LEMMA StartNone ==
  ASSUME Types, CallsOK, CallsCompatible(stack), NEW t \in Thread, Start(t, <<>>),
         \A r \in Calls : At(stack, r) /\ CallOK(r) => CallOK(r)'
  PROVE  /\ stack' \in [Thread -> Seq(Calls)] /\ CallsOK' /\ CallsCompatible(stack')
         /\ \A r \in Calls : At(stack, r) => At(stack', r)
<1>1. <<>> \in Seq(Calls)
  OBVIOUS
<1>2. PICK calls \in Seq(Calls) : calls = <<>>
  BY <1>1
<1>3. DOMAIN calls = {} /\ Start(t, calls)
  BY <1>2
<1> QED
  BY <1>3, StartCalls

(* A caller's step changes no future: what is left to show.                 *)
LEMMA StartInv ==
  ASSUME Inv, UNCHANGED <<word, data, delivered, crashed>>, UNCHANGED created, HeldOK',
         callbacks' \subseteq Future, awaited' \subseteq Future, abandoned' \subseteq Future,
         stack' \in [Thread -> Seq(Calls)] /\ CallsOK' /\ CallsCompatible(stack')
           /\ \A r \in Calls : At(stack, r) => At(stack', r)
  PROVE  Inv'
<1> USE DEF word, data
<1>1. HeadsOK' /\ LinksOK'
  BY DEF Inv, HeadsOK, LinksOK, Waits, NotNext, IsDone
<1>2. NotCreatedOK' /\ DeliveredOK'
  BY DEF Inv, NotCreatedOK, DeliveredOK, IsDone
<1>3. ResultsOK'
  BY DEF Inv, ResultsOK, MaySucceedByParents, MayFailByParents
<1>4. WhenAllOK'
  BY DEF Inv, WhenAllOK, Counted
<1>5. Types'
  BY DEF Inv, Types
<1>6. PromisesOK'
  BY DEF Inv, PromisesOK
<1> QED
  BY <1>1, <1>2, <1>3, <1>4, <1>5, <1>6 DEF Inv

(* The calls that were there keep their meaning when callers take over what *)
(* an executor or an awaited future held.                                   *)
LEMMA StartKeeps ==
  ASSUME UNCHANGED <<word, data, delivered>>, UNCHANGED created, callbacks' \subseteq callbacks,
         awaited' \subseteq awaited, abandoned \subseteq abandoned', NEW r, CallOK(r)
  PROVE  CallOK(r)'
<1> USE DEF word, data
<1>1. /\ MayFailByParents(r.f) => MayFailByParents(r.f)'
      /\ MaySucceedByParents(r.f) => MaySucceedByParents(r.f)'
      /\ HasInput(r.f) => HasInput(r.f)'
      /\ Waits(r.parent, r.f) => Waits(r.parent, r.f)'
      /\ NotNext(r.f) => NotNext(r.f)'
  BY DEF MayFailByParents, MaySucceedByParents, HasInput, Waits, NotNext
<1> QED
  BY <1>1 DEF CallOK, IsDone

(* Promise::TrySetValue and TrySetError.                                    *)
LEMMA TryCompleteInv ==
  ASSUME ~IsVoid, Inv, NEW t \in Thread, NEW p \in Future, TryComplete(t, p)
  PROVE  Inv'
<1>1. /\ Kind[p] = "promise" /\ p \notin abandoned
      /\ UNCHANGED <<word, data, created, callbacks, awaited, abandoned, delivered, crashed>>
  BY DEF TryComplete
<1>2. PICK a \in Calls : /\ Start(t, <<a>>)
                         /\ a.f = p /\ a.crash = FALSE /\ a.op \in {"TryStartSetValue", "TryStartSetError"}
  <2>1. CASE Start(t, <<SetValue(p, FALSE, FALSE)>>)
    <3>1. PICK a \in Calls : a = SetValue(p, FALSE, FALSE) /\ a.f = p /\ a.crash = FALSE
                             /\ a.op = "TryStartSetValue"
      BY <1>1, SetValueCall
    <3> QED
      BY <2>1, <3>1
  <2>2. CASE Start(t, <<Call("TryStartSetError", p, FALSE, FALSE)>>)
    <3>1. PICK a \in Calls : a = Call("TryStartSetError", p, FALSE, FALSE)
      BY DEF Call, Calls, CallOps
    <3>2. a.f = p /\ a.crash = FALSE /\ a.op = "TryStartSetError"
      BY <3>1 DEF Call
    <3> QED
      BY <2>2, <3>1, <3>2
  <2> QED
    BY <2>1, <2>2 DEF TryComplete
<1>3. \A r \in Calls : At(stack, r) /\ CallOK(r) => CallOK(r)'
  BY <1>1, StartKeeps
<1>4. ~Owns(a) /\ ~Abandons(a) /\ a.op \notin ListOps /\ ~Single(p) /\ ~IsMultiPost(p)
  BY <1>1, <1>2 DEF Owns, Abandons, ListOps, Single, IsMultiPost
<1>5. CallOK(a)'
  <2>1. MaySucceedByParents(p)' /\ MayFailByParents(p)'
    BY <1>1 DEF MaySucceedByParents, MayFailByParents, IsMultiPost
  <2> QED
    BY <2>1, <1>1, <1>2, <1>4 DEF CallOK, ListOps
<1>6. ASSUME NEW r \in Calls, At(stack, r), CallOK(r)
      PROVE  Compatible(a, r)
  <2>1. Abandons(r) => r.f # p
    BY <1>1, <1>6 DEF Abandons, CallOK
  <2> QED
    BY <2>1, <1>2, <1>4 DEF Compatible, ListOps
<1>7. /\ stack' \in [Thread -> Seq(Calls)] /\ CallsOK' /\ CallsCompatible(stack')
      /\ \A r \in Calls : At(stack, r) => At(stack', r)
  BY <1>2, <1>3, <1>5, <1>6, StartOne DEF Inv
<1>8. HeldOK'
  BY <1>1 DEF Inv, HeldOK, HasInput, word, data
<1> QED
  BY <1>1, <1>7, <1>8, StartInv DEF Inv, Types

(* ~FutureImpl: when nobody has the promise, nobody is completing it.       *)
LEMMA AbandonInv ==
  ASSUME Inv, NEW t \in Thread, NEW p \in Future, Abandon(t, p)
  PROVE  Inv'
<1>1. /\ Kind[p] = "promise" /\ p \notin abandoned /\ ~IsDone(p) /\ abandoned' = abandoned \cup {p}
      /\ UNCHANGED <<word, data, created, callbacks, awaited, delivered, crashed>>
      /\ Start(t, IF head[p] \in {Null, Invoked} THEN <<>>
                  ELSE <<Call("TryStartSetError", p, TRUE, FALSE)>>)
  BY DEF Abandon
<1>2. \A r \in Calls : At(stack, r) => r.f # p
  BY DEF Abandon, At
<1>3. state[p] = "Pending"
  BY <1>1, <1>2 DEF Inv, PromisesOK, IsDone
<1>4. \A r \in Calls : At(stack, r) /\ CallOK(r) => CallOK(r)'
  BY <1>1, StartKeeps
<1>5. /\ stack' \in [Thread -> Seq(Calls)] /\ CallsOK' /\ CallsCompatible(stack')
      /\ \A r \in Calls : At(stack, r) => At(stack', r)
  <2>1. CASE head[p] \in {Null, Invoked}
    BY <2>1, <1>1, <1>4, StartNone DEF Inv
  <2>2. CASE head[p] \notin {Null, Invoked}
    <3>1. PICK a \in Calls : a = Call("TryStartSetError", p, TRUE, FALSE)
      BY DEF Call, Calls, CallOps
    <3>2. a.f = p /\ a.crash = TRUE /\ a.op = "TryStartSetError"
      BY <3>1 DEF Call
    <3>3. Start(t, <<a>>)
      BY <3>1, <2>2, <1>1
    <3>4. ~Owns(a) /\ a.op \notin ListOps /\ ~Single(p) /\ ~IsMultiPost(p)
      BY <3>2, <1>1 DEF Owns, ListOps, Single, IsMultiPost
    <3>5. MayFailByParents(p)'
      BY <1>1 DEF MayFailByParents, IsMultiPost
    <3>6. CallOK(a)'
      BY <3>2, <3>4, <3>5, <1>1, <1>3 DEF CallOK, ListOps, word
    <3>7. \A r \in Calls : At(stack, r) /\ CallOK(r) => Compatible(a, r)
      BY <3>2, <3>4, <1>2 DEF Compatible, ListOps
    <3> QED
      BY <3>3, <3>6, <3>7, <1>4, StartOne DEF Inv
  <2> QED
    BY <2>1, <2>2
<1>6. HeldOK'
  BY <1>1 DEF Inv, HeldOK, HasInput, word, data
<1> QED
  BY <1>1, <1>5, <1>6, StartInv DEF Inv, Types

(* A call that takes over what was held for f is the only one that decides  *)
(* about it.                                                                *)
LEMMA TakeOverInv ==
  ASSUME Inv, NEW t \in Thread, NEW f \in Future, f \in callbacks \/ f \in awaited, Kind[f] = "then",
         NEW a \in Calls, Start(t, <<a>>), a.f = f, a.op \in CallOps, ~a.crash, CallOK(a)',
         callbacks' = callbacks \ {f}, awaited' = awaited \ {f},
         UNCHANGED <<word, data, created, tried, abandoned, delivered, crashed>>
  PROVE  Inv'
<1>1. \A r \in Calls : At(stack, r) /\ CallOK(r) => CallOK(r)'
  BY StartKeeps
<1>2. ASSUME NEW r \in Calls, CallOK(r)
      PROVE  Compatible(a, r)
  <2>1. r.f = f => ~Owns(r) /\ ~Abandons(r)
    BY <1>2 DEF CallOK, Abandons
  <2>2. ~Abandons(a) /\ a.op \notin ListOps
    BY DEF Abandons, CallOps, ListOps
  <2> QED
    BY <2>1, <2>2 DEF Compatible, ListOps
<1>3. /\ stack' \in [Thread -> Seq(Calls)] /\ CallsOK' /\ CallsCompatible(stack')
      /\ \A r \in Calls : At(stack, r) => At(stack', r)
  BY <1>1, <1>2, StartOne DEF Inv
<1>4. HeldOK'
  BY DEF Inv, HeldOK, HasInput, word, data
<1> QED
  BY <1>3, <1>4, StartInv DEF Inv, Types

(* An executor runs, cancels or drops a FutureCallback.                     *)
LEMMA RunCallbackInv ==
  ASSUME Inv, NEW t \in Thread, NEW f \in Future, RunCallback(t, f)
  PROVE  Inv'
<1>1. /\ f \in callbacks /\ callbacks' = callbacks \ {f}
      /\ UNCHANGED <<word, data, created, awaited, tried, abandoned, delivered, crashed>>
  BY DEF RunCallback
<1>2. Kind[f] = "then" /\ f \notin awaited /\ state[f] \in {"Posting", "Posted"} /\ HasInput(f)
  BY <1>1 DEF Inv, HeldOK
<1>3. awaited' = awaited \ {f} /\ f \notin callbacks' /\ f \notin awaited'
  BY <1>1, <1>2
<1>4. HasInput(f)' /\ MayFailByParents(f)' /\ state' = state
  BY <1>1, <1>2 DEF HasInput, MayFailByParents, IsMultiPost, word, data
<1>5. CASE Start(t, <<Call("Invoke", f, FALSE, FALSE)>>)
  <2>1. PICK a \in Calls : a = Call("Invoke", f, FALSE, FALSE)
    BY DEF Call, Calls, CallOps
  <2>2. a.f = f /\ a.crash = FALSE /\ a.op = "Invoke"
    BY <2>1 DEF Call
  <2>3. CallOK(a)'
    BY <2>2, <1>2, <1>3, <1>4 DEF CallOK, ListOps, Single
  <2> QED
    BY <2>1, <2>2, <2>3, <1>1, <1>2, <1>3, <1>5, TakeOverInv DEF CallOps
<1>6. CASE Start(t, <<Call("TryStartSetError", f, FALSE, FALSE)>>)
  <2>1. PICK a \in Calls : a = Call("TryStartSetError", f, FALSE, FALSE)
    BY DEF Call, Calls, CallOps
  <2>2. a.f = f /\ a.crash = FALSE /\ a.op = "TryStartSetError"
    BY <2>1 DEF Call
  <2>3. CallOK(a)'
    BY <2>2, <1>2, <1>3, <1>4 DEF CallOK, ListOps, Single, Abandons
  <2> QED
    BY <2>1, <2>2, <2>3, <1>1, <1>2, <1>3, <1>6, TakeOverInv DEF CallOps
<1> QED
  BY <1>5, <1>6 DEF RunCallback

(* The future a task returned completes.                                    *)
LEMMA CompleteAwaitedInv ==
  ASSUME ~IsVoid, Inv, NEW t \in Thread, NEW f \in Future, CompleteAwaited(t, f)
  PROVE  Inv'
<1>1. /\ f \in awaited /\ awaited' = awaited \ {f}
      /\ UNCHANGED <<word, data, created, callbacks, tried, abandoned, delivered, crashed>>
  BY DEF CompleteAwaited
<1>2. Kind[f] = "then" /\ f \notin callbacks /\ state[f] = "Awaiting"
  BY <1>1 DEF Inv, HeldOK
<1>3. callbacks' = callbacks \ {f} /\ f \notin callbacks' /\ f \notin awaited'
  BY <1>1, <1>2
<1>4. MaySucceedByParents(f)' /\ MayFailByParents(f)' /\ state' = state
  BY <1>1, <1>2 DEF MaySucceedByParents, MayFailByParents, IsMultiPost, word
<1>5. CASE Start(t, <<SetValue(f, FALSE, FALSE)>>)
  <2>1. PICK a \in Calls : a = SetValue(f, FALSE, FALSE) /\ a.f = f /\ a.crash = FALSE
                           /\ a.op = "TryStartSetValue"
    BY <1>2, SetValueCall
  <2>2. CallOK(a)'
    BY <2>1, <1>2, <1>3, <1>4 DEF CallOK, ListOps, Single
  <2> QED
    BY <2>1, <2>2, <1>1, <1>2, <1>3, <1>5, TakeOverInv DEF CallOps
<1>6. CASE Start(t, <<Call("TryStartSetError", f, FALSE, FALSE)>>)
  <2>1. PICK a \in Calls : a = Call("TryStartSetError", f, FALSE, FALSE)
    BY DEF Call, Calls, CallOps
  <2>2. a.f = f /\ a.crash = FALSE /\ a.op = "TryStartSetError"
    BY <2>1 DEF Call
  <2>3. CallOK(a)'
    BY <2>2, <1>2, <1>3, <1>4 DEF CallOK, ListOps, Single, Abandons, IsMultiPost
  <2> QED
    BY <2>1, <2>2, <2>3, <1>1, <1>2, <1>3, <1>6, TakeOverInv DEF CallOps
<1> QED
  BY <1>5, <1>6 DEF CompleteAwaited

(* Then, Share, WhenAll...: a continuation is added to each of its parents, *)
(* which nobody else is continuing.                                         *)
LEMMA CreateInv ==
  ASSUME Inv, NEW t \in Thread, NEW c \in Future, Create(t, c)
  PROVE  Inv'
<1>1. /\ c \notin created /\ Parents[c] # <<>> /\ created' = created \cup {c}
      /\ \A i \in DOMAIN Parents[c] : MayContinue(Parents[c][i], c)
      /\ Start(t, [i \in DOMAIN Parents[c] |-> ListCall("AddContinuation", Parents[c][i], c)])
      /\ UNCHANGED <<word, data, callbacks, awaited, tried, abandoned, delivered, crashed>>
  BY DEF Create
<1>2. /\ Kind[c] # "promise" /\ Parents[c] \in Seq(Future)
      /\ \A i, j \in DOMAIN Parents[c] : Parents[c][i] = Parents[c][j] => i = j
  BY <1>1, KindAssumption
<1>3. \A i \in DOMAIN Parents[c] : Parents[c][i] \in Future /\ <<Parents[c][i], c>> \in Edge
  BY ParentEdge
<1>4. PICK calls : calls = [i \in DOMAIN Parents[c] |-> ListCall("AddContinuation", Parents[c][i], c)]
  OBVIOUS
<1>5. /\ DOMAIN calls = DOMAIN Parents[c]
      /\ \A i \in DOMAIN Parents[c] :
           /\ calls[i] = ListCall("AddContinuation", Parents[c][i], c) /\ calls[i] \in Calls
           /\ calls[i].op = "AddContinuation" /\ calls[i].parent = Parents[c][i] /\ calls[i].f = c
  <2>1. \A i \in DOMAIN Parents[c] : ListCall("AddContinuation", Parents[c][i], c) \in Calls
    BY <1>3 DEF ListCall, Calls, ListOps
  <2> QED
    BY <2>1, <1>4 DEF ListCall
<1>6. calls \in Seq(Calls)
  <2>1. DOMAIN Parents[c] = 1 .. Len(Parents[c]) /\ Len(Parents[c]) \in Nat
    BY <1>2
  <2>2. calls \in [1 .. Len(Parents[c]) -> Calls]
    BY <2>1, <1>4, <1>5
  <2> QED
    BY <2>1, <2>2, SeqDef
<1>7. \A q, d : Waits(q, d) => Waits(q, d)' /\ d # c
  BY <1>1 DEF Waits, word
<1>8. \A d : NotNext(d)' <=> NotNext(d)
  BY <1>1 DEF NotNext, word, data
<1>9. NotNext(c)
  <2>1. ASSUME NEW x \in Future, Single(x), state[x] = "Pending", link[x] = c
        PROVE  FALSE
    <3>1. PICK q : q = Parent(x)
      OBVIOUS
    <3>2. link[x] # Null
      BY <2>1, FutureAssumption
    <3>3. Waits(q, c)
      BY <3>1, <3>2, <2>1 DEF Inv, LinksOK, Waits
    <3> QED
      BY <3>3, <1>7
  <2> QED
    BY <2>1 DEF NotNext
<1>10. UNCHANGED <<state, head, link, hasError, hasValue, completed>>
  BY <1>1 DEF word, data
<1>11. \A r \in Calls : CallOK(r) => CallOK(r)'
  <2> SUFFICES ASSUME NEW r \in Calls, CallOK(r)
               PROVE  CallOK(r)'
    OBVIOUS
  <2>1. /\ MayFailByParents(r.f) => MayFailByParents(r.f)'
        /\ MaySucceedByParents(r.f) => MaySucceedByParents(r.f)'
        /\ HasInput(r.f) => HasInput(r.f)'
        /\ Waits(r.parent, r.f) => Waits(r.parent, r.f)'
        /\ NotNext(r.f) => NotNext(r.f)'
    BY <1>1, <1>7, <1>8, <1>10 DEF MayFailByParents, MaySucceedByParents, HasInput
  <2> QED
    BY <2>1, <1>1, <1>10 DEF CallOK, IsDone
<1>12. ASSUME NEW i \in DOMAIN calls
       PROVE  CallOK(calls[i])'
  <2>1. PICK p : p = Parents[c][i]
    OBVIOUS
  <2>2. p \in Future /\ <<p, c>> \in Edge /\ MayContinue(p, c)
    BY <2>1, <1>1, <1>3, <1>5, <1>12
  <2>3. Waits(p, c)'
    BY <2>2, <1>1, <1>10 DEF Waits, Inv, NotCreatedOK
  <2>4. head[p] # c
    BY <2>2, <1>7 DEF Inv, HeadsOK
  <2>5. IsShared(p) \/ Kind[c] = "share" \/ head[p] = Null
    <3>1. SUFFICES ASSUME ~IsShared(p), head[p] # Null
                   PROVE  Kind[c] = "share"
      OBVIOUS
    <3>2. PICK d \in created : <<p, d>> \in Edge
      BY <3>1, <2>2 DEF Inv, HeadsOK
    <3> QED
      BY <3>1, <3>2, <2>2 DEF MayContinue
  <2>6. PICK a \in Calls : a = calls[i] /\ a.op = "AddContinuation" /\ a.parent = p /\ a.f = c
    BY <2>1, <1>5, <1>12
  <2>7. CallOK(a)'
    BY <2>3, <2>4, <2>5, <2>6, <1>8, <1>9, <1>10 DEF CallOK, ListOps, Owns
  <2> QED
    BY <2>6, <2>7
<1>13. ASSUME NEW i \in DOMAIN calls, NEW r \in Calls, At(stack, r), CallOK(r)
       PROVE  Compatible(calls[i], r)
  <2>1. PICK p : p = Parents[c][i]
    OBVIOUS
  <2>2. MayContinue(p, c)
    BY <2>1, <1>1, <1>5, <1>13
  <2>3. PICK a \in Calls : a = calls[i] /\ a.op = "AddContinuation" /\ a.parent = p /\ a.f = c
    BY <2>1, <1>5, <1>13
  <2>4. r.op \in ListOps => r.f # c /\ <<r.parent, r.f>> \in Edge /\ r.f \in created
    BY <1>7, <1>13 DEF CallOK, Waits
  <2>5. r.op = "AddContinuation" /\ r.parent = p => IsShared(p)
    <3>1. SUFFICES ASSUME r.op = "AddContinuation", r.parent = p, ~IsShared(p)
                   PROVE  FALSE
      OBVIOUS
    <3>2. r = ListCall("AddContinuation", p, r.f)
      BY <3>1 DEF Calls, CallOps, ListCall
    <3>3. PICK d : d = r.f
      OBVIOUS
    <3>4. <<p, d>> \in Edge /\ d \in created
      BY <3>1, <3>3, <2>4 DEF ListOps
    <3>5. \A u \in Thread : \A j \in DOMAIN stack[u] : stack[u][j] # ListCall("AddContinuation", p, d)
      BY <3>1, <3>4, <2>2 DEF MayContinue
    <3> QED
      BY <3>2, <3>3, <3>5, <1>13 DEF At
  <2>6. ~Owns(a) /\ ~Abandons(a)
    BY <2>3 DEF Owns, Abandons
  <2>7. Abandons(r) => r.f # c
    BY <1>2 DEF Abandons
  <2>8. Compatible(a, r)
    BY <2>3, <2>4, <2>5, <2>6, <2>7 DEF Compatible, ListOps
  <2> QED
    BY <2>3, <2>8
<1>14. ASSUME NEW i \in DOMAIN calls, NEW j \in DOMAIN calls, i # j
       PROVE  Compatible(calls[i], calls[j])
  <2>1. PICK a \in Calls : a = calls[i] /\ a.op = "AddContinuation" /\ a.parent = Parents[c][i]
    BY <1>5, <1>14
  <2>2. PICK b \in Calls : b = calls[j] /\ b.op = "AddContinuation" /\ b.parent = Parents[c][j]
    BY <1>5, <1>14
  <2>3. a.parent # b.parent
    BY <2>1, <2>2, <1>2, <1>5, <1>14
  <2>4. Compatible(a, b)
    BY <2>1, <2>2, <2>3 DEF Compatible, Owns, Abandons, ListOps
  <2> QED
    BY <2>1, <2>2, <2>4
<1>15. /\ stack' \in [Thread -> Seq(Calls)] /\ CallsOK' /\ CallsCompatible(stack')
       /\ \A r \in Calls : At(stack, r) => At(stack', r)
  <2>1. Start(t, calls)
    BY <1>1, <1>4
  <2> QED
    BY <2>1, <1>6, <1>11, <1>12, <1>13, <1>14, StartCalls DEF Inv
<1>16. Types'
  BY <1>1, <1>10, <1>15 DEF Inv, Types
<1>17. HeadsOK'
  <2>1. ASSUME NEW p \in Future
        PROVE  /\ IF IsDone(p)' THEN head'[p] \in {Null, Invoked} ELSE head'[p] # Invoked
               /\ head'[p] # Null => \E d \in created' : <<p, d>> \in Edge
               /\ head'[p] \in Future => Waits(p, head[p])' /\ NotNext(head[p])'
    <3>1. PICK h : h = head[p] /\ h = head'[p]
      BY <1>10
    <3>2. /\ IF IsDone(p) THEN h \in {Null, Invoked} ELSE h # Invoked
          /\ h # Null => \E d \in created : <<p, d>> \in Edge
          /\ h \in Future => Waits(p, h) /\ NotNext(h)
      BY <3>1 DEF Inv, HeadsOK
    <3>3. h \in Future => Waits(p, h)' /\ NotNext(h)'
      BY <3>2, <1>7, <1>8
    <3>4. IsDone(p)' = IsDone(p)
      BY <1>10 DEF IsDone
    <3> QED
      BY <3>1, <3>2, <3>3, <3>4, <1>1 DEF Waits, NotNext
  <2> QED
    BY <2>1 DEF HeadsOK
<1>18. LinksOK'
  <2>1. ASSUME NEW x \in Future, Single(x), state'[x] = "Pending", link'[x] # Null
        PROVE  /\ Single(link'[x]) /\ Waits(Parent(x), link[x])'
               /\ \A y \in Future : Single(y) /\ state'[y] = "Pending" /\ link'[y] = link'[x] => y = x
    <3>1. PICK n : n = link[x] /\ n = link'[x]
      BY <1>10
    <3>2. /\ Single(n) /\ Waits(Parent(x), n)
          /\ \A y \in Future : Single(y) /\ state[y] = "Pending" /\ link[y] = n => y = x
      BY <3>1, <2>1, <1>10 DEF Inv, LinksOK
    <3>3. Waits(Parent(x), n)'
      BY <3>2, <1>7
    <3> QED
      BY <3>1, <3>2, <3>3, <1>10 DEF Waits
  <2> QED
    BY <2>1 DEF LinksOK
<1>19. HeldOK'
  BY <1>1, <1>10 DEF Inv, HeldOK, HasInput
<1>20. NotCreatedOK' /\ DeliveredOK'
  BY <1>1, <1>10 DEF Inv, NotCreatedOK, DeliveredOK, IsDone
<1>21. ResultsOK'
  BY <1>1, <1>10 DEF Inv, ResultsOK, MaySucceedByParents, MayFailByParents
<1>22. WhenAllOK'
  BY <1>1, <1>10 DEF Inv, WhenAllOK, Counted
<1>23. PromisesOK'
  BY <1>10, <1>15 DEF Inv, PromisesOK
<1> QED
  BY <1>1, <1>15, <1>16, <1>17, <1>18, <1>19, <1>20, <1>21, <1>22, <1>23 DEF Inv

-----------------------------------------------------------------------------
(* Theorems *)

LEMMA InitInv ==
  ASSUME Init
  PROVE  Inv
<1> USE DEF Init
<1>1. \A r : ~At(stack, r)
  BY DEF At
<1>2. CallsCompatible(stack)
  BY DEF CallsCompatible
<1>3. Types
  <2>1. <<>> \in Seq(Calls)
    OBVIOUS
  <2> QED
    BY <2>1 DEF Types
<1>4. HeadsOK /\ LinksOK
  BY FutureAssumption DEF HeadsOK, LinksOK, IsDone, Done
<1>5. HeldOK /\ NotCreatedOK /\ DeliveredOK /\ ResultsOK /\ PromisesOK
  BY DEF HeldOK, NotCreatedOK, DeliveredOK, ResultsOK, PromisesOK
<1>6. WhenAllOK
  <2>1. ASSUME NEW w \in Future
        PROVE  Counted(w) = {}
    <3>1. \A i \in DOMAIN Parents[w] : delivered[<<Parents[w][i], w>>] = 0
      BY ParentEdge
    <3> QED
      BY <3>1 DEF Counted
  <2> QED
    BY <2>1, FS_EmptySet DEF WhenAllOK
<1> QED
  BY <1>1, <1>2, <1>3, <1>4, <1>5, <1>6 DEF Inv, CallsOK

(* A stuttering step.                                                       *)
LEMMA StutterInv ==
  ASSUME Inv, UNCHANGED vars
  PROVE  Inv'
<1>1. UNCHANGED <<word, data, clients, delivered>> /\ UNCHANGED <<stack, crashed>>
  BY DEF vars
<1>2. CallsOK'
  BY <1>1, SameCalls DEF Inv, CallsOK
<1>3. HeadsOK' /\ LinksOK' /\ HeldOK' /\ NotCreatedOK' /\ DeliveredOK' /\ ResultsOK' /\ WhenAllOK'
  BY <1>1, SameState DEF Inv, clients
<1>4. Types' /\ PromisesOK'
  BY <1>1 DEF Inv, Types, PromisesOK, word, data, clients
<1> QED
  BY <1>1, <1>2, <1>3, <1>4 DEF Inv

(* Every step keeps the invariant.                                          *)
LEMMA NextInv ==
  ASSUME ~IsVoid, ArgumentsAreNotShared, Inv, [Next]_vars
  PROVE  Inv'
<1>1. CASE UNCHANGED vars
  BY <1>1, StutterInv
<1>2. CASE Next
  <2>1. PICK t \in Thread :
          \/ Step(t)
          \/ \E f \in Future : \/ Create(t, f) \/ TryComplete(t, f) \/ Abandon(t, f)
                               \/ RunCallback(t, f) \/ CompleteAwaited(t, f)
    BY <1>2 DEF Next
  <2>2. CASE Step(t)
    BY <2>2, AddContinuationInv, PostContinuationInv, TrySetPostedInv, InvokeInv, TaskInv,
       TryStartSetValueInv, TrySetSuccessInv, TryStartSetErrorInv, SetFailedInv DEF Step
  <2>3. ASSUME NEW f \in Future, \/ Create(t, f) \/ TryComplete(t, f) \/ Abandon(t, f)
                                 \/ RunCallback(t, f) \/ CompleteAwaited(t, f)
        PROVE  Inv'
    BY <2>3, CreateInv, TryCompleteInv, AbandonInv, RunCallbackInv, CompleteAwaitedInv
  <2> QED
    BY <2>1, <2>2, <2>3
<1> QED
  BY <1>1, <1>2

(* The invariant holds in every reachable state.                            *)
LEMMA SpecInv ==
  ASSUME ~IsVoid, ArgumentsAreNotShared
  PROVE  Spec => []Inv
<1>1. Init => Inv
  BY InitInv
<1>2. Inv /\ [Next]_vars => Inv'
  BY NextInv
<1> QED
  BY <1>1, <1>2, PTL DEF Spec

(* No VerifyElseCrash of the future code fails while callers use the Try    *)
(* methods, whatever futures, continuations and threads there are: two      *)
(* threads that complete a promise, a continuation added while its parent   *)
(* completes, a callback that is canceled, a promise that is abandoned.     *)
THEOREM FuturesDoNotCrash ==
  ASSUME ~IsVoid, ArgumentsAreNotShared
  PROVE  Spec => []TryMethodsDoNotCrash
<1>1. Inv => TryMethodsDoNotCrash
  BY DEF Inv, TryMethodsDoNotCrash
<1> QED
  BY <1>1, SpecInv, PTL

(* A copy and a shared future report their parent's outcome, WhenAll        *)
(* succeeds only when all its arguments did and fails only when one did,    *)
(* WhenAny reports the outcome of one of them.                              *)
THEOREM FutureOutcomes ==
  ASSUME ~IsVoid, ArgumentsAreNotShared
  PROVE  Spec => []OutcomeFollowsParents
<1>1. ASSUME Inv, NEW c \in Future, IsDone(c), Parents[c] # <<>>
      PROVE  LET outcomes == {state[Parents[c][i]] : i \in DOMAIN Parents[c]} IN
             CASE Kind[c] \in {"share", "copy"} -> outcomes = {state[c]}
               [] Kind[c] = "whenAny" -> state[c] \in outcomes
               [] Kind[c] = "whenAll" -> IF state[c] = "Succeeded" THEN outcomes = {"Succeeded"}
                                         ELSE "Failed" \in outcomes
               [] OTHER -> TRUE
  <2> DEFINE outcomes == {state[Parents[c][i]] : i \in DOMAIN Parents[c]}
  <2>1. /\ state[c] = "Succeeded" => MaySucceedByParents(c)
        /\ state[c] = "Failed" => MayFailByParents(c)
        /\ state[c] \in {"Succeeded", "Failed"}
    BY <1>1 DEF Inv, ResultsOK, IsDone, Done
  <2>2. CASE Kind[c] \in {"share", "copy"}
    <3>1. DOMAIN Parents[c] = {1} /\ state[Parents[c][1]] = state[c]
      BY <2>1, <2>2, SingleParent DEF MaySucceedByParents, MayFailByParents, Single, Parent
    <3>2. outcomes = {state[c]}
      BY <3>1
    <3> QED
      BY <2>2, <3>2
  <2>3. CASE Kind[c] = "whenAny"
    <3>1. \E i \in DOMAIN Parents[c] : state[Parents[c][i]] = state[c]
      BY <2>1, <2>3 DEF MaySucceedByParents, MayFailByParents, IsMultiPost
    <3>2. state[c] \in outcomes
      BY <3>1
    <3> QED
      BY <2>3, <3>2
  <2>4. CASE Kind[c] = "whenAll"
    <3>1. CASE state[c] = "Succeeded"
      <4>1. \A i \in DOMAIN Parents[c] : state[Parents[c][i]] = "Succeeded"
        BY <2>1, <2>4, <3>1 DEF MaySucceedByParents
      <4>2. DOMAIN Parents[c] # {}
        <5>1. Parents[c] \in Seq(Future)
          BY KindAssumption
        <5>2. Len(Parents[c]) \in Nat /\ Len(Parents[c]) # 0
          BY <5>1, <1>1, EmptySeq
        <5>3. 1 \in DOMAIN Parents[c]
          BY <5>1, <5>2
        <5> QED
          BY <5>3
      <4>3. outcomes = {"Succeeded"}
        BY <4>1, <4>2
      <4> QED
        BY <2>4, <3>1, <4>3
    <3>2. CASE state[c] = "Failed"
      <4>1. \E i \in DOMAIN Parents[c] : state[Parents[c][i]] = "Failed"
        BY <2>1, <2>4, <3>2 DEF MayFailByParents, IsMultiPost
      <4>2. "Failed" \in outcomes
        BY <4>1
      <4> QED
        BY <2>4, <3>2, <4>2
    <3> QED
      BY <2>1, <3>1, <3>2
  <2>5. CASE Kind[c] \notin {"share", "copy", "whenAny", "whenAll"}
    BY <2>5
  <2> QED
    BY <2>2, <2>3, <2>4, <2>5
<1>2. Inv => OutcomeFollowsParents
  BY <1>1 DEF OutcomeFollowsParents
<1> QED
  BY <1>2, SpecInv, PTL

(* Whoever sees a future succeed can read its value, also through a shared  *)
(* future, which reads its parent's.                                        *)
THEOREM FuturesAreReadable ==
  ASSUME ~IsVoid, ArgumentsAreNotShared
  PROVE  Spec => []SucceededIsReadable
<1>1. Inv => SucceededIsReadable
  BY InvReadable DEF SucceededIsReadable
<1> QED
  BY <1>1, SpecInv, PTL

-----------------------------------------------------------------------------
(* Where a continuation waits.                                              *)

(* A continuation of several parents is the last of its list.               *)
MultiLinksOK == \A w \in Future : IsMultiPost(w) => link[w] = Null

(* c is still to be added to p, in a list a thread is posting, posted, or   *)
(* in the list of p.                                                        *)
Placed(p, c) ==
  \/ At(stack, ListCall("AddContinuation", p, c))
  \/ \E d \in Future : At(stack, ListCall("PostContinuation", p, d)) /\ Reaches(link, d, c)
  \/ delivered[<<p, c>>] = 1
  \/ ~IsDone(p) /\ Reaches(link, head[p], c)

(* Every continuation that exists is in a place, posted at most once; one   *)
(* of several parents ends its list.                                        *)
PlacesOK ==
  /\ MultiLinksOK
  /\ \A e \in Edge : delivered[e] \in {0, 1}
  /\ \A p, c \in Future : <<p, c>> \in Edge /\ c \in created => Placed(p, c)

-----------------------------------------------------------------------------
(* Lists *)

LEMMA ReachesItself ==
  ASSUME NEW l, NEW h \in Future
  PROVE  Reaches(l, h, h)
BY DEF Reaches

(* The follower of a member is a member.                                    *)
LEMMA ReachesNext ==
  ASSUME NEW l, NEW h, NEW c, Reaches(l, h, c), l[c] \in Future
  PROVE  Reaches(l, h, l[c])
<1>1. ASSUME NEW S \in SUBSET (Future \ {l[c]}), h \in S
      PROVE  \E x \in S : l[x] \in Future \ S
  <2>1. CASE c \in S
    BY <1>1, <2>1
  <2>2. CASE c \notin S
    <3>1. S \in SUBSET (Future \ {c})
      BY <1>1, <2>2
    <3> QED
      BY <1>1, <3>1 DEF Reaches
  <2> QED
    BY <2>1, <2>2
<1> QED
  BY <1>1 DEF Reaches

(* Induction over a list: a set its links stay in has all of it.            *)
LEMMA ReachesInside ==
  ASSUME NEW l, NEW h, NEW c, Reaches(l, h, c), NEW T \in SUBSET Future, h \in T,
         \A x \in T : l[x] \in Future => l[x] \in T
  PROVE  c \in T
<1>1. SUFFICES ASSUME c \notin T
               PROVE  FALSE
  OBVIOUS
<1>2. T \in SUBSET (Future \ {c})
  BY <1>1
<1>3. PICK x \in T : l[x] \in Future \ T
  BY <1>2 DEF Reaches
<1> QED
  BY <1>3

(* Lists hold futures.                                                      *)
LEMMA ReachesFutures ==
  ASSUME NEW l, NEW h, NEW c, Reaches(l, h, c)
  PROVE  h \in Future /\ c \in Future
<1>1. h \in Future
  BY DEF Reaches
<1>2. c \in Future
  BY <1>1, ReachesInside
<1> QED
  BY <1>1, <1>2

(* A member that is not the first has a predecessor in the list.            *)
LEMMA ReachesFrom ==
  ASSUME NEW l, NEW h, NEW c, Reaches(l, h, c), c # h
  PROVE  \E y \in Future : Reaches(l, h, y) /\ l[y] = c
<1> DEFINE T == {x \in Future : Reaches(l, h, x) /\ x # c}
<1>1. SUFFICES ASSUME \A y \in Future : Reaches(l, h, y) => l[y] # c
               PROVE  FALSE
  OBVIOUS
<1>2. h \in T
  BY ReachesFutures, ReachesItself
<1>3. ASSUME NEW x \in T, l[x] \in Future
      PROVE  l[x] \in T
  BY <1>1, <1>3, ReachesNext
<1>4. c \in T
  <2>1. T \in SUBSET Future
    OBVIOUS
  <2> HIDE DEF T
  <2> QED
    BY <2>1, <1>2, <1>3, ReachesInside
<1> QED
  BY <1>4

(* A list all of whose links are kept has the same futures.                 *)
LEMMA ReachesStill ==
  ASSUME NEW l, NEW m, NEW h, NEW c, Reaches(l, h, c),
         \A x \in Future : Reaches(l, h, x) /\ l[x] \in Future => m[x] = l[x]
  PROVE  Reaches(m, h, c)
<1> DEFINE T == {x \in Future : Reaches(l, h, x) /\ Reaches(m, h, x)}
<1>1. h \in T
  BY ReachesFutures, ReachesItself
<1>2. ASSUME NEW x \in T, l[x] \in Future
      PROVE  l[x] \in T
  <2>1. Reaches(l, h, l[x]) /\ m[x] = l[x]
    BY <1>2, ReachesNext
  <2>2. Reaches(m, h, m[x])
    BY <1>2, <2>1, ReachesNext
  <2> QED
    BY <1>2, <2>1, <2>2
<1>3. c \in T
  <2>1. T \in SUBSET Future
    OBVIOUS
  <2> HIDE DEF T
  <2> QED
    BY <2>1, <1>1, <1>2, ReachesInside
<1> QED
  BY <1>3

(* The rest of a list is in the list.                                       *)
LEMMA ReachesBehind ==
  ASSUME NEW l, NEW h \in Future, NEW c, Reaches(l, l[h], c)
  PROVE  Reaches(l, h, c)
<1> DEFINE T == {x \in Future : Reaches(l, h, x)}
<1>1. l[h] \in Future
  BY ReachesFutures
<1>2. l[h] \in T
  BY <1>1, ReachesItself, ReachesNext
<1>3. ASSUME NEW x \in T, l[x] \in Future
      PROVE  l[x] \in T
  BY <1>3, ReachesNext
<1>4. c \in T
  <2>1. T \in SUBSET Future
    OBVIOUS
  <2> HIDE DEF T
  <2> QED
    BY <2>1, <1>2, <1>3, ReachesInside
<1> QED
  BY <1>4

(* A member that is not the first is in the rest.                           *)
LEMMA ReachesTail ==
  ASSUME NEW l, NEW h, NEW c, Reaches(l, h, c), c # h
  PROVE  l[h] \in Future /\ Reaches(l, l[h], c)
<1> DEFINE T == {x \in Future : x = h \/ Reaches(l, l[h], x)}
<1>1. h \in T
  BY ReachesFutures
<1>2. ASSUME NEW x \in T, l[x] \in Future
      PROVE  l[x] \in T
  <2>1. CASE x = h
    BY <2>1, <1>2, ReachesItself
  <2>2. CASE Reaches(l, l[h], x)
    BY <2>2, <1>2, ReachesNext
  <2> QED
    BY <1>2, <2>1, <2>2
<1>3. c \in T
  <2>1. T \in SUBSET Future
    OBVIOUS
  <2> HIDE DEF T
  <2> QED
    BY <2>1, <1>1, <1>2, ReachesInside
<1> QED
  BY <1>3, ReachesFutures

(* What is in the list of a waiting continuation waits for the same parent. *)
LEMMA ListWaits ==
  ASSUME Inv, MultiLinksOK, NEW p, NEW h, Waits(p, h), NEW c, Reaches(link, h, c)
  PROVE  Waits(p, c) /\ (link[c] \in Future => Single(c) /\ state[c] = "Pending")
<1> DEFINE T == {x \in Future : Waits(p, x)}
<1>1. ASSUME NEW x \in T, link[x] \in Future
      PROVE  Single(x) /\ state[x] = "Pending" /\ Waits(p, link[x])
  <2>1. x \in Future /\ Waits(p, x) /\ <<p, x>> \in Edge
    BY <1>1 DEF Waits
  <2>2. link[x] # Null
    BY <1>1, FutureAssumption
  <2>3. Single(x)
    BY <2>1, <2>2, KindCases, EdgeFacts DEF MultiLinksOK
  <2>4. state[x] = "Pending" /\ p = Parent(x)
    BY <2>1, <2>3, EdgeFacts DEF Waits
  <2>5. Waits(Parent(x), link[x])
    BY <2>1, <2>2, <2>3, <2>4 DEF Inv, LinksOK
  <2> QED
    BY <2>3, <2>4, <2>5
<1>2. h \in T
  BY ReachesFutures
<1>3. c \in T
  <2>1. T \in SUBSET Future
    OBVIOUS
  <2>2. \A x \in T : link[x] \in Future => link[x] \in T
    BY <1>1
  <2> HIDE DEF T
  <2> QED
    BY <2>1, <2>2, <1>2, ReachesInside
<1> QED
  BY <1>1, <1>3

(* What nothing is followed by can only be the first of a list.             *)
LEMMA FirstOnly ==
  ASSUME Inv, MultiLinksOK, NEW p, NEW h, Waits(p, h), NEW c, NotNext(c), Reaches(link, h, c)
  PROVE  c = h
<1>1. SUFFICES ASSUME c # h
               PROVE  FALSE
  OBVIOUS
<1>2. c \in Future
  BY ReachesFutures
<1>3. PICK y \in Future : Reaches(link, h, y) /\ link[y] = c
  BY <1>1, ReachesFrom
<1>4. Single(y) /\ state[y] = "Pending"
  BY <1>2, <1>3, ListWaits
<1> QED
  BY <1>3, <1>4 DEF NotNext

(* A future follows one other.                                              *)
LEMMA OnePredecessor ==
  ASSUME Inv, MultiLinksOK, NEW p, NEW c \in Future,
         NEW h, Waits(p, h), NEW x \in Future, Reaches(link, h, x), link[x] = c,
         NEW g, Waits(p, g), NEW y \in Future, Reaches(link, g, y), link[y] = c
  PROVE  x = y
<1>1. Single(x) /\ state[x] = "Pending" /\ Single(y) /\ state[y] = "Pending"
  BY ListWaits
<1>2. link[x] # Null
  BY FutureAssumption
<1> QED
  BY <1>1, <1>2 DEF Inv, LinksOK

(* Two lists that start differently have nothing in common.                 *)
LEMMA ListsDisjoint ==
  ASSUME Inv, MultiLinksOK, NEW p, NEW h, Waits(p, h), NotNext(h), NEW g, Waits(p, g), NotNext(g),
         h # g, NEW c, Reaches(link, h, c)
  PROVE  ~Reaches(link, g, c)
<1> DEFINE T == {x \in Future : Reaches(link, h, x) /\ ~Reaches(link, g, x)}
<1>1. h \in T
  BY FirstOnly, ReachesFutures, ReachesItself
<1>2. ASSUME NEW x \in T, link[x] \in Future
      PROVE  link[x] \in T
  <2>1. Reaches(link, h, link[x])
    BY <1>2, ReachesNext
  <2>2. ASSUME Reaches(link, g, link[x])
        PROVE  FALSE
    <3>1. PICK n : n = link[x] /\ n \in Future /\ Reaches(link, g, n)
      BY <1>2, <2>2
    <3>2. Single(x) /\ state[x] = "Pending"
      BY <1>2, ListWaits
    <3>3. n # g
      BY <3>1, <3>2, <1>2 DEF NotNext
    <3>4. PICK y \in Future : Reaches(link, g, y) /\ link[y] = n
      BY <3>1, <3>3, ReachesFrom
    <3>5. x = y
      BY <3>1, <3>4, <1>2, OnePredecessor
    <3> QED
      BY <3>4, <3>5, <1>2
  <2> QED
    BY <1>2, <2>1, <2>2
<1>3. c \in T
  <2>1. T \in SUBSET Future
    OBVIOUS
  <2> HIDE DEF T
  <2> QED
    BY <2>1, <1>1, <1>2, ReachesInside
<1> QED
  BY <1>3

(* No list is a ring.                                                       *)
LEMMA ListsEnd ==
  ASSUME Inv, MultiLinksOK, NEW p, NEW h, Waits(p, h), NotNext(h), NEW c, Reaches(link, h, c)
  PROVE  ~Reaches(link, link[c], c)
<1>1. SUFFICES ASSUME Reaches(link, link[c], c)
               PROVE  FALSE
  OBVIOUS
<1>2. c \in Future /\ Waits(p, c)
  BY ReachesFutures, ListWaits
<1>3. PICK n : n = link[c] /\ n \in Future /\ Reaches(link, n, c) /\ Waits(p, n)
  <2>1. link[c] \in Future /\ Reaches(link, c, link[c])
    BY <1>1, <1>2, ReachesFutures, ReachesItself, ReachesNext
  <2>2. PICK n : n = link[c]
    OBVIOUS
  <2>3. Waits(p, n)
    BY <2>1, <2>2, <1>2, ListWaits
  <2> QED
    BY <2>1, <2>2, <2>3, <1>1
(* c follows a future of its own list.                                      *)
<1>4. PICK z \in Future : Reaches(link, c, z) /\ link[z] = c
  <2>1. CASE n = c
    BY <2>1, <1>2, <1>3, ReachesItself
  <2>2. CASE n # c
    <3>1. PICK z \in Future : Reaches(link, n, z) /\ link[z] = c
      BY <2>2, <1>3, ReachesFrom
    <3>2. Reaches(link, c, z)
      BY <3>1, <1>2, <1>3, ReachesBehind
    <3> QED
      BY <3>1, <3>2
  <2> QED
    BY <2>1, <2>2
<1> DEFINE T == {x \in Future : Reaches(link, h, x) /\ ~Reaches(link, c, x)}
<1>5. h \in T
  <2>1. h \in Future /\ Reaches(link, h, h)
    BY ReachesFutures, ReachesItself
  <2>2. ASSUME Reaches(link, c, h)
        PROVE  FALSE
    <3>1. h = c
      BY <2>2, <1>2, FirstOnly
    <3>2. Single(z) /\ state[z] = "Pending"
      BY <1>2, <1>4, ListWaits
    <3> QED
      BY <3>1, <3>2, <1>4 DEF NotNext
  <2> QED
    BY <2>1, <2>2
<1>6. ASSUME NEW x \in T, link[x] \in Future
      PROVE  link[x] \in T
  <2>1. Reaches(link, h, link[x])
    BY <1>6, ReachesNext
  <2>2. ASSUME Reaches(link, c, link[x])
        PROVE  FALSE
    <3>1. PICK m : m = link[x] /\ m \in Future /\ Reaches(link, c, m)
      BY <1>6, <2>2
    <3>2. PICK y \in Future : Reaches(link, c, y) /\ link[y] = m
      BY <3>1, <1>4, ReachesFrom
    <3>3. x = y
      BY <3>1, <3>2, <1>2, <1>6, OnePredecessor
    <3> QED
      BY <3>2, <3>3, <1>6
  <2> QED
    BY <1>6, <2>1, <2>2
<1>7. c \in T
  <2>1. T \in SUBSET Future
    OBVIOUS
  <2> HIDE DEF T
  <2> QED
    BY <2>1, <1>5, <1>6, ReachesInside
<1> QED
  BY <1>2, <1>7, ReachesItself

-----------------------------------------------------------------------------
(* A continuation is in one place *)

LEMMA CountOne ==
  ASSUME NEW X, \A a, b \in X : a = b
  PROVE  Cardinality(X) = IF X = {} THEN 0 ELSE 1
<1>1. CASE X = {}
  BY <1>1, FS_EmptySet
<1>2. CASE X # {}
  <2>1. PICK a : X = {a}
    BY <1>2
  <2> QED
    BY <1>2, <2>1, FS_Singleton
<1> QED
  BY <1>1, <1>2

(* A call at a position of a stack.                                         *)
LEMMA CallAt ==
  ASSUME Inv, NEW t \in Thread, NEW i \in DOMAIN stack[t]
  PROVE  \E r \in Calls : r = stack[t][i] /\ At(stack, r) /\ CallOK(r)
<1>1. stack[t] \in Seq(Calls)
  BY DEF Inv, Types
<1>2. PICK r \in Calls : r = stack[t][i]
  BY <1>1
<1>3. At(stack, r)
  BY <1>2 DEF At
<1> QED
  BY <1>2, <1>3 DEF Inv, CallsOK

(* A list a thread has to post.                                             *)
LEMMA PostedList ==
  ASSUME Inv, NEW r \in Calls, CallOK(r), r.op \in ListOps
  PROVE  /\ Waits(r.parent, r.f) /\ NotNext(r.f) /\ r.parent \in Future /\ r.f \in Future
         /\ r = ListCall(r.op, r.parent, r.f)
         /\ r.op = "PostContinuation" => IsDone(r.parent)
<1>1. r \in [op : ListOps, f : Future, parent : Future]
  BY DEF Calls, CallOps, ListOps
<1> QED
  BY <1>1 DEF CallOK, ListCall

(* A list that begins with an unlinked continuation is no ring, so Listed   *)
(* is 0 or 1.                                                               *)
LEMMA ListedOnce ==
  ASSUME Inv, MultiLinksOK, NEW p, NEW h, Waits(p, h), NotNext(h), NEW c
  PROVE  Listed(c, h) = IF Reaches(link, h, c) THEN 1 ELSE 0
BY ListsEnd DEF Listed

(* The same for the list of a future.                                       *)
LEMMA ListedInHead ==
  ASSUME Inv, MultiLinksOK, NEW p \in Future, NEW c
  PROVE  Listed(c, head[p]) = IF Reaches(link, head[p], c) THEN 1 ELSE 0
<1>1. PICK h : h = head[p]
  OBVIOUS
<1>2. CASE h \in Future
  <2>1. Waits(p, h) /\ NotNext(h)
    BY <1>1, <1>2 DEF Inv, HeadsOK
  <2> QED
    BY <1>1, <2>1, ListedOnce
<1>3. CASE h \notin Future
  BY <1>1, <1>3 DEF Listed, Reaches
<1> QED
  BY <1>2, <1>3

(* The pending AddContinuation calls of an edge, one by one.                *)
LEMMA PendingAdd ==
  ASSUME NEW p, NEW c, NEW x
  PROVE  x \in PendingCalls("AddContinuation", <<p, c>>) <=>
           \E t \in Thread : \E i \in DOMAIN stack[t] :
             /\ x = <<t, i>> /\ stack[t][i].op = "AddContinuation"
             /\ stack[t][i].parent = p /\ stack[t][i].f = c
BY DEF PendingCalls

(* The pending PostContinuation calls whose list holds the continuation.    *)
LEMMA PendingPost ==
  ASSUME Inv, MultiLinksOK, NEW p, NEW c, NEW x
  PROVE  x \in PendingCalls("PostContinuation", <<p, c>>) <=>
           \E t \in Thread : \E i \in DOMAIN stack[t] :
             /\ x = <<t, i>> /\ stack[t][i].op = "PostContinuation"
             /\ stack[t][i].parent = p /\ Reaches(link, stack[t][i].f, c)
<1>1. x \in PendingCalls("PostContinuation", <<p, c>>) <=>
        \E t \in Thread : \E i \in DOMAIN stack[t] :
          /\ x = <<t, i>> /\ stack[t][i].op = "PostContinuation"
          /\ stack[t][i].parent = p /\ Listed(c, stack[t][i].f) = 1
  BY DEF PendingCalls
<1>2. ASSUME NEW t \in Thread, NEW i \in DOMAIN stack[t], stack[t][i].op = "PostContinuation"
      PROVE  Listed(c, stack[t][i].f) = 1 <=> Reaches(link, stack[t][i].f, c)
  <2>1. PICK r \in Calls : r = stack[t][i] /\ CallOK(r)
    BY CallAt
  <2>2. PICK h : h = r.f
    OBVIOUS
  <2>3. Waits(r.parent, h) /\ NotNext(h)
    BY <2>1, <2>2, <1>2, PostedList DEF ListOps
  <2>4. Listed(c, h) = IF Reaches(link, h, c) THEN 1 ELSE 0
    BY <2>3, ListedOnce
  <2> QED
    BY <2>1, <2>2, <2>4
<1> QED
  BY <1>1, <1>2

(* No two calls work on the same continuation of the same parent.           *)
LEMMA TwoListCalls ==
  ASSUME Inv, NEW t \in Thread, NEW i \in DOMAIN stack[t], NEW u \in Thread, NEW j \in DOMAIN stack[u],
         stack[t][i].op \in ListOps, stack[u][j].op \in ListOps,
         stack[t][i].parent = stack[u][j].parent, stack[t][i].f = stack[u][j].f
  PROVE  t = u /\ i = j
BY DEF Inv, CallsCompatible, Compatible

(* A continuation is added by one call.                                     *)
LEMMA AddOnce ==
  ASSUME Inv, NEW p, NEW c
  PROVE  \A a, b \in PendingCalls("AddContinuation", <<p, c>>) : a = b
<1> SUFFICES ASSUME NEW a \in PendingCalls("AddContinuation", <<p, c>>),
                    NEW b \in PendingCalls("AddContinuation", <<p, c>>)
             PROVE  a = b
  OBVIOUS
<1>1. PICK t \in Thread : \E i \in DOMAIN stack[t] :
        /\ a = <<t, i>> /\ stack[t][i].op = "AddContinuation"
        /\ stack[t][i].parent = p /\ stack[t][i].f = c
  BY PendingAdd
<1>2. PICK i \in DOMAIN stack[t] :
        /\ a = <<t, i>> /\ stack[t][i].op = "AddContinuation"
        /\ stack[t][i].parent = p /\ stack[t][i].f = c
  BY <1>1
<1>3. PICK u \in Thread : \E j \in DOMAIN stack[u] :
        /\ b = <<u, j>> /\ stack[u][j].op = "AddContinuation"
        /\ stack[u][j].parent = p /\ stack[u][j].f = c
  BY PendingAdd
<1>4. PICK j \in DOMAIN stack[u] :
        /\ b = <<u, j>> /\ stack[u][j].op = "AddContinuation"
        /\ stack[u][j].parent = p /\ stack[u][j].f = c
  BY <1>3
<1>5. t = u /\ i = j
  BY <1>2, <1>4, TwoListCalls DEF ListOps
<1> QED
  BY <1>2, <1>4, <1>5

(* A continuation is in the list of one posting call.                       *)
LEMMA PostOnce ==
  ASSUME Inv, MultiLinksOK, NEW p, NEW c
  PROVE  \A a, b \in PendingCalls("PostContinuation", <<p, c>>) : a = b
<1> SUFFICES ASSUME NEW a \in PendingCalls("PostContinuation", <<p, c>>),
                    NEW b \in PendingCalls("PostContinuation", <<p, c>>)
             PROVE  a = b
  OBVIOUS
<1>1. PICK t \in Thread : \E i \in DOMAIN stack[t] :
        /\ a = <<t, i>> /\ stack[t][i].op = "PostContinuation"
        /\ stack[t][i].parent = p /\ Reaches(link, stack[t][i].f, c)
  BY PendingPost
<1>2. PICK i \in DOMAIN stack[t] :
        /\ a = <<t, i>> /\ stack[t][i].op = "PostContinuation"
        /\ stack[t][i].parent = p /\ Reaches(link, stack[t][i].f, c)
  BY <1>1
<1>3. PICK u \in Thread : \E j \in DOMAIN stack[u] :
        /\ b = <<u, j>> /\ stack[u][j].op = "PostContinuation"
        /\ stack[u][j].parent = p /\ Reaches(link, stack[u][j].f, c)
  BY PendingPost
<1>4. PICK j \in DOMAIN stack[u] :
        /\ b = <<u, j>> /\ stack[u][j].op = "PostContinuation"
        /\ stack[u][j].parent = p /\ Reaches(link, stack[u][j].f, c)
  BY <1>3
<1>5. PICK r \in Calls : r = stack[t][i] /\ CallOK(r)
  BY CallAt
<1>6. PICK s \in Calls : s = stack[u][j] /\ CallOK(s)
  BY CallAt
<1>7. PICK h : h = r.f /\ Waits(p, h) /\ NotNext(h) /\ Reaches(link, h, c)
  <2>1. PICK h : h = r.f
    OBVIOUS
  <2> QED
    BY <2>1, <1>2, <1>5, PostedList DEF ListOps
<1>8. PICK g : g = s.f /\ Waits(p, g) /\ NotNext(g) /\ Reaches(link, g, c)
  <2>1. PICK g : g = s.f
    OBVIOUS
  <2> QED
    BY <2>1, <1>4, <1>6, PostedList DEF ListOps
<1>9. h = g
  BY <1>7, <1>8, ListsDisjoint
<1>10. t = u /\ i = j
  BY <1>2, <1>4, <1>5, <1>6, <1>7, <1>8, <1>9, TwoListCalls DEF ListOps
<1> QED
  BY <1>2, <1>4, <1>10

(* The four places exclude each other.                                      *)
LEMMA PlacesExclusive ==
  ASSUME Inv, MultiLinksOK, NEW p \in Future, NEW c \in Future, <<p, c>> \in Edge
  PROVE  /\ PendingCalls("AddContinuation", <<p, c>>) # {} =>
              /\ PendingCalls("PostContinuation", <<p, c>>) = {}
              /\ delivered[<<p, c>>] = 0 /\ ~Reaches(link, head[p], c)
         /\ PendingCalls("PostContinuation", <<p, c>>) # {} => IsDone(p) /\ delivered[<<p, c>>] = 0
         /\ Reaches(link, head[p], c) => delivered[<<p, c>>] = 0
<1>1. ASSUME NEW a \in PendingCalls("PostContinuation", <<p, c>>)
      PROVE  /\ IsDone(p) /\ delivered[<<p, c>>] = 0
             /\ PendingCalls("AddContinuation", <<p, c>>) = {}
  <2>1. PICK t \in Thread : \E i \in DOMAIN stack[t] :
          /\ stack[t][i].op = "PostContinuation"
          /\ stack[t][i].parent = p /\ Reaches(link, stack[t][i].f, c)
    BY PendingPost
  <2>2. PICK i \in DOMAIN stack[t] :
          /\ stack[t][i].op = "PostContinuation"
          /\ stack[t][i].parent = p /\ Reaches(link, stack[t][i].f, c)
    BY <2>1
  <2>3. PICK r \in Calls : r = stack[t][i] /\ CallOK(r)
    BY CallAt
  <2>4. PICK h : h = r.f /\ Waits(p, h) /\ Reaches(link, h, c)
    <3>1. PICK h : h = r.f
      OBVIOUS
    <3> QED
      BY <3>1, <2>2, <2>3, PostedList DEF ListOps
  <2>5. Waits(p, c)
    BY <2>4, ListWaits
  <2>6. ASSUME NEW b \in PendingCalls("AddContinuation", <<p, c>>)
        PROVE  FALSE
    <3>1. PICK u \in Thread : \E j \in DOMAIN stack[u] :
            /\ stack[u][j].op = "AddContinuation" /\ stack[u][j].parent = p /\ stack[u][j].f = c
      BY PendingAdd
    <3>2. PICK j \in DOMAIN stack[u] :
            /\ stack[u][j].op = "AddContinuation" /\ stack[u][j].parent = p /\ stack[u][j].f = c
      BY <3>1
    <3>3. PICK s \in Calls : s = stack[u][j] /\ CallOK(s)
      BY CallAt
    <3>4. NotNext(c)
      BY <3>2, <3>3 DEF CallOK, ListOps
    <3>5. h = c
      BY <3>4, <2>4, FirstOnly
    <3>6. t = u /\ i = j
      BY <3>2, <3>5, <2>2, <2>3, <2>4, TwoListCalls DEF ListOps
    <3> QED
      BY <3>2, <3>6, <2>2
  <2> QED
    BY <2>2, <2>3, <2>5, <2>6, PostedList DEF Waits, ListOps
<1>2. ASSUME NEW b \in PendingCalls("AddContinuation", <<p, c>>)
      PROVE  delivered[<<p, c>>] = 0 /\ ~Reaches(link, head[p], c)
  <2>1. PICK u \in Thread : \E j \in DOMAIN stack[u] :
          /\ stack[u][j].op = "AddContinuation" /\ stack[u][j].parent = p /\ stack[u][j].f = c
    BY PendingAdd
  <2>2. PICK j \in DOMAIN stack[u] :
          /\ stack[u][j].op = "AddContinuation" /\ stack[u][j].parent = p /\ stack[u][j].f = c
    BY <2>1
  <2>3. PICK s \in Calls : s = stack[u][j] /\ CallOK(s)
    BY CallAt
  <2>4. NotNext(c) /\ Waits(p, c) /\ head[p] # c
    BY <2>2, <2>3 DEF CallOK, ListOps
  <2>5. ~Reaches(link, head[p], c)
    <3>1. PICK h : h = head[p]
      OBVIOUS
    <3>2. Reaches(link, h, c) => Waits(p, h)
      BY <3>1, ReachesFutures DEF Inv, HeadsOK
    <3> QED
      BY <3>1, <3>2, <2>4, FirstOnly
  <2> QED
    BY <2>4, <2>5 DEF Waits
<1>3. Reaches(link, head[p], c) => delivered[<<p, c>>] = 0
  <2>1. PICK h : h = head[p]
    OBVIOUS
  <2>2. Reaches(link, h, c) => Waits(p, h)
    BY <2>1, ReachesFutures DEF Inv, HeadsOK
  <2>3. Reaches(link, h, c) => Waits(p, c)
    BY <2>2, ListWaits
  <2> QED
    BY <2>1, <2>3 DEF Waits
<1> QED
  BY <1>1, <1>2, <1>3

(* A continuation in some place is in exactly one: the places exclude each  *)
(* other.                                                                   *)
LEMMA OnePlace ==
  ASSUME Inv, PlacesOK
  PROVE  ContinuationIsSomewhere
<1> SUFFICES ASSUME NEW e \in Edge, e[2] \in created
             PROVE  Cardinality(PendingCalls("AddContinuation", e))
                      + Cardinality(PendingCalls("PostContinuation", e))
                      + delivered[e] + (IF IsDone(e[1]) THEN 0 ELSE Listed(e[2], head[e[1]])) = 1
  BY DEF ContinuationIsSomewhere
<1>1. PICK c \in Future : \E i \in DOMAIN Parents[c] : e = <<Parents[c][i], c>>
  BY DEF Edge
<1>2. PICK p : e = <<p, c>>
  BY <1>1
<1>3. p \in Future /\ c \in created /\ e[1] = p /\ e[2] = c /\ <<p, c>> \in Edge
  BY <1>1, <1>2, EdgeFacts
<1>4. MultiLinksOK /\ delivered[<<p, c>>] \in {0, 1} /\ Placed(p, c)
  BY <1>3 DEF PlacesOK
<1>5. /\ Cardinality(PendingCalls("AddContinuation", <<p, c>>))
           = IF PendingCalls("AddContinuation", <<p, c>>) = {} THEN 0 ELSE 1
      /\ Cardinality(PendingCalls("PostContinuation", <<p, c>>))
           = IF PendingCalls("PostContinuation", <<p, c>>) = {} THEN 0 ELSE 1
  BY <1>4, AddOnce, PostOnce, CountOne
<1>6. Listed(c, head[p]) = IF Reaches(link, head[p], c) THEN 1 ELSE 0
  BY <1>3, <1>4, ListedInHead
<1>7. \/ PendingCalls("AddContinuation", <<p, c>>) # {}
      \/ PendingCalls("PostContinuation", <<p, c>>) # {}
      \/ delivered[<<p, c>>] = 1
      \/ ~IsDone(p) /\ Reaches(link, head[p], c)
  <2>1. CASE At(stack, ListCall("AddContinuation", p, c))
    <3>1. PICK t \in Thread : \E i \in DOMAIN stack[t] : stack[t][i] = ListCall("AddContinuation", p, c)
      BY <2>1 DEF At
    <3>2. PICK i \in DOMAIN stack[t] : stack[t][i] = ListCall("AddContinuation", p, c)
      BY <3>1
    <3>3. stack[t][i].op = "AddContinuation" /\ stack[t][i].parent = p /\ stack[t][i].f = c
      BY <3>2 DEF ListCall
    <3>4. <<t, i>> \in PendingCalls("AddContinuation", <<p, c>>)
      BY <3>3, PendingAdd
    <3> QED
      BY <3>4
  <2>2. CASE \E d \in Future : At(stack, ListCall("PostContinuation", p, d)) /\ Reaches(link, d, c)
    <3>1. PICK d \in Future : At(stack, ListCall("PostContinuation", p, d)) /\ Reaches(link, d, c)
      BY <2>2
    <3>2. PICK t \in Thread : \E i \in DOMAIN stack[t] : stack[t][i] = ListCall("PostContinuation", p, d)
      BY <3>1 DEF At
    <3>3. PICK i \in DOMAIN stack[t] : stack[t][i] = ListCall("PostContinuation", p, d)
      BY <3>2
    <3>4. stack[t][i].op = "PostContinuation" /\ stack[t][i].parent = p /\ stack[t][i].f = d
      BY <3>3 DEF ListCall
    <3>5. <<t, i>> \in PendingCalls("PostContinuation", <<p, c>>)
      BY <3>1, <3>4, <1>4, PendingPost
    <3> QED
      BY <3>5
  <2> QED
    BY <2>1, <2>2, <1>4 DEF Placed
<1>8. /\ PendingCalls("AddContinuation", <<p, c>>) # {} =>
           /\ PendingCalls("PostContinuation", <<p, c>>) = {}
           /\ delivered[<<p, c>>] = 0 /\ ~Reaches(link, head[p], c)
      /\ PendingCalls("PostContinuation", <<p, c>>) # {} => IsDone(p) /\ delivered[<<p, c>>] = 0
      /\ Reaches(link, head[p], c) => delivered[<<p, c>>] = 0
  BY <1>3, <1>4, PlacesExclusive
<1>9. PICK add, post, listed :
        /\ add = PendingCalls("AddContinuation", <<p, c>>)
        /\ post = PendingCalls("PostContinuation", <<p, c>>) /\ listed = Reaches(link, head[p], c)
  OBVIOUS
<1>10. Cardinality(add) + Cardinality(post) + delivered[<<p, c>>]
         + (IF IsDone(p) THEN 0 ELSE Listed(c, head[p])) = 1
  <2>1. CASE add # {}
    BY <2>1, <1>4, <1>5, <1>6, <1>8, <1>9
  <2>2. CASE add = {} /\ post # {}
    BY <2>2, <1>4, <1>5, <1>6, <1>8, <1>9
  <2>3. CASE add = {} /\ post = {}
    BY <2>3, <1>4, <1>5, <1>6, <1>7, <1>8, <1>9
  <2> QED
    BY <2>1, <2>2, <2>3
<1> QED
  BY <1>2, <1>3, <1>9, <1>10

-----------------------------------------------------------------------------
(* A continuation stays somewhere *)

(* A step that makes at most one call keeps the others.                     *)
LEMMA ContinueKeeps ==
  ASSUME Inv, NEW t \in Thread, stack[t] # <<>>, NEW calls, calls = <<>> \/ \E a : calls = <<a>>,
         Continue(t, calls)
  PROVE  /\ \A r \in Calls : At(stack, r) /\ r # Head(stack[t]) => At(stack', r)
         /\ \A a : calls = <<a>> => At(stack', a)
<1>1. /\ stack[t] \in Seq(Calls) /\ Len(stack[t]) \in Nat \ {0} /\ DOMAIN stack[t] = 1 .. Len(stack[t])
      /\ Tail(stack[t]) \in Seq(Calls) /\ Len(Tail(stack[t])) = Len(stack[t]) - 1
      /\ Head(stack[t]) = stack[t][1]
      /\ \A i \in 1 .. Len(stack[t]) - 1 : Tail(stack[t])[i] = stack[t][i + 1]
  <2>1. stack[t] \in Seq(Calls)
    BY DEF Inv, Types
  <2> QED
    BY <2>1
<1>2. stack'[t] = calls \o Tail(stack[t]) /\ \A u \in Thread \ {t} : stack'[u] = stack[u]
  BY DEF Continue, Inv, Types
<1>3. PICK X : calls \in Seq(X) /\ Calls \subseteq X
  <2>1. CASE calls = <<>>
    <3>1. <<>> \in Seq(Calls)
      OBVIOUS
    <3> QED
      BY <2>1, <3>1
  <2>2. CASE \E a : calls = <<a>>
    <3>1. PICK a : calls = <<a>>
      BY <2>2
    <3>2. PICK X : X = Calls \cup {a}
      OBVIOUS
    <3>3. <<a>> \in Seq(X)
      BY <3>2
    <3> QED
      BY <3>1, <3>2, <3>3
  <2> QED
    BY <2>1, <2>2
<1>4. PICK n \in Nat : n = Len(calls) /\ DOMAIN calls = 1 .. n
  BY <1>3
<1>5. PICK m \in Nat : m = Len(stack[t]) - 1 /\ m = Len(Tail(stack[t]))
  BY <1>1
<1>6. Tail(stack[t]) \in Seq(X)
  BY <1>1, <1>3
<1>7. /\ DOMAIN stack'[t] = 1 .. n + m
      /\ \A i \in 1 .. n : stack'[t][i] = calls[i]
      /\ \A i \in 1 .. m : stack'[t][n + i] = Tail(stack[t])[i]
  <2>0. PICK c \in Seq(X) : c = calls /\ Len(c) = n
    BY <1>3, <1>4
  <2>1. PICK s \in Seq(X) : s = Tail(stack[t]) /\ Len(s) = m
    BY <1>5, <1>6
  <2>2. stack'[t] = calls \o s
    BY <2>1, <1>2
  <2>3. PICK z \in Seq(X) : z = c \o s
    BY <2>0, <2>1, ConcatProperties
  <2>4. /\ Len(z) = n + m
        /\ \A i \in 1 .. n + m : z[i] = IF i <= n THEN calls[i] ELSE s[i - n]
    <3>1. /\ Len(c \o s) = Len(c) + Len(s)
          /\ \A i \in 1 .. Len(c) + Len(s) :
               (c \o s)[i] = IF i <= Len(c) THEN c[i] ELSE s[i - Len(c)]
      BY ConcatProperties
    <3>2. Len(z) = Len(c) + Len(s)
      BY <3>1, <2>3
    <3>3. \A i \in 1 .. Len(c) + Len(s) : z[i] = IF i <= Len(c) THEN c[i] ELSE s[i - Len(c)]
      BY <3>1, <2>3
    <3>4. Len(c) = n /\ Len(s) = m /\ c = calls
      BY <2>0, <2>1
    <3> QED
      BY <3>2, <3>3, <3>4
  <2>5. ASSUME NEW i \in 1 .. m
        PROVE  z[n + i] = s[i]
    <3>1. n + i \in 1 .. n + m /\ ~(n + i <= n) /\ (n + i) - n = i
      OBVIOUS
    <3> QED
      BY <3>1, <2>4
  <2>6. \A i \in 1 .. n : i \in 1 .. n + m /\ z[i] = calls[i]
    BY <2>4
  <2>7. stack'[t] = z /\ DOMAIN z = 1 .. n + m
    BY <2>0, <2>2, <2>3, <2>4
  <2> QED
    BY <2>1, <2>5, <2>6, <2>7
<1>8. ASSUME NEW r \in Calls, At(stack, r), r # Head(stack[t])
      PROVE  At(stack', r)
  <2>1. PICK u \in Thread : \E i \in DOMAIN stack[u] : stack[u][i] = r
    BY <1>8 DEF At
  <2>2. PICK i \in DOMAIN stack[u] : stack[u][i] = r
    BY <2>1
  <2>3. CASE u # t
    BY <2>2, <2>3, <1>2 DEF At
  <2>4. CASE u = t
    <3>1. PICK j \in 1 .. m : i = j + 1
      <4>1. i \in 1 .. m + 1 /\ i # 1
        BY <2>2, <2>4, <1>1, <1>5, <1>8
      <4>2. i - 1 \in 1 .. m /\ i = (i - 1) + 1
        BY <4>1
      <4> QED
        BY <4>2
    <3>2. n + j \in DOMAIN stack'[t] /\ stack'[t][n + j] = r
      BY <3>1, <2>2, <2>4, <1>1, <1>5, <1>7
    <3> QED
      BY <3>2 DEF At
  <2> QED
    BY <2>3, <2>4
<1>9. ASSUME NEW a, calls = <<a>>
      PROVE  At(stack', a)
  <2>1. n = 1 /\ calls[1] = a
    BY <1>4, <1>9
  <2>2. 1 \in DOMAIN stack'[t] /\ stack'[t][1] = a
    BY <2>1, <1>7
  <2> QED
    BY <2>2 DEF At
<1> QED
  BY <1>8, <1>9

(* A step that touches neither lists nor results.                           *)
LEMMA KeepPlaces ==
  ASSUME PlacesOK, UNCHANGED <<head, link, delivered>>, UNCHANGED created,
         \A p \in Future : IsDone(p)' => IsDone(p),
         \A op \in ListOps : \A p, c \in Future :
           At(stack, ListCall(op, p, c)) => At(stack', ListCall(op, p, c))
  PROVE  PlacesOK'
<1>1. ASSUME NEW p \in Future, NEW c \in Future, <<p, c>> \in Edge, c \in created
      PROVE  Placed(p, c)'
  BY <1>1 DEF PlacesOK, Placed, ListOps
<1> QED
  BY <1>1 DEF PlacesOK, MultiLinksOK

(* The calls on lists are calls.                                            *)
LEMMA ListCallIn ==
  ASSUME NEW op \in ListOps, NEW p \in Future, NEW c \in Future
  PROVE  /\ ListCall(op, p, c) \in Calls
         /\ ListCall(op, p, c).op = op /\ ListCall(op, p, c).parent = p /\ ListCall(op, p, c).f = c
BY DEF ListCall, Calls

(* Steps of the calls that neither add nor post nor complete.               *)
LEMMA QuietPlaces ==
  ASSUME Inv, PlacesOK, Inv', NEW t \in Thread,
         \/ TrySetPosted(t) \/ Invoke(t) \/ Task(t) \/ TryStartSetValue(t) \/ TryStartSetError(t)
  PROVE  PlacesOK'
<1>1. stack[t] # <<>> /\ Head(stack[t]).op \notin ListOps
  BY DEF Top, TrySetPosted, Invoke, Task, TryStartSetValue, TryStartSetError, ListOps
<1>2. ~crashed' /\ ~Crash
  BY DEF Inv, Crash
<1>3. PICK f : f = Head(stack[t]).f
  OBVIOUS
<1>4. /\ UNCHANGED <<head, link, delivered>> /\ UNCHANGED created
      /\ \E calls : (calls = <<>> \/ \E a : calls = <<a>>) /\ Continue(t, calls)
      /\ state' = state \/ \E v : v \notin Done /\ state' = [state EXCEPT ![f] = v]
  <2> USE DEF Done
  <2>1. ASSUME NEW b, Unexpected(t, b)
        PROVE  /\ UNCHANGED <<head, link, delivered>> /\ UNCHANGED created /\ state' = state
               /\ Continue(t, <<>>)
    BY <2>1, <1>2 DEF Unexpected, Return, word, data, clients
  <2>2. CASE TrySetPosted(t)
    <3>1. Continue(t, <<>>) /\ UNCHANGED <<head, link, delivered>> /\ UNCHANGED created
      BY <2>2 DEF TrySetPosted, Return, data, clients
    <3>2. state' = [state EXCEPT ![f] = IF state[f] = "Posting" THEN "Posted" ELSE state[f]]
      BY <2>2, <1>3 DEF TrySetPosted
    <3>3. state' = state \/ state' = [state EXCEPT ![f] = "Posted"]
      BY <3>2 DEF Inv, Types
    <3> QED
      BY <3>1, <3>3
  <2>3. CASE Invoke(t)
    <3>1. CASE state[f] \in {"Posting", "Posted"}
      <4>1. /\ state' = [state EXCEPT ![f] = "Invoking"] /\ Continue(t, <<Call("Task", f, TRUE, TRUE)>>)
            /\ UNCHANGED <<head, link, delivered>> /\ UNCHANGED created
        BY <2>3, <3>1, <1>3 DEF Invoke, data, clients
      <4> QED
        BY <4>1
    <3>2. CASE state[f] \notin {"Posting", "Posted"}
      BY <2>1, <2>3, <3>2, <1>3 DEF Invoke
    <3> QED
      BY <3>1, <3>2
  <2>4. CASE Task(t)
    <3>1. /\ UNCHANGED <<head, link, delivered>> /\ UNCHANGED created
          /\ state' = state \/ state' = [state EXCEPT ![f] = "Awaiting"]
      BY <2>4, <1>2, <1>3 DEF Task
    <3>2. PICK result : Continue(t, CASE result = "value" -> <<SetValue(f, TRUE, TRUE)>>
                                     [] result = "error" -> <<Call("TryStartSetError", f, TRUE, TRUE)>>
                                     [] OTHER -> <<>>)
      BY <2>4, <1>2, <1>3 DEF Task
    <3>3. PICK calls : /\ calls = <<SetValue(f, TRUE, TRUE)>> \/ calls = <<>>
                            \/ calls = <<Call("TryStartSetError", f, TRUE, TRUE)>>
                       /\ Continue(t, calls)
      BY <3>2
    <3> QED
      BY <3>1, <3>3
  <2>5. CASE TryStartSetValue(t)
    <3>1. CASE MayStartSetValue(f, Head(stack[t]).sync)
      <4>1. /\ state' = [state EXCEPT ![f] = "SettingResult"]
            /\ Continue(t, <<Call("TrySetSuccess", f, TRUE, Head(stack[t]).sync)>>)
            /\ UNCHANGED <<head, link, delivered>> /\ UNCHANGED created
        BY <2>5, <3>1, <1>3 DEF TryStartSetValue, clients
      <4> QED
        BY <4>1
    <3>2. CASE ~MayStartSetValue(f, Head(stack[t]).sync)
      BY <2>1, <2>5, <3>2, <1>3 DEF TryStartSetValue
    <3> QED
      BY <3>1, <3>2
  <2>6. CASE TryStartSetError(t)
    <3>1. CASE MayFail(f, Head(stack[t]).sync)
      <4>1. /\ state' = [state EXCEPT ![f] = "SettingResult"]
            /\ Continue(t, <<Call("SetFailed", f, TRUE, Head(stack[t]).sync)>>)
            /\ UNCHANGED <<head, link, delivered>> /\ UNCHANGED created
        BY <2>6, <3>1, <1>3 DEF TryStartSetError, data, clients
      <4> QED
        BY <4>1
    <3>2. CASE ~MayFail(f, Head(stack[t]).sync)
      BY <2>1, <2>6, <3>2, <1>3 DEF TryStartSetError
    <3> QED
      BY <3>1, <3>2
  <2> QED
    BY <2>2, <2>3, <2>4, <2>5, <2>6
<1>5. \A r \in Calls : At(stack, r) /\ r # Head(stack[t]) => At(stack', r)
  BY <1>1, <1>4, ContinueKeeps
<1>6. \A op \in ListOps : \A p, c \in Future :
        At(stack, ListCall(op, p, c)) => At(stack', ListCall(op, p, c))
  BY <1>1, <1>5, ListCallIn
<1>7. \A p \in Future : IsDone(p)' => IsDone(p)
  BY <1>4 DEF IsDone, Inv, Types
<1> QED
  BY <1>4, <1>6, <1>7, KeepPlaces

(* The callers' steps other than Create.                                    *)
LEMMA StartKeepsCalls ==
  ASSUME Inv, NEW t \in Thread, NEW calls, Start(t, calls), NEW r, At(stack, r)
  PROVE  At(stack', r)
<1>1. PICK u \in Thread : \E i \in DOMAIN stack[u] : stack[u][i] = r
  BY DEF At
<1>2. u # t
  BY <1>1 DEF Start
<1>3. stack'[u] = stack[u]
  BY <1>2 DEF Start, Inv, Types
<1> QED
  BY <1>1, <1>3 DEF At

(* A program that sets, drops or runs something moves no continuation.      *)
LEMMA CallerPlaces ==
  ASSUME Inv, PlacesOK, NEW t \in Thread, NEW f \in Future,
         \/ TryComplete(t, f) \/ Abandon(t, f) \/ RunCallback(t, f) \/ CompleteAwaited(t, f)
  PROVE  PlacesOK'
<1>1. UNCHANGED <<head, link, delivered>> /\ UNCHANGED created /\ state' = state
  BY DEF TryComplete, Abandon, RunCallback, CompleteAwaited, word, data
<1>2. \E calls : Start(t, calls)
  BY DEF TryComplete, Abandon, RunCallback, CompleteAwaited
<1>3. \A r : At(stack, r) => At(stack', r)
  BY <1>2, StartKeepsCalls
<1>4. \A p \in Future : IsDone(p)' => IsDone(p)
  BY <1>1 DEF IsDone
<1> QED
  BY <1>1, <1>3, <1>4, KeepPlaces

(* Create: the new continuation is to be added to each of its parents.      *)
LEMMA CreatePlaces ==
  ASSUME Inv, PlacesOK, NEW t \in Thread, NEW c0 \in Future, Create(t, c0)
  PROVE  PlacesOK'
<1>1. /\ UNCHANGED <<head, link, delivered>> /\ state' = state /\ created' = created \cup {c0}
      /\ Start(t, [i \in DOMAIN Parents[c0] |-> ListCall("AddContinuation", Parents[c0][i], c0)])
  BY DEF Create, word, data
<1>2. \A r : At(stack, r) => At(stack', r)
  BY <1>1, StartKeepsCalls
<1>3. ASSUME NEW p \in Future, NEW c \in Future, <<p, c>> \in Edge, c \in created'
      PROVE  Placed(p, c)'
  <2>1. CASE c \in created
    <3>1. Placed(p, c)
      BY <1>3, <2>1 DEF PlacesOK
    <3> QED
      BY <3>1, <1>1, <1>2 DEF Placed, IsDone
  <2>2. CASE c = c0
    <3>1. PICK i \in DOMAIN Parents[c0] : p = Parents[c0][i]
      BY <1>3, <2>2, EdgeFacts
    <3>2. stack'[t] = [j \in DOMAIN Parents[c0] |-> ListCall("AddContinuation", Parents[c0][j], c0)]
      BY <1>1 DEF Start, Inv, Types
    <3>3. i \in DOMAIN stack'[t] /\ stack'[t][i] = ListCall("AddContinuation", p, c)
      BY <3>1, <3>2, <2>2
    <3>4. At(stack', ListCall("AddContinuation", p, c))
      BY <3>3 DEF At
    <3> QED
      BY <3>4 DEF Placed
  <2> QED
    BY <1>1, <1>3, <2>1, <2>2
<1> QED
  BY <1>1, <1>3 DEF PlacesOK, MultiLinksOK

(* A list whose links are kept, as far as they belong to it.                *)
LEMMA ListStill ==
  ASSUME Inv, MultiLinksOK, NEW p, NEW h, Waits(p, h), NEW c, Reaches(link, h, c), NEW m,
         \A x \in Future : Single(x) /\ state[x] = "Pending" /\ Reaches(link, h, x) => m[x] = link[x]
  PROVE  Reaches(m, h, c)
<1>1. \A x \in Future : Reaches(link, h, x) /\ link[x] \in Future => m[x] = link[x]
  BY ListWaits
<1> QED
  BY <1>1, ReachesStill

(* The list of an undone future, and one a thread has to post.              *)
LEMMA HeadList ==
  ASSUME Inv, NEW p \in Future, NEW c, Reaches(link, head[p], c)
  PROVE  \E h \in Future : h = head[p] /\ Waits(p, h) /\ NotNext(h) /\ Reaches(link, h, c)
<1>1. PICK h : h = head[p]
  OBVIOUS
<1>2. h \in Future
  BY <1>1, ReachesFutures
<1> QED
  BY <1>1, <1>2 DEF Inv, HeadsOK

(* What a pending call on a list says.                                      *)
LEMMA PostList ==
  ASSUME Inv, NEW p \in Future, NEW d \in Future, NEW op \in ListOps, At(stack, ListCall(op, p, d))
  PROVE  /\ Waits(p, d) /\ NotNext(d) /\ head[p] # d
         /\ op = "PostContinuation" => IsDone(p)
<1>1. PICK r \in Calls : r = ListCall(op, p, d) /\ r.op = op /\ r.parent = p /\ r.f = d
  BY ListCallIn
<1>2. CallOK(r)
  BY <1>1 DEF Inv, CallsOK
<1> QED
  BY <1>1, <1>2 DEF CallOK, ListOps

(* A result moves the whole list of its future to the thread.               *)
LEMMA SetResultPlaces ==
  ASSUME Inv, PlacesOK, Inv', NEW t \in Thread, TrySetSuccess(t) \/ SetFailed(t)
  PROVE  PlacesOK'
<1>1. PICK r0 \in Calls : /\ r0 = Head(stack[t]) /\ r0.op \in {"TrySetSuccess", "SetFailed"}
                          /\ stack[t] # <<>> /\ CallOK(r0)
  BY TopCall DEF Inv, TrySetSuccess, SetFailed
<1>2. PICK f \in Future : f = r0.f
  BY DEF Calls
<1>3. state[f] \in {"Invoking", "SettingResult"}
  BY <1>1, <1>2 DEF CallOK
<1>4. ~crashed' /\ ~Crash
  BY DEF Inv, Crash
<1>5. PICK v, l : /\ state' = [state EXCEPT ![f] = v] /\ link' = [link EXCEPT ![f] = l]
                  /\ IsMultiPost(f) => l = Null
                  /\ TakeContinuations(t, f) /\ UNCHANGED <<clients, delivered>>
  <2>1. CASE TrySetSuccess(t)
    <3>1. r0.op = "TrySetSuccess"
      BY <2>1, <1>1 DEF TrySetSuccess, Top
    <3>2. MaySucceed(f, r0.sync)
      BY <3>1, <1>1, <1>2 DEF CallOK, MaySucceed, IsVoidValue
    <3>3. /\ state' = [state EXCEPT ![f] = "Succeeded"]
          /\ link' = [link EXCEPT ![f] = IF Kind[f] = "share" THEN link[f] ELSE Null]
          /\ TakeContinuations(t, f) /\ UNCHANGED <<clients, delivered>>
      BY <2>1, <3>2, <1>1, <1>2, <1>4 DEF TrySetSuccess
    <3>4. IsMultiPost(f) => Kind[f] # "share"
      BY DEF IsMultiPost
    <3> QED
      BY <3>3, <3>4
  <2>2. CASE SetFailed(t)
    <3>1. /\ state' = [state EXCEPT ![f] = "Failed"] /\ link' = [link EXCEPT ![f] = Null]
          /\ TakeContinuations(t, f) /\ UNCHANGED <<clients, delivered>>
      BY <2>2, <1>1, <1>2, <1>4 DEF SetFailed
    <3> QED
      BY <3>1
  <2> QED
    BY <2>1, <2>2
<1>7. /\ \A q \in Future \ {f} : state'[q] = state[q] /\ link'[q] = link[q]
      /\ TakeContinuations(t, f) /\ UNCHANGED delivered /\ UNCHANGED created
      /\ IsMultiPost(f) => link'[f] = Null
  BY <1>5 DEF Inv, Types, clients
<1>8. \A q \in Future \ {f} : head'[q] = head[q]
  BY <1>7 DEF TakeContinuations, Inv, Types
<1>9. /\ \A r \in Calls : At(stack, r) /\ r # Head(stack[t]) => At(stack', r)
      /\ head[f] # Null => At(stack', ListCall("PostContinuation", f, head[f]))
  <2>1. CASE head[f] = Null
    <3>1. Continue(t, <<>>)
      BY <2>1, <1>7 DEF TakeContinuations
    <3> QED
      BY <2>1, <3>1, <1>1, ContinueKeeps
  <2>2. CASE head[f] # Null
    <3>1. PICK a : a = ListCall("PostContinuation", f, head[f])
      OBVIOUS
    <3>2. Continue(t, <<a>>)
      BY <2>2, <3>1, <1>7 DEF TakeContinuations
    <3>3. PICK calls : calls = <<a>>
      OBVIOUS
    <3> QED
      BY <3>1, <3>2, <3>3, <1>1, ContinueKeeps
  <2> QED
    BY <2>1, <2>2
<1>10. \A op \in ListOps : \A p, c \in Future :
         At(stack, ListCall(op, p, c)) => At(stack', ListCall(op, p, c))
  BY <1>1, <1>9, ListCallIn DEF ListOps
<1>11. MultiLinksOK
  BY DEF PlacesOK
<1>12. ASSUME NEW p, NEW h, Waits(p, h), NEW c, Reaches(link, h, c)
       PROVE  Reaches(link', h, c)
  <2>1. \A x \in Future : state[x] = "Pending" => link'[x] = link[x]
    BY <1>3, <1>7
  <2> QED
    BY <2>1, <1>11, <1>12, ListStill
<1>13. ASSUME NEW p \in Future, NEW c \in Future, <<p, c>> \in Edge, c \in created'
       PROVE  Placed(p, c)'
  <2>1. Placed(p, c)
    BY <1>7, <1>13 DEF PlacesOK
  <2>2. CASE At(stack, ListCall("AddContinuation", p, c))
    BY <2>2, <1>10 DEF Placed, ListOps
  <2>3. CASE \E d \in Future : At(stack, ListCall("PostContinuation", p, d)) /\ Reaches(link, d, c)
    <3>1. PICK d \in Future : At(stack, ListCall("PostContinuation", p, d)) /\ Reaches(link, d, c)
      BY <2>3
    <3>2. Waits(p, d) /\ At(stack', ListCall("PostContinuation", p, d))
      BY <3>1, <1>10, PostList DEF ListOps
    <3>3. Reaches(link', d, c)
      BY <3>1, <3>2, <1>12
    <3> QED
      BY <3>2, <3>3 DEF Placed
  <2>4. CASE delivered[<<p, c>>] = 1
    BY <2>4, <1>7 DEF Placed
  <2>5. CASE ~IsDone(p) /\ Reaches(link, head[p], c)
    <3>1. PICK h \in Future : h = head[p] /\ Waits(p, h) /\ Reaches(link, h, c)
      BY <2>5, HeadList
    <3>2. Reaches(link', h, c)
      BY <3>1, <1>12
    <3>3. CASE p = f
      <4>1. h # Null
        BY FutureAssumption
      <4>2. At(stack', ListCall("PostContinuation", p, h))
        BY <4>1, <3>1, <3>3, <1>9
      <4> QED
        BY <4>2, <3>2 DEF Placed
    <3>4. CASE p # f
      <4>1. head'[p] = h /\ ~IsDone(p)'
        BY <3>1, <3>4, <2>5, <1>7, <1>8 DEF IsDone
      <4> QED
        BY <4>1, <3>2 DEF Placed
    <3> QED
      BY <3>3, <3>4
  <2> QED
    BY <2>1, <2>2, <2>3, <2>4, <2>5 DEF Placed
<1>14. MultiLinksOK'
  BY <1>7, <1>11 DEF MultiLinksOK
<1> QED
  BY <1>7, <1>13, <1>14 DEF PlacesOK

(* A call that adds or posts c is the only one for its parent.              *)
LEMMA OneListCall ==
  ASSUME Inv, NEW p, NEW c, NEW op1 \in ListOps, NEW op2 \in ListOps,
         At(stack, ListCall(op1, p, c)), At(stack, ListCall(op2, p, c))
  PROVE  op1 = op2
<1>1. PICK t \in Thread : \E i \in DOMAIN stack[t] : stack[t][i] = ListCall(op1, p, c)
  BY DEF At
<1>2. PICK i \in DOMAIN stack[t] : stack[t][i] = ListCall(op1, p, c)
  BY <1>1
<1>3. PICK u \in Thread : \E j \in DOMAIN stack[u] : stack[u][j] = ListCall(op2, p, c)
  BY DEF At
<1>4. PICK j \in DOMAIN stack[u] : stack[u][j] = ListCall(op2, p, c)
  BY <1>3
<1>5. /\ stack[t][i].op = op1 /\ stack[t][i].parent = p /\ stack[t][i].f = c
      /\ stack[u][j].op = op2 /\ stack[u][j].parent = p /\ stack[u][j].f = c
  BY <1>2, <1>4 DEF ListCall
<1>6. t = u /\ i = j
  BY <1>5, TwoListCalls
<1> QED
  BY <1>5, <1>6

(* The lists that c0 is about to be added to or taken from do not have it,  *)
(* except the one that starts with it.                                      *)
LEMMA ListStillWithout ==
  ASSUME Inv, MultiLinksOK, NEW p, NEW h, Waits(p, h), NEW c, Reaches(link, h, c),
         NEW c0, NotNext(c0), Single(c0) /\ p = Parent(c0) => h # c0,
         NEW m, \A x \in Future : Single(x) /\ x # c0 => m[x] = link[x]
  PROVE  Reaches(m, h, c)
<1>1. ASSUME NEW x \in Future, Single(x), Reaches(link, h, x), x = c0
      PROVE  FALSE
  <2>1. h = c0
    BY <1>1, FirstOnly
  <2>2. p = Parent(c0)
    BY <2>1, <1>1, EdgeFacts DEF Waits
  <2> QED
    BY <2>1, <2>2, <1>1
<1> QED
  BY <1>1, ListStill

(* AddContinuation puts c in the list, or posts it when the parent is done. *)
LEMMA AddContinuationPlaces ==
  ASSUME ArgumentsAreNotShared, Inv, PlacesOK, NEW t \in Thread, AddContinuation(t)
  PROVE  PlacesOK'
<1>1. PICK r0 \in Calls :
        r0 = Head(stack[t]) /\ r0.op = "AddContinuation" /\ At(stack, r0) /\ CallOK(r0)
  BY TopCall DEF Inv, AddContinuation
<1>2. PICK p0, c0 : p0 = r0.parent /\ c0 = r0.f
  OBVIOUS
<1>3. stack[t] # <<>>
  BY TopCall DEF Inv, AddContinuation
<1>4. /\ Waits(p0, c0) /\ NotNext(c0) /\ head[p0] # c0
      /\ IsShared(p0) \/ Kind[c0] = "share" \/ head[p0] = Null
      /\ r0 = ListCall("AddContinuation", p0, c0)
  BY <1>1, <1>2, PostedList DEF CallOK, ListOps
<1>5. /\ <<p0, c0>> \in Edge /\ p0 \in Future /\ c0 \in Future /\ Kind[c0] # "promise" /\ c0 \in created
      /\ Single(c0) => state[c0] = "Pending" /\ p0 = Parent(c0)
  BY <1>4, EdgeFacts DEF Waits
<1>6. MayJoin(p0, c0)
  BY <1>4 DEF MayJoin
<1>7. /\ UNCHANGED <<state, delivered>> /\ UNCHANGED clients
      /\ \/ /\ IsDone(p0) /\ head' = [head EXCEPT ![p0] = Invoked] /\ link' = [link EXCEPT ![c0] = Null]
            /\ Continue(t, <<ListCall("PostContinuation", p0, c0)>>)
         \/ /\ ~IsDone(p0) /\ head' = [head EXCEPT ![p0] = c0] /\ link' = [link EXCEPT ![c0] = head[p0]]
            /\ Return(t)
  BY <1>1, <1>2, <1>6 DEF AddContinuation
<1>8. UNCHANGED created /\ \A x \in Future \ {c0} : link'[x] = link[x]
  BY <1>7 DEF Inv, Types, clients
<1>9. \A q \in Future \ {p0} : head'[q] = head[q]
  BY <1>7 DEF Inv, Types
<1>10. /\ \A r \in Calls : At(stack, r) /\ r # r0 => At(stack', r)
       /\ IsDone(p0) => At(stack', ListCall("PostContinuation", p0, c0))
  <2>1. CASE IsDone(p0)
    <3>1. PICK a : a = ListCall("PostContinuation", p0, c0)
      OBVIOUS
    <3>2. PICK calls : calls = <<a>>
      OBVIOUS
    <3>3. Continue(t, calls)
      BY <2>1, <3>1, <3>2, <1>7
    <3> QED
      BY <3>1, <3>2, <3>3, <1>1, <1>3, ContinueKeeps
  <2>2. CASE ~IsDone(p0)
    <3>1. Continue(t, <<>>)
      BY <2>2, <1>7 DEF Return
    <3> QED
      BY <2>2, <3>1, <1>1, <1>3, ContinueKeeps
  <2> QED
    BY <2>1, <2>2
<1>11. MultiLinksOK
  BY DEF PlacesOK
<1>12. MultiLinksOK'
  <2>1. ASSUME IsMultiPost(c0), ~IsDone(p0), head[p0] # Null
        PROVE  FALSE
    <3>1. PICK h \in Future : h = head[p0]
      BY <2>1, <1>5 DEF Inv, Types, HeadsOK
    <3>2. <<p0, h>> \in Edge
      BY <3>1, <1>5 DEF Inv, HeadsOK, Waits
    <3>3. h = c0
      BY <3>2, <2>1, <1>5, SoleContinuation
    <3> QED
      BY <3>1, <3>3, <1>4
  <2>2. IsMultiPost(c0) => link'[c0] = Null
    BY <2>1, <1>5, <1>7 DEF Inv, Types
  <2> QED
    BY <2>2, <1>8, <1>11 DEF MultiLinksOK
<1>13. ASSUME NEW p, NEW h, Waits(p, h), NEW c, Reaches(link, h, c), p = p0 => h # c0
       PROVE  Reaches(link', h, c)
  BY <1>4, <1>5, <1>8, <1>11, <1>13, ListStillWithout
<1>14. ASSUME NEW p \in Future, NEW c \in Future, <<p, c>> \in Edge, c \in created'
       PROVE  Placed(p, c)'
  <2>1. Placed(p, c)
    BY <1>8, <1>14 DEF PlacesOK
  <2>2. CASE p = p0 /\ c = c0
    <3>1. Reaches(link', c0, c0)
      BY <1>5, ReachesItself
    <3>2. CASE IsDone(p0)
      BY <3>1, <3>2, <2>2, <1>5, <1>10 DEF Placed
    <3>3. CASE ~IsDone(p0)
      <4>1. head'[p0] = c0 /\ ~IsDone(p0)'
        BY <3>3, <1>5, <1>7 DEF Inv, Types, IsDone
      <4> QED
        BY <4>1, <3>1, <2>2 DEF Placed
    <3> QED
      BY <3>2, <3>3
  <2>3. CASE At(stack, ListCall("AddContinuation", p, c)) /\ ~(p = p0 /\ c = c0)
    <3>1. ListCall("AddContinuation", p, c) # r0 /\ ListCall("AddContinuation", p, c) \in Calls
      BY <2>3, <1>2, ListCallIn DEF ListOps
    <3> QED
      BY <2>3, <3>1, <1>10 DEF Placed
  <2>4. CASE \E d \in Future : At(stack, ListCall("PostContinuation", p, d)) /\ Reaches(link, d, c)
    <3>1. PICK d \in Future : At(stack, ListCall("PostContinuation", p, d)) /\ Reaches(link, d, c)
      BY <2>4
    <3>2. Waits(p, d)
      BY <3>1, PostList DEF ListOps
    <3>3. p = p0 => d # c0
      BY <3>1, <1>1, <1>4, OneListCall DEF ListOps
    <3>4. Reaches(link', d, c)
      BY <3>1, <3>2, <3>3, <1>13
    <3>5. ListCall("PostContinuation", p, d) # r0 /\ ListCall("PostContinuation", p, d) \in Calls
      BY <1>1, ListCallIn DEF ListOps
    <3> QED
      BY <3>1, <3>4, <3>5, <1>10 DEF Placed
  <2>5. CASE delivered[<<p, c>>] = 1
    BY <2>5, <1>7 DEF Placed
  <2>6. CASE ~IsDone(p) /\ Reaches(link, head[p], c)
    <3>1. PICK h \in Future : h = head[p] /\ Waits(p, h) /\ Reaches(link, h, c)
      BY <2>6, HeadList
    <3>2. Reaches(link', h, c)
      BY <3>1, <1>4, <1>13
    <3>3. ~IsDone(p)'
      BY <2>6, <1>7 DEF IsDone
    <3>4. CASE p # p0
      <4>1. head'[p] = h
        BY <3>1, <3>4, <1>9
      <4> QED
        BY <4>1, <3>2, <3>3 DEF Placed
    <3>5. CASE p = p0
      <4>1. head'[p] = c0 /\ link'[c0] = h
        BY <3>1, <3>5, <2>6, <1>5, <1>7 DEF Inv, Types
      <4>2. Reaches(link', c0, c)
        BY <4>1, <3>2, <1>5, ReachesBehind
      <4> QED
        BY <4>1, <4>2, <3>3 DEF Placed
    <3> QED
      BY <3>4, <3>5
  <2> QED
    BY <2>1, <2>2, <2>3, <2>4, <2>5, <2>6 DEF Placed
<1> QED
  BY <1>7, <1>12, <1>14 DEF PlacesOK

(* MultiPost posts the last of a list.                                      *)
LEMMA MultiPostPlaces ==
  ASSUME Inv, PlacesOK, NEW t \in Thread, stack[t] # <<>>,
         NEW r0 \in Calls, r0 = Head(stack[t]), r0.op = "PostContinuation", CallOK(r0),
         NEW p0, NEW w, p0 = r0.parent, w = r0.f, IsMultiPost(w), MultiPost(t, p0, w),
         delivered' = [delivered EXCEPT ![<<p0, w>>] = delivered[<<p0, w>>] + 1]
  PROVE  PlacesOK'
<1>1. /\ <<p0, w>> \in Edge /\ w \in Future /\ delivered[<<p0, w>>] = 0
      /\ r0 = ListCall("PostContinuation", p0, w)
  BY PostedList DEF ListOps, Waits
<1>2. UNCHANGED <<state, head, link>> /\ UNCHANGED created
  BY DEF MultiPost, word, clients
<1>3. \E calls : (calls = <<>> \/ \E a : calls = <<a>>) /\ Continue(t, calls)
  <2>1. \/ Continue(t, <<Call("TryStartSetError", w, FALSE, TRUE)>>)
        \/ Continue(t, <<SetValue(w, FALSE, TRUE)>>)
        \/ Continue(t, <<SetValue(w, TRUE, TRUE)>>)
        \/ Continue(t, <<>>)
    BY DEF MultiPost
  <2> QED
    BY <2>1
<1>4. \A r \in Calls : At(stack, r) /\ r # r0 => At(stack', r)
  BY <1>3, ContinueKeeps
<1>5. /\ delivered'[<<p0, w>>] = 1 /\ \A e \in Edge : delivered'[e] \in {0, 1}
      /\ \A e \in Edge : delivered[e] = 1 => delivered'[e] = 1
  BY <1>1 DEF Inv, Types, PlacesOK
<1>6. MultiLinksOK /\ MultiLinksOK'
  BY <1>2 DEF PlacesOK, MultiLinksOK
<1>7. ASSUME NEW p \in Future, NEW c \in Future, <<p, c>> \in Edge, c \in created'
      PROVE  Placed(p, c)'
  <2>1. Placed(p, c)
    BY <1>2, <1>7 DEF PlacesOK
  <2>2. CASE At(stack, ListCall("AddContinuation", p, c))
    <3>1. ListCall("AddContinuation", p, c) # r0 /\ ListCall("AddContinuation", p, c) \in Calls
      BY ListCallIn DEF ListOps
    <3> QED
      BY <2>2, <3>1, <1>4 DEF Placed
  <2>3. CASE \E d \in Future : At(stack, ListCall("PostContinuation", p, d)) /\ Reaches(link, d, c)
    <3>1. PICK d \in Future : At(stack, ListCall("PostContinuation", p, d)) /\ Reaches(link, d, c)
      BY <2>3
    <3>2. CASE ListCall("PostContinuation", p, d) = r0
      <4>1. p = p0 /\ d = w
        BY <3>2, ListCallIn DEF ListOps
      <4>2. link[w] = Null
        BY <1>1, <1>6 DEF MultiLinksOK
      <4>3. c = w
        BY <4>1, <4>2, <3>1, ReachesTail, FutureAssumption
      <4> QED
        BY <4>1, <4>3, <1>5 DEF Placed
    <3>3. CASE ListCall("PostContinuation", p, d) # r0
      <4>1. ListCall("PostContinuation", p, d) \in Calls
        BY ListCallIn DEF ListOps
      <4> QED
        BY <4>1, <3>1, <3>3, <1>2, <1>4 DEF Placed
    <3> QED
      BY <3>2, <3>3
  <2>4. CASE delivered[<<p, c>>] = 1
    BY <2>4, <1>5, <1>7 DEF Placed
  <2>5. CASE ~IsDone(p) /\ Reaches(link, head[p], c)
    BY <2>5, <1>2 DEF Placed, IsDone
  <2> QED
    BY <2>1, <2>2, <2>3, <2>4, <2>5 DEF Placed
<1> QED
  BY <1>5, <1>6, <1>7 DEF PlacesOK

(* PostOne posts the first and goes on with the rest of the list.           *)
LEMMA PostOnePlaces ==
  ASSUME Inv, PlacesOK, NEW t \in Thread, stack[t] # <<>>,
         NEW r0 \in Calls, r0 = Head(stack[t]), r0.op = "PostContinuation", CallOK(r0),
         NEW p0, NEW c0, p0 = r0.parent, c0 = r0.f, ~IsMultiPost(c0), PostOne(t, p0, c0),
         delivered' = [delivered EXCEPT ![<<p0, c0>>] = delivered[<<p0, c0>>] + 1]
  PROVE  PlacesOK'
<1>1. /\ Waits(p0, c0) /\ NotNext(c0) /\ IsDone(p0) /\ <<p0, c0>> \in Edge /\ delivered[<<p0, c0>>] = 0
      /\ p0 \in Future /\ c0 \in Future /\ r0 = ListCall("PostContinuation", p0, c0)
  BY PostedList DEF ListOps, Waits
<1>2. Single(c0) /\ p0 = Parent(c0)
  BY <1>1, KindCases, EdgeFacts
<1>3. /\ UNCHANGED head /\ UNCHANGED created
      /\ \A x \in Future \ {c0} : state'[x] = state[x] /\ link'[x] = link[x]
      /\ state'[c0] = "Posting"
  BY <1>1 DEF PostOne, Inv, Types
<1>4. PICK i, s, n \in Calls, calls \in Seq(Calls) : Makes(t, p0, c0, i, s, n, calls)
  <2>1. Types
    BY DEF Inv
  <2> QED
    BY <2>1, <1>1, PostOneMakes
<1>5. /\ \A r \in Calls : At(stack, r) /\ r # r0 => At(stack', r)
      /\ \A k \in DOMAIN calls : At(stack', calls[k])
  <2>1. stack \in [Thread -> Seq(Calls)] /\ CallsCompatible(stack)
    BY DEF Inv, Types
  <2>2. stack' = Continued(stack, t, calls)
    BY <1>4 DEF Makes, Continue, Continued
  <2> QED
    BY <2>1, <2>2, AfterContinue
<1>6. link[c0] # Null => At(stack', ListCall("PostContinuation", p0, link[c0]))
  BY <1>4, <1>5 DEF Makes
<1>7. /\ delivered'[<<p0, c0>>] = 1 /\ \A e \in Edge : delivered'[e] \in {0, 1}
      /\ \A e \in Edge : delivered[e] = 1 => delivered'[e] = 1
  BY <1>1 DEF Inv, Types, PlacesOK
<1>8. MultiLinksOK /\ MultiLinksOK'
  BY <1>3 DEF PlacesOK, MultiLinksOK
<1>9. ASSUME NEW p \in Future, NEW c \in Future, <<p, c>> \in Edge, c \in created'
      PROVE  Placed(p, c)'
  <2>1. Placed(p, c)
    BY <1>3, <1>9 DEF PlacesOK
  <2>2. CASE At(stack, ListCall("AddContinuation", p, c))
    <3>1. ListCall("AddContinuation", p, c) # r0 /\ ListCall("AddContinuation", p, c) \in Calls
      BY ListCallIn DEF ListOps
    <3> QED
      BY <2>2, <3>1, <1>5 DEF Placed
  <2>3. CASE \E d \in Future : At(stack, ListCall("PostContinuation", p, d)) /\ Reaches(link, d, c)
    <3>1. PICK d \in Future : At(stack, ListCall("PostContinuation", p, d)) /\ Reaches(link, d, c)
      BY <2>3
    <3>2. CASE p = p0 /\ d = c0 /\ c = c0
      BY <3>2, <1>7 DEF Placed
    (* The rest of the list.                                                *)
    <3>3. CASE p = p0 /\ d = c0 /\ c # c0
      <4>1. PICK l \in Future : l = link[c0] /\ Reaches(link, l, c)
        BY <3>1, <3>3, ReachesTail
      <4>2. Waits(p0, l)
        <5>1. Reaches(link, c0, l)
          BY <4>1, <1>1, ReachesItself, ReachesNext
        <5> QED
          BY <5>1, <1>1, <1>8, ListWaits
      <4>3. ~Reaches(link, l, c0)
        <5>1. Reaches(link, c0, c0)
          BY <1>1, ReachesItself
        <5> QED
          BY <5>1, <4>1, <1>1, <1>8, ListsEnd
      <4>4. \A x \in Future : Reaches(link, l, x) => link'[x] = link[x]
        BY <4>3, <1>3
      <4>5. Reaches(link', l, c)
        BY <4>1, <4>2, <4>4, <1>8, ListStill
      <4>6. At(stack', ListCall("PostContinuation", p, l))
        BY <4>1, <3>3, <1>6, FutureAssumption
      <4> QED
        BY <4>5, <4>6 DEF Placed
    <3>4. CASE ~(p = p0 /\ d = c0)
      <4>1. Waits(p, d)
        BY <3>1, PostList DEF ListOps
      <4>2. Reaches(link', d, c)
        BY <4>1, <3>1, <3>4, <1>1, <1>2, <1>3, <1>8, ListStillWithout
      <4>3. ListCall("PostContinuation", p, d) # r0 /\ ListCall("PostContinuation", p, d) \in Calls
        BY <3>4, ListCallIn DEF ListOps
      <4> QED
        BY <4>2, <4>3, <3>1, <1>5 DEF Placed
    <3> QED
      BY <3>2, <3>3, <3>4
  <2>4. CASE delivered[<<p, c>>] = 1
    BY <2>4, <1>7, <1>9 DEF Placed
  <2>5. CASE ~IsDone(p) /\ Reaches(link, head[p], c)
    <3>1. PICK h \in Future : h = head[p] /\ Waits(p, h) /\ Reaches(link, h, c)
      BY <2>5, HeadList
    <3>2. p # p0
      BY <2>5, <1>1
    <3>3. Reaches(link', h, c)
      BY <3>1, <3>2, <1>1, <1>2, <1>3, <1>8, ListStillWithout
    <3>4. head'[p] = h /\ ~IsDone(p)'
      BY <2>5, <3>1, <1>3 DEF IsDone, Done
    <3> QED
      BY <3>3, <3>4 DEF Placed
  <2> QED
    BY <2>1, <2>2, <2>3, <2>4, <2>5 DEF Placed
<1> QED
  BY <1>7, <1>8, <1>9 DEF PlacesOK

(* PostContinuation: the two kinds of continuation.                         *)
LEMMA PostContinuationPlaces ==
  ASSUME Inv, PlacesOK, NEW t \in Thread, PostContinuation(t)
  PROVE  PlacesOK'
<1>1. PICK r0 \in Calls :
        r0 = Head(stack[t]) /\ r0.op = "PostContinuation" /\ At(stack, r0) /\ CallOK(r0)
  BY TopCall DEF Inv, PostContinuation
<1>2. PICK p, c : p = r0.parent /\ c = r0.f
  OBVIOUS
<1>3. stack[t] # <<>>
  BY TopCall DEF Inv, PostContinuation
<1>4. Waits(p, c) /\ c \in Future /\ Kind[c] # "promise"
  BY <1>1, <1>2, EdgeFacts DEF CallOK, ListOps, Waits
<1>5. IsMultiPost(c) \/ state[c] = "Pending"
  BY <1>4, KindCases DEF Waits
<1>6. /\ IF IsMultiPost(c) THEN MultiPost(t, p, c) ELSE PostOne(t, p, c)
      /\ delivered' = [delivered EXCEPT ![<<p, c>>] = delivered[<<p, c>>] + 1]
  BY <1>1, <1>2, <1>5 DEF PostContinuation
<1>7. CASE IsMultiPost(c)
  BY <1>1, <1>2, <1>3, <1>6, <1>7, MultiPostPlaces
<1>8. CASE ~IsMultiPost(c)
  BY <1>1, <1>2, <1>3, <1>6, <1>8, PostOnePlaces
<1> QED
  BY <1>7, <1>8

(* Every step keeps the places.                                             *)
LEMMA NextPlaces ==
  ASSUME ArgumentsAreNotShared, Inv, PlacesOK, Inv', [Next]_vars
  PROVE  PlacesOK'
<1>1. CASE UNCHANGED vars
  BY <1>1 DEF vars, word, data, clients, PlacesOK, MultiLinksOK, Placed, IsDone
<1>2. CASE Next
  <2>1. PICK t \in Thread :
          \/ Step(t)
          \/ \E f \in Future : \/ Create(t, f) \/ TryComplete(t, f) \/ Abandon(t, f)
                               \/ RunCallback(t, f) \/ CompleteAwaited(t, f)
    BY <1>2 DEF Next
  <2>2. CASE Step(t)
    BY <2>2, AddContinuationPlaces, PostContinuationPlaces, QuietPlaces, SetResultPlaces DEF Step
  <2>3. ASSUME NEW f \in Future, \/ Create(t, f) \/ TryComplete(t, f) \/ Abandon(t, f)
                                 \/ RunCallback(t, f) \/ CompleteAwaited(t, f)
        PROVE  PlacesOK'
    BY <2>3, CreatePlaces, CallerPlaces
  <2> QED
    BY <2>1, <2>2, <2>3
<1> QED
  BY <1>1, <1>2

(* A continuation is never lost and never run twice, however AddContinuation*)
(* races with the completion of its parent: from the call of                *)
(* AddContinuation on it is in exactly one place, still to be added, in its *)
(* parent's list, in a list a thread is posting, or posted.                 *)
THEOREM ContinuationsAreSomewhere ==
  ASSUME ~IsVoid, ArgumentsAreNotShared
  PROVE  Spec => []ContinuationIsSomewhere
<1>1. Init => PlacesOK
  BY DEF Init, PlacesOK, MultiLinksOK
<1>2. Inv /\ PlacesOK /\ Inv' /\ [Next]_vars => PlacesOK'
  BY NextPlaces
<1>3. Inv /\ PlacesOK => ContinuationIsSomewhere
  BY OnePlace
<1> QED
  BY <1>1, <1>2, <1>3, SpecInv, PTL DEF Spec

(* Only WhenAll counts its parents.                                         *)
OthersCountNothing ==
  crashed \in BOOLEAN /\ \A f \in Future : Kind[f] # "whenAll" => completed[f] = 0

(* Only WhenAll counts.                                                     *)
LEMMA NextCounts ==
  ASSUME Inv, OthersCountNothing, [Next]_vars
  PROVE  OthersCountNothing'
<1>1. CASE UNCHANGED completed /\ crashed' \in {TRUE, crashed}
  BY <1>1 DEF OthersCountNothing
<1>2. ASSUME NEW t \in Thread, NEW p, NEW w, MultiPost(t, p, w), UNCHANGED crashed
      PROVE  OthersCountNothing'
  <2>1. \A f \in Future : Kind[f] # "whenAll" => completed'[f] = completed[f]
    BY <1>2 DEF MultiPost, Inv, Types
  <2> QED
    BY <1>2, <2>1 DEF OthersCountNothing
<1>3. ASSUME NEW t \in Thread, Step(t)
      PROVE  \/ UNCHANGED completed /\ crashed' \in {TRUE, crashed}
             \/ UNCHANGED crashed /\ \E p, w : MultiPost(t, p, w)
  <2> USE DEF word, data, clients
  <2>1. ASSUME NEW b, Unexpected(t, b)
        PROVE  UNCHANGED completed /\ crashed' \in {TRUE, crashed}
    BY <2>1 DEF Unexpected, Crash
  <2>2. CASE AddContinuation(t)
    BY <2>2 DEF AddContinuation, Crash
  <2>3. CASE PostContinuation(t)
    BY <2>1, <2>3 DEF PostContinuation, PostOne
  <2>4. CASE TrySetPosted(t) \/ Invoke(t) \/ Task(t)
    BY <2>1, <2>4 DEF TrySetPosted, Invoke, Task, Crash
  <2>5. CASE TryStartSetValue(t) \/ TryStartSetError(t)
    BY <2>1, <2>5 DEF TryStartSetValue, TryStartSetError
  <2>6. CASE TrySetSuccess(t) \/ SetFailed(t)
    BY <2>1, <2>6 DEF TrySetSuccess, SetFailed, Crash
  <2> QED
    BY <1>3, <2>2, <2>3, <2>4, <2>5, <2>6 DEF Step
<1>4. CASE UNCHANGED vars
  BY <1>1, <1>4 DEF vars, data
<1>5. CASE Next
  <2>1. PICK t \in Thread :
          \/ Step(t)
          \/ \E f \in Future : \/ Create(t, f) \/ TryComplete(t, f) \/ Abandon(t, f)
                               \/ RunCallback(t, f) \/ CompleteAwaited(t, f)
    BY <1>5 DEF Next
  <2>2. (UNCHANGED completed /\ UNCHANGED crashed) \/ Step(t)
    BY <2>1 DEF Create, TryComplete, Abandon, RunCallback, CompleteAwaited, data
  <2> QED
    BY <2>2, <1>1, <1>2, <1>3
<1> QED
  BY <1>4, <1>5

(* The types of the futures' fields, for every set of futures; WhenAll      *)
(* never counts more completions than it has arguments.                     *)
THEOREM FutureTypeCorrect ==
  ASSUME ~IsVoid, ArgumentsAreNotShared
  PROVE  Spec => [](TypeOK /\ \A w \in Future : completed[w] <= Len(Parents[w]))
<1>1. Init => OthersCountNothing
  BY DEF Init, OthersCountNothing
<1>2. Inv /\ OthersCountNothing /\ [Next]_vars => OthersCountNothing'
  BY NextCounts
<1>3. ASSUME Inv, OthersCountNothing, NEW w \in Future
      PROVE  completed[w] \in 0 .. Cardinality(Future) /\ completed[w] <= Len(Parents[w])
  <2>1. Parents[w] \in Seq(Future) /\ \A i, j \in DOMAIN Parents[w] : Parents[w][i] = Parents[w][j] => i = j
    BY KindAssumption
  <2>2. DOMAIN Parents[w] = 1 .. Len(Parents[w]) /\ Len(Parents[w]) \in Nat
    BY <2>1
  <2>3. IsFiniteSet(DOMAIN Parents[w]) /\ Cardinality(DOMAIN Parents[w]) = Len(Parents[w])
    BY <2>2, FS_Interval
  <2>4. Parents[w] \in Injection(DOMAIN Parents[w], Future)
    BY <2>1, Fun_IsInj
  <2>5. Cardinality(DOMAIN Parents[w]) <= Cardinality(Future)
    BY <2>4, FS_Injection, FutureAssumption
  <2>6. Cardinality(Future) \in Nat
    BY FS_CardinalityType, FutureAssumption
  <2>7. CASE Kind[w] = "whenAll"
    <3>1. completed[w] = Cardinality(Counted(w)) /\ Counted(w) \subseteq DOMAIN Parents[w]
      BY <1>3, <2>7 DEF Inv, WhenAllOK, Counted
    <3>2. completed[w] <= Len(Parents[w]) /\ completed[w] \in Nat
      BY <1>3, <3>1, <2>3, FS_Subset DEF Inv, Types
    <3> QED
      BY <3>2, <2>2, <2>3, <2>5, <2>6
  <2>8. CASE Kind[w] # "whenAll"
    BY <1>3, <2>2, <2>6, <2>8 DEF OthersCountNothing
  <2> QED
    BY <2>7, <2>8
<1>4. Inv /\ OthersCountNothing => TypeOK /\ \A w \in Future : completed[w] <= Len(Parents[w])
  <2> SUFFICES ASSUME Inv, OthersCountNothing
               PROVE  TypeOK /\ \A w \in Future : completed[w] <= Len(Parents[w])
    OBVIOUS
  <2>1. \A w \in Future : completed[w] \in 0 .. Cardinality(Future) /\ completed[w] <= Len(Parents[w])
    BY <1>3
  <2>2. completed \in [Future -> 0 .. Cardinality(Future)]
    BY <2>1 DEF Inv, Types
  <2>3. TypeOK
    BY <2>2 DEF Inv, Types, TypeOK, OthersCountNothing
  <2> QED
    BY <2>1, <2>3
<1> QED
  BY <1>1, <1>2, <1>4, SpecInv, PTL DEF Spec
=============================================================================
