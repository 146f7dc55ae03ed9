-------------------------- MODULE TaManagerProofs --------------------------
(***************************************************************************)
(* Proofs about TaManager, for any finite sets of threads, sessions and    *)
(* contexts, any TAs with their flags and their call graph, and any number *)
(* of requests.                                                            *)
(*                                                                         *)
(* A call in progress is named by its place, a thread and a depth in its   *)
(* stack; fr[p] is the call at place p.  The invariant IInv says which     *)
(* operation may be where (Shapes), how calls nest (Nested), what every    *)
(* call has of its session (SessionInv) and of its context (LiveOK to      *)
(* LockCountOK), and that a thread sleeps only where the code sleeps       *)
(* (WaitOK); with these the reference counts and the instance rules are    *)
(* inductive.                                                              *)
(***************************************************************************)
EXTENDS TaManager, FiniteSetTheorems, SequenceTheorems, TLAPS

(***************************************************************************)
(* The calls in progress as a function of their places                     *)
(***************************************************************************)
fr == [p \in Places |-> Call(p)]

TopAt(t) == <<t, Len(stack[t])>>
Under(p) == <<p[1], p[2] - 1>>

\* What a call is to its session and to its context.
Opening(f) == f.op = "open" /\ f.pc # "init"
Closer(f) == f.op = "close" /\ f.pc \notin {"clear", "unref", "destroy"}
Holder(f) == f.op \in {"invoke", "close"} /\ UsesSession(f) /\ f.pc # "lock"
Asks(f) == f.op \in {"invoke", "cancel"} /\ f.pc = "get"
Dying(f) == f.pc = "destroy" \/ f.op = "destroy"

\* Which operation is where, and what it has by then.
Shape(f) ==
    /\ f.op = "open" =>
         /\ f.pc \in {"init", "find", "load", "fail", "busy", "enter", "run", "rel", "clear", "put"}
         /\ f.u # None
         /\ f.s = None <=> f.pc = "init"
         /\ f.c = None <=> f.pc \in {"init", "find", "fail"}
    /\ f.op = "invoke" =>
         /\ f.pc \in {"get", "lock", "copy", "busy", "enter", "run", "rel", "clear", "put"}
         /\ f.s # None
         /\ f.c = None <=> f.pc \in {"get", "lock"}
    /\ f.op = "cancel" => f.pc \in {"get", "put"} /\ f.s # None /\ f.c = None
    /\ f.op = "close" =>
         /\ f.pc \in {"get", "lock", "closing", "busy", "enter", "run", "unlink", "drain", "clear",
                      "unref", "destroy"}
         /\ f.s # None
         /\ f.c = None => f.pc \in {"get", "lock"}
    /\ f.op \in {"release", "destroy"} =>
         f.pc = "loop" /\ f.s = None /\ f.list = f.c /\ f.c # None
    /\ f.list # None

Shapes == \A p \in Places : Shape(fr[p])

\* Call f is made in, or on behalf of, the TA that call g is in.
Over(f, g) ==
    \/ g.pc = "run" /\ f.op \notin {"release", "destroy"} /\ f.list = g.c
    \/ g.pc = "run" /\ f.op = "destroy"
    \/ g.pc = "loop" /\ f.op = "close" /\ f.list = g.c
    \/ g.pc = "loop" /\ f.op = "destroy"
    \/ g.pc = "clear" /\ g.op # "close" /\ f.op = "release" /\ f.list = g.c

Nested ==
    \A p \in Places :
        /\ fr[p].list = Nsec => p[2] = 1
        /\ p[2] = 1 => fr[p].list = Nsec \/ fr[p].op = "destroy"
        /\ p[2] > 1 => Over(fr[p], fr[Under(p)])
        /\ fr[p].list \in Ctxs /\ fr[p].op # "destroy" => uuid[fr[p].list] \notin Pseudo

\* The sessions.
SessionOK ==
    \A p \in Places :
        LET f == fr[p] IN
        /\ UsesSession(f) \/ Closer(f) =>
             owner[f.s] = f.list /\ (f.c # None => ts_ctx[f.s] = f.c)
        /\ f.pc \in {"find", "fail"} => ts_ctx[f.s] = None

UniqueOK ==
    \A p, q \in Places : p # q /\ fr[p].s = fr[q].s =>
        /\ Opening(fr[p]) => ~UsesSession(fr[q]) /\ ~Closer(fr[q]) /\ ~Asks(fr[q])
        /\ Closer(fr[p]) => ~Closer(fr[q])
        /\ Holder(fr[p]) => ~Holder(fr[q])

KnownOK ==
    \A s \in known :
        /\ owner[s] # None
        /\ \A p \in Places : fr[p].s = s => ~Opening(fr[p]) /\ ~Closer(fr[p])

UnlinkOK == \A s \in unlink : \E p \in Places : fr[p].s = s /\ Closer(fr[p]) /\ fr[p].pc = "drain"

OpenOK ==
    \A s \in Sessions :
        /\ owner[s] = None => ts_ctx[s] = None /\ lock_thread[s] = None /\ s \notin unlink
        /\ owner[s] # None /\ ts_ctx[s] = None =>
             \E p \in Places : fr[p].s = s /\ Opening(fr[p])
        /\ owner[s] = Nsec /\ s \notin known =>
             \E p \in Places : fr[p].s = s /\ (Opening(fr[p]) \/ Closer(fr[p]))

LockOK ==
    /\ \A p \in Places : Holder(fr[p]) => lock_thread[fr[p].s] = p[1]
    /\ \A s \in Sessions : lock_thread[s] # None =>
         \E p \in Places : p[1] = lock_thread[s] /\ fr[p].s = s /\ Holder(fr[p])

SessionInv == SessionOK /\ UniqueOK /\ KnownOK /\ UnlinkOK /\ OpenOK /\ LockOK

\* The contexts.
LiveOK ==
    /\ \A p \in Places : /\ fr[p].c # None => fr[p].c \in live
                         /\ fr[p].list \in live \cup {Nsec}
    /\ \A s \in Sessions : owner[s] \in live \cup {Nsec, None} /\ ts_ctx[s] \in live \cup {None}
    /\ \A s \in Sessions : owner[s] \in Ctxs => uuid[owner[s]] \notin Pseudo
    /\ \A c \in live : uuid[c] \in Uuids
    /\ \A c \in Ctxs \ live :
         /\ c \notin busy \cup is_initializing \cup is_releasing \cup panicked \cup released
         /\ ref_count[c] = 0

ListOK ==
    /\ \A i, j \in DOMAIN tee_ctxes : tee_ctxes[i] = tee_ctxes[j] => i = j
    /\ Range(tee_ctxes) = live \ is_releasing

InitOK ==
    /\ \A c \in is_initializing : \E p \in Places : fr[p].c = c /\ fr[p].pc = "load"
    /\ \A p \in Places : fr[p].pc = "load" =>
         LET c == fr[p].c IN
         /\ c \in is_initializing
         /\ c \notin busy \cup is_releasing \cup panicked \cup released
         /\ \A q \in Places \ {p} : fr[q].c # c
         /\ \A s \in Sessions : owner[s] # c /\ (ts_ctx[s] = c => s = fr[p].s)

DyingOK ==
    /\ \A p \in Places : Dying(fr[p]) =>
         /\ ref_count[fr[p].c] = 0 /\ fr[p].c \in is_releasing
         /\ \A q \in Places \ {p} : Dying(fr[q]) => fr[q].c # fr[p].c
    /\ \A c \in is_releasing \ panicked : \E p \in Places : fr[p].c = c /\ Dying(fr[p])
    /\ \A c \in live : ref_count[c] = 0 =>
         \/ \E p \in Places : fr[p].c = c /\ Dying(fr[p])
         \/ HasFlag(c, "keep") /\ Single(c) /\ c \notin panicked

PanicOK ==
    /\ \A c \in panicked : uuid[c] \notin Pseudo
    /\ \A c \in released : c \in panicked
    /\ \A p \in Places : /\ fr[p].pc = "rel" => fr[p].c \in panicked
                         /\ fr[p].op = "release" => fr[p].c \in panicked \cap is_releasing
                         /\ fr[p].pc = "run" => fr[p].c \notin released

\* One call is inside a TA that is not concurrent.
InsideOK ==
    /\ \A c \in live : Concurrent(c) => c \notin busy
    /\ \A c \in live : ~Concurrent(c) =>
         /\ \A p, q \in Places : Inside(fr[p], c) /\ Inside(fr[q], c) => p = q
         /\ c \in busy <=> \E p \in Places : Inside(fr[p], c)

Insiders == {p \in Places : \E c \in live : Single(c) /\ ~Concurrent(c) /\ Inside(fr[p], c)}

LockCountOK ==
    /\ si_count = Cardinality(Insiders)
    /\ \A p \in Insiders : p[1] = si_thread
    /\ si_count = 0 <=> si_thread = None

WaitOK ==
    \A t \in Threads : waiting[t] # None =>
        /\ stack[t] # <<>>
        /\ LET f == fr[TopAt(t)] IN
           \/ waiting[t] = InitCv /\ f.pc = "find"
           \/ waiting[t] = SingleCv /\ f.pc = "busy"
           \/ waiting[t] = BusyCv(f.c) /\ f.pc = "busy"
           \/ waiting[t] = LockCv(f.s) /\ f.pc = "lock"
           \/ waiting[t] = RefcCv(f.s) /\ f.pc = "drain"

IInv ==
    /\ TypeOK /\ Shapes /\ Nested /\ IsFiniteSet(Places)
    /\ SessionInv
    /\ LiveOK /\ ListOK /\ InitOK /\ DyingOK /\ PanicOK /\ InsideOK /\ LockCountOK
    /\ WaitOK /\ RefCountsExact /\ InstanceRules

-----------------------------------------------------------------------------
(* Stacks and places                                                       *)

LEMMA FrFacts ==
    ASSUME TypeOK
    PROVE  /\ DOMAIN fr = Places
           /\ \A p \in Places : /\ fr[p] \in Frame /\ fr[p] = stack[p[1]][p[2]]
                                /\ p[1] \in Threads /\ p[2] \in Nat /\ p[2] > 0
                                /\ p[2] <= Len(stack[p[1]]) /\ p = <<p[1], p[2]>>
           /\ \A t \in Threads : \A i \in 1 .. Len(stack[t]) : <<t, i>> \in Places
           /\ \A t \in Threads : stack[t] \in Seq(Frame) /\ Len(stack[t]) \in Nat
<1>1. \A t \in Threads : stack[t] \in Seq(Frame) /\ Len(stack[t]) \in Nat
  BY DEF TypeOK
<1>2. ASSUME NEW p \in Places
      PROVE  /\ p[1] \in Threads /\ p[2] \in 1 .. Len(stack[p[1]]) /\ p = <<p[1], p[2]>>
  BY DEF Places
<1>3. \A t \in Threads : \A i \in 1 .. Len(stack[t]) : <<t, i>> \in Places
  BY DEF Places
<1>4. ASSUME NEW p \in Places
      PROVE  fr[p] = stack[p[1]][p[2]] /\ fr[p] \in Frame
  <2>1. fr[p] = stack[p[1]][p[2]]
    BY DEF fr, Call
  <2>2. stack[p[1]] \in Seq(Frame) /\ p[2] \in 1 .. Len(stack[p[1]])
    BY <1>1, <1>2
  <2> QED
    BY <2>1, <2>2, ElementOfSeq
<1> QED
  BY <1>1, <1>2, <1>3, <1>4 DEF fr

LEMMA TopFacts ==
    ASSUME TypeOK, NEW t \in Threads, stack[t] # <<>>
    PROVE  /\ TopAt(t) \in Places /\ fr[TopAt(t)] = Top(t) /\ Top(t) \in Frame
           /\ TopAt(t)[1] = t /\ TopAt(t)[2] = Len(stack[t])
           /\ \A p \in Places : Under(p) # TopAt(t)
<1>1. Len(stack[t]) \in Nat /\ Len(stack[t]) > 0
  BY FrFacts, EmptySeq
<1>2. TopAt(t) \in Places
  BY <1>1, FrFacts DEF TopAt
<1>3. fr[TopAt(t)] = Top(t)
  BY <1>2, FrFacts DEF TopAt, Top, Last
<1>4. \A p \in Places : Under(p) # TopAt(t)
  BY <1>1, FrFacts DEF TopAt, Under
<1> QED
  BY <1>2, <1>3, <1>4, FrFacts DEF TopAt

LEMMA UnderFacts ==
    ASSUME TypeOK
    PROVE  /\ \A p \in Places : p[2] > 1 => Under(p) \in Places /\ Under(p)[1] = p[1]
           /\ \A p, q \in Places : p # q => Under(p) # Under(q)
<1>1. ASSUME NEW p \in Places, p[2] > 1
      PROVE  Under(p) \in Places /\ Under(p)[1] = p[1]
  <2>1. p[1] \in Threads /\ p[2] - 1 \in 1 .. Len(stack[p[1]])
    BY <1>1, FrFacts
  <2> QED
    BY <2>1, FrFacts DEF Under
<1>2. ASSUME NEW p \in Places, NEW q \in Places, Under(p) = Under(q)
      PROVE  p = q
  BY <1>2, FrFacts DEF Under
<1> QED
  BY <1>1, <1>2

\* What the steps do to the calls: nothing, one call goes on, returns or makes a call.
Same == Places' = Places /\ fr' = fr /\ stack' = stack

Others(t) == \A u \in Threads \ {t} : stack'[u] = stack[u] /\ TopAt(u)' = TopAt(u)

Replaced(t, g) ==
    /\ Places' = Places /\ Others(t) /\ TopAt(t)' = TopAt(t) /\ stack'[t] # <<>>
    /\ fr'[TopAt(t)] = g
    /\ \A p \in Places \ {TopAt(t)} : fr'[p] = fr[p]

Returned(t) ==
    /\ Places' = Places \ {TopAt(t)} /\ Others(t)
    /\ \A p \in Places \ {TopAt(t)} : fr'[p] = fr[p]

\* The place of a new call.
NewAt(t) == <<t, Len(stack[t]) + 1>>

Pushed(t, g) ==
    /\ Places' = Places \cup {NewAt(t)} /\ NewAt(t) \notin Places /\ Others(t)
    /\ TopAt(t)' = NewAt(t) /\ stack'[t] # <<>> /\ Under(NewAt(t)) = TopAt(t)
    /\ fr'[NewAt(t)] = g
    /\ \A p \in Places : fr'[p] = fr[p]

LEMMA FrNext ==
    ASSUME stack' \in [Threads -> Seq(Frame)]
    PROVE  /\ \A p : p \in Places' <=> \E t \in Threads : \E i \in 1 .. Len(stack'[t]) : p = <<t, i>>
           /\ \A t \in Threads : \A i \in 1 .. Len(stack'[t]) :
                <<t, i>> \in Places' /\ fr'[<<t, i>>] = stack'[t][i]
<1>1. \A p : p \in Places' <=> \E t \in Threads : \E i \in 1 .. Len(stack'[t]) : p = <<t, i>>
  BY DEF Places
<1>2. \A p \in Places' : fr'[p] = stack'[p[1]][p[2]]
  BY DEF fr, Call
<1> QED
  BY <1>1, <1>2

LEMMA FrontFacts ==
    ASSUME NEW s \in Seq(Frame), s # <<>>
    PROVE  /\ Front(s) \in Seq(Frame) /\ Len(Front(s)) = Len(s) - 1
           /\ \A i \in 1 .. Len(s) - 1 : Front(s)[i] = s[i]
<1>1. Len(s) \in Nat /\ Len(s) > 0
  BY EmptySeq, LenProperties
<1>2. \A i \in 1 .. Len(s) - 1 : s[i] \in Frame
  BY <1>1, ElementOfSeq
<1>3. PICK m \in Int : m = Len(s) - 1
  BY <1>1
<1>4. \A i \in 1 .. m : s[i] \in Frame
  BY <1>2, <1>3
<1>5. /\ SubSeq(s, 1, m) \in Seq(Frame)
      /\ Len(SubSeq(s, 1, m)) = IF 1 <= m THEN m - 1 + 1 ELSE 0
      /\ \A i \in 1 .. m - 1 + 1 : SubSeq(s, 1, m)[i] = s[1 + i - 1]
  BY <1>4, SubSeqProperties
<1> QED
  BY <1>1, <1>3, <1>5 DEF Front

LEMMA SameStep ==
    ASSUME stack' = stack
    PROVE  Same
BY DEF Same, fr, Places, Call

LEMMA ReplaceStep ==
    ASSUME TypeOK, NEW t \in Threads, stack[t] # <<>>, NEW g \in Frame, Replace(t, g)
    PROVE  stack' \in [Threads -> Seq(Frame)] /\ Replaced(t, g)
<1> DEFINE n == Len(stack[t])
           w == Append(Front(stack[t]), g)
<1>1. stack \in [Threads -> Seq(Frame)] /\ stack[t] \in Seq(Frame) /\ n \in Nat /\ n > 0
  BY FrFacts, EmptySeq DEF TypeOK
<1>2. /\ w \in Seq(Frame) /\ Len(w) = n /\ w[n] = g
      /\ \A i \in 1 .. n - 1 : w[i] = stack[t][i]
  <2>1. PICK v \in Seq(Frame) : v = Front(stack[t])
    BY <1>1, FrontFacts
  <2>2. Len(v) = n - 1 /\ \A i \in 1 .. n - 1 : v[i] = stack[t][i]
    BY <1>1, <2>1, FrontFacts
  <2>3. /\ Append(v, g) \in Seq(Frame) /\ Len(Append(v, g)) = Len(v) + 1
        /\ Append(v, g)[Len(v) + 1] = g
        /\ \A i \in 1 .. Len(v) : Append(v, g)[i] = v[i]
    BY AppendProperties
  <2> HIDE DEF n
  <2> QED
    BY <1>1, <2>1, <2>2, <2>3
<1> HIDE DEF n, w
<1>3. stack' = [stack EXCEPT ![t] = w]
  BY DEF Replace, w
<1>4. stack' \in [Threads -> Seq(Frame)] /\ stack'[t] = w /\ Others(t)
  BY <1>1, <1>2, <1>3 DEF Others, TopAt
<1>5. \A u \in Threads : Len(stack'[u]) = Len(stack[u])
  BY <1>2, <1>4 DEF Others, n
<1>6. Places' = Places
  BY <1>5 DEF Places
<1>7. TopAt(t)' = TopAt(t) /\ TopAt(t) = <<t, n>> /\ stack'[t] # <<>>
  BY <1>1, <1>2, <1>4, <1>5, EmptySeq DEF TopAt, n
<1>8. fr'[TopAt(t)] = g
  BY <1>1, <1>2, <1>4, <1>7, FrNext
<1>9. ASSUME NEW p \in Places \ {TopAt(t)}
      PROVE  fr'[p] = fr[p]
  <2>1. p[1] \in Threads /\ p[2] \in 1 .. Len(stack[p[1]]) /\ p = <<p[1], p[2]>>
        /\ fr[p] = stack[p[1]][p[2]]
    BY FrFacts
  <2>2. fr'[p] = stack'[p[1]][p[2]]
    BY <1>4, <1>5, <2>1, FrNext
  <2>3. p[1] = t => p[2] \in 1 .. n - 1
    BY <2>1, <1>1, <1>7 DEF n
  <2> QED
    BY <1>2, <1>4, <2>1, <2>2, <2>3 DEF Others
<1> QED
  BY <1>4, <1>6, <1>7, <1>8, <1>9 DEF Replaced

LEMMA ReturnStep ==
    ASSUME TypeOK, NEW t \in Threads, stack[t] # <<>>, Return(t)
    PROVE  stack' \in [Threads -> Seq(Frame)] /\ Returned(t)
<1> DEFINE n == Len(stack[t])
           w == Front(stack[t])
<1>1. stack \in [Threads -> Seq(Frame)] /\ stack[t] \in Seq(Frame) /\ n \in Nat /\ n > 0
  BY FrFacts, EmptySeq DEF TypeOK
<1>2. /\ w \in Seq(Frame) /\ Len(w) = n - 1
      /\ \A i \in 1 .. n - 1 : w[i] = stack[t][i]
  BY <1>1, FrontFacts
<1> HIDE DEF n, w
<1>3. stack' = [stack EXCEPT ![t] = w]
  BY DEF Return, w
<1>4. stack' \in [Threads -> Seq(Frame)] /\ stack'[t] = w /\ Others(t)
  BY <1>1, <1>2, <1>3 DEF Others, TopAt
<1>5. \A u \in Threads \ {t} : Len(stack'[u]) = Len(stack[u])
  BY <1>2, <1>4 DEF Others, n
<1>6. TopAt(t) = <<t, n>>
  BY DEF TopAt, n
<1>7. ASSUME NEW p
      PROVE  p \in Places' <=> p \in Places \ {TopAt(t)}
  <2>1. ASSUME p \in Places' PROVE p \in Places \ {TopAt(t)}
    <3>1. PICK u \in Threads : \E i \in 1 .. Len(stack'[u]) : p = <<u, i>>
      BY <1>4, <2>1, FrNext
    <3>2. PICK i \in 1 .. Len(stack'[u]) : p = <<u, i>>
      BY <3>1
    <3>3. i \in 1 .. Len(stack[u]) /\ ~(u = t /\ i = n)
      BY <1>1, <1>2, <1>4, <1>5 DEF n
    <3> QED
      BY <1>6, <3>2, <3>3, FrFacts
  <2>2. ASSUME p \in Places \ {TopAt(t)} PROVE p \in Places'
    <3>1. p[1] \in Threads /\ p[2] \in 1 .. Len(stack[p[1]]) /\ p = <<p[1], p[2]>>
      BY <2>2, FrFacts
    <3>2. p[2] \in 1 .. Len(stack'[p[1]])
      BY <1>1, <1>2, <1>4, <1>5, <1>6, <2>2, <3>1 DEF n
    <3> QED
      BY <1>4, <3>1, <3>2, FrNext
  <2> QED
    BY <2>1, <2>2
<1>8. ASSUME NEW p \in Places \ {TopAt(t)}
      PROVE  fr'[p] = fr[p]
  <2>1. p[1] \in Threads /\ p[2] \in 1 .. Len(stack[p[1]]) /\ p = <<p[1], p[2]>>
        /\ fr[p] = stack[p[1]][p[2]]
    BY FrFacts
  <2>2. p[2] \in 1 .. Len(stack'[p[1]])
    BY <1>1, <1>2, <1>4, <1>5, <1>6, <2>1 DEF n
  <2>3. fr'[p] = stack'[p[1]][p[2]]
    BY <1>4, <2>1, <2>2, FrNext
  <2> QED
    BY <1>2, <1>4, <2>1, <2>2, <2>3 DEF Others
<1> QED
  BY <1>4, <1>7, <1>8 DEF Returned

LEMMA PushStep ==
    ASSUME TypeOK, NEW t \in Threads, NEW g \in Frame, Push(t, g)
    PROVE  stack' \in [Threads -> Seq(Frame)] /\ Pushed(t, g)
<1> DEFINE n == Len(stack[t])
           w == Append(stack[t], g)
<1>1. stack \in [Threads -> Seq(Frame)] /\ stack[t] \in Seq(Frame) /\ n \in Nat
  BY FrFacts DEF TypeOK
<1>2. /\ w \in Seq(Frame) /\ Len(w) = n + 1 /\ w[n + 1] = g /\ w # <<>>
      /\ \A i \in 1 .. n : w[i] = stack[t][i]
  BY <1>1, AppendProperties
<1> HIDE DEF n, w
<1>3. stack' = [stack EXCEPT ![t] = w]
  BY DEF Push, w
<1>4. stack' \in [Threads -> Seq(Frame)] /\ stack'[t] = w /\ Others(t)
  BY <1>1, <1>2, <1>3 DEF Others, TopAt
<1>5. \A u \in Threads \ {t} : Len(stack'[u]) = Len(stack[u])
  BY <1>2, <1>4 DEF Others, n
<1>6. NewAt(t) = <<t, n + 1>> /\ TopAt(t)' = NewAt(t)
  BY <1>2, <1>4 DEF TopAt, NewAt, n
<1>7. ASSUME NEW p
      PROVE  p \in Places' <=> p \in Places \cup {NewAt(t)}
  <2>1. ASSUME p \in Places' PROVE p \in Places \cup {NewAt(t)}
    <3>1. PICK u \in Threads : \E i \in 1 .. Len(stack'[u]) : p = <<u, i>>
      BY <1>4, <2>1, FrNext
    <3>2. PICK i \in 1 .. Len(stack'[u]) : p = <<u, i>>
      BY <3>1
    <3>3. i \in 1 .. Len(stack[u]) \/ (u = t /\ i = n + 1)
      BY <1>1, <1>2, <1>4, <1>5 DEF n
    <3> QED
      BY <1>6, <3>2, <3>3, FrFacts
  <2>2. ASSUME p \in Places PROVE p \in Places'
    <3>1. p[1] \in Threads /\ p[2] \in 1 .. Len(stack[p[1]]) /\ p = <<p[1], p[2]>>
      BY <2>2, FrFacts
    <3>2. p[2] \in 1 .. Len(stack'[p[1]])
      BY <1>1, <1>2, <1>4, <1>5, <3>1 DEF n
    <3> QED
      BY <1>4, <3>1, <3>2, FrNext
  <2>3. NewAt(t) \in Places'
    BY <1>1, <1>2, <1>4, <1>6, FrNext
  <2> QED
    BY <2>1, <2>2, <2>3
<1>8. ASSUME NEW p \in Places
      PROVE  fr'[p] = fr[p]
  <2>1. p[1] \in Threads /\ p[2] \in 1 .. Len(stack[p[1]]) /\ p = <<p[1], p[2]>>
        /\ fr[p] = stack[p[1]][p[2]]
    BY FrFacts
  <2>2. p[2] \in 1 .. Len(stack'[p[1]])
    BY <1>1, <1>2, <1>4, <1>5, <2>1 DEF n
  <2>3. fr'[p] = stack'[p[1]][p[2]]
    BY <1>4, <2>1, <2>2, FrNext
  <2> QED
    BY <1>2, <1>4, <2>1, <2>2, <2>3 DEF Others, n
<1>9. /\ NewAt(t) \notin Places /\ Under(NewAt(t)) = TopAt(t)
      /\ fr'[NewAt(t)] = g
  <2>1. NewAt(t) \notin Places
    BY <1>1, <1>6, FrFacts DEF n
  <2>2. Under(NewAt(t)) = TopAt(t)
    BY <1>1, <1>6 DEF Under, TopAt, n
  <2>3. fr'[NewAt(t)] = g
    BY <1>1, <1>2, <1>4, <1>6, FrNext
  <2> QED
    BY <2>1, <2>2, <2>3
<1> QED
  BY <1>2, <1>4, <1>6, <1>7, <1>8, <1>9 DEF Pushed

-----------------------------------------------------------------------------
(* What a step does to the sessions, place by place                        *)

Moved(z, g) ==
    /\ z \in Places /\ Places' = Places
    /\ fr'[z] = g /\ \A p \in Places \ {z} : fr'[p] = fr[p]

Gone(z) ==
    /\ z \in Places /\ Places' = Places \ {z}
    /\ \A p \in Places \ {z} : fr'[p] = fr[p]

Came(y, g) ==
    /\ y \notin Places /\ Places' = Places \cup {y}
    /\ fr'[y] = g /\ \A p \in Places : fr'[p] = fr[p]

\* A call that has nothing to do with a session.
NoRole(f) == ~UsesSession(f) /\ ~Opening(f) /\ ~Closer(f) /\ ~Asks(f)

\* Two calls that are the same to their session.
SameRole(f, g) ==
    /\ g.s = f.s /\ g.c = f.c /\ g.list = f.list
    /\ UsesSession(g) <=> UsesSession(f)
    /\ Opening(g) <=> Opening(f)
    /\ Closer(g) <=> Closer(f)
    /\ Holder(g) <=> Holder(f)
    /\ Asks(g) <=> Asks(f)
    /\ g.pc \in {"find", "fail"} <=> f.pc \in {"find", "fail"}
    /\ g.pc = "drain" <=> f.pc = "drain"

SessionTypes ==
    /\ owner \in [Sessions -> Ctxs \cup {Nsec, None}]
    /\ ts_ctx \in [Sessions -> Ctxs \cup {None}]
    /\ lock_thread \in [Sessions -> Threads \cup {None}]
    /\ unlink \subseteq Sessions /\ known \subseteq Sessions

\* The types of the contexts, and of everything else.
CtxTypes ==
    /\ tee_ctxes \in Seq(Ctxs)
    /\ live \subseteq Ctxs /\ is_initializing \subseteq Ctxs /\ is_releasing \subseteq Ctxs
    /\ panicked \subseteq Ctxs /\ released \subseteq Ctxs /\ busy \subseteq Ctxs
    /\ uuid \in [Ctxs -> Uuids \cup {None}]
    /\ ref_count \in [Ctxs -> Nat]

CallTypes ==
    /\ refs \in [Sessions -> Nat]
    /\ si_thread \in Threads \cup {None}
    /\ si_count \in Nat
    /\ waiting \in [Threads -> Cvs \cup {None}]
    /\ stack \in [Threads -> Seq(Frame)]
    /\ calls \in 0 .. MaxCalls
    /\ core_panic \in BOOLEAN

LEMMA TypeParts ==
    TypeOK <=> CtxTypes /\ SessionTypes /\ CallTypes
BY DEF TypeOK, CtxTypes, SessionTypes, CallTypes

LEMMA TypePartsNext ==
    CtxTypes' /\ SessionTypes' /\ CallTypes' => TypeOK'
BY DEF TypeOK, CtxTypes, SessionTypes, CallTypes

SessionsKept == UNCHANGED <<owner, ts_ctx, lock_thread, unlink, known>>

LEMMA RolesApart ==
    ASSUME NEW f
    PROVE  /\ Holder(f) => UsesSession(f)
           /\ Opening(f) => ~Closer(f) /\ ~Asks(f) /\ ~Holder(f)
           /\ Closer(f) => ~Asks(f)
           /\ Asks(f) => ~UsesSession(f)
           /\ NoRole(f) => ~Holder(f)
BY DEF Holder, Opening, Closer, Asks, UsesSession, NoRole

LEMMA MovedSame ==
    ASSUME SessionInv, NEW z, NEW g, Moved(z, g), SameRole(fr[z], g), SessionsKept
    PROVE  SessionInv'
<1> USE DEF SessionInv, Moved, SameRole, SessionsKept
<1>1. SessionOK'
  BY DEF SessionOK
<1>2. UniqueOK'
  BY DEF UniqueOK
<1>3. KnownOK'
  BY DEF KnownOK
<1>4. UnlinkOK'
  BY DEF UnlinkOK
<1>5. OpenOK'
  BY DEF OpenOK
<1>6. LockOK'
  BY DEF LockOK
<1> QED
  BY <1>1, <1>2, <1>3, <1>4, <1>5, <1>6

-----------------------------------------------------------------------------
(* Shapes and nesting                                                      *)

LEMMA ShapesMove ==
    ASSUME Shapes, NEW z, NEW g, Moved(z, g), Shape(g)
    PROVE  Shapes'
BY DEF Shapes, Shape, Moved

LEMMA ShapesGone ==
    ASSUME Shapes, NEW z, Gone(z)
    PROVE  Shapes'
BY DEF Shapes, Shape, Gone

LEMMA ShapesCame ==
    ASSUME Shapes, NEW y, NEW g, Came(y, g), Shape(g)
    PROVE  Shapes'
BY DEF Shapes, Shape, Came

\* A context keeps its TA as long as it lives.
UuidKept == \A d \in live : uuid'[d] \in {uuid[d], None}

\* The part of Nested about one call.
Nest(p) ==
    /\ fr[p].list = Nsec => p[2] = 1
    /\ p[2] = 1 => fr[p].list = Nsec \/ fr[p].op = "destroy"
    /\ p[2] > 1 => Over(fr[p], fr[Under(p)])
    /\ fr[p].list \in Ctxs /\ fr[p].op # "destroy" => uuid[fr[p].list] \notin Pseudo

LEMMA NestKept ==
    ASSUME LiveOK, Nested, UuidKept, NEW p \in Places, fr'[p] = fr[p],
           p[2] > 1 => fr'[Under(p)] = fr[Under(p)]
    PROVE  Nest(p)'
<1>1. Nest(p)
  BY DEF Nested, Nest
<1>2. fr[p].list \in Ctxs => fr[p].list \in live
  BY NsecOK DEF LiveOK
<1>3. fr[p].list \in Ctxs /\ fr[p].op # "destroy" => uuid'[fr[p].list] \notin Pseudo
  BY <1>1, <1>2, NoneOK, PseudoOK DEF Nest, UuidKept
<1> QED
  BY <1>1, <1>3 DEF Nest, Over, Under

LEMMA NestedMove ==
    ASSUME TypeOK, LiveOK, Nested, UuidKept, NEW t \in Threads, stack[t] # <<>>,
           NEW g, Moved(TopAt(t), g), g.list = Top(t).list,
           g.op = Top(t).op \/ (g.op = "close" /\ Top(t).op = "open")
    PROVE  Nested'
<1>z. PICK z : z = TopAt(t)
  OBVIOUS
<1>1. z \in Places /\ fr[z] = Top(t) /\ \A p \in Places : Under(p) # z
  BY <1>z, TopFacts
<1>2. \A p \in Places : p[2] > 1 => Under(p) \in Places
  BY UnderFacts
<1>3. \A p \in Places : p[2] > 1 => fr'[Under(p)] = fr[Under(p)]
  BY <1>z, <1>1, <1>2 DEF Moved
<1>4. \A p \in Places \ {z} : Nest(p)'
  BY <1>z, <1>3, NestKept DEF Moved
<1>5. Nest(z)'
  <2>1. Nest(z)
    BY <1>1 DEF Nested, Nest
  <2>2. fr'[z] = g /\ g.list = fr[z].list
        /\ (g.op = fr[z].op \/ (g.op = "close" /\ fr[z].op = "open"))
    BY <1>z, <1>1 DEF Moved
  <2>3. fr[z].list \in Ctxs => fr[z].list \in live
    BY <1>1, NsecOK DEF LiveOK
  <2>4. g.list \in Ctxs /\ g.op # "destroy" => uuid'[g.list] \notin Pseudo
    BY <2>1, <2>2, <2>3, NoneOK, PseudoOK DEF Nest, UuidKept
  <2>5. z[2] > 1 => Over(fr[z], fr[Under(z)]) /\ fr'[Under(z)] = fr[Under(z)]
    BY <1>1, <1>3, <2>1 DEF Nest
  <2>6. z[2] > 1 => Over(g, fr[Under(z)])
    BY <2>2, <2>5 DEF Over
  <2>7. (fr'[z]).list = Nsec => z[2] = 1
    BY <2>1, <2>2 DEF Nest
  <2>8. z[2] = 1 => (fr'[z]).list = Nsec \/ (fr'[z]).op = "destroy"
    BY <2>1, <2>2 DEF Nest
  <2>9. z[2] > 1 => Over(fr'[z], fr'[Under(z)])
    BY <2>2, <2>5, <2>6
  <2> QED
    BY <2>2, <2>4, <2>7, <2>8, <2>9 DEF Nest, Over, Under
<1>6. Places' = Places
  BY DEF Moved
<1> QED
  BY <1>4, <1>5, <1>6 DEF Nested, Nest

LEMMA NestedGone ==
    ASSUME TypeOK, LiveOK, Nested, UuidKept, NEW t \in Threads, stack[t] # <<>>, Gone(TopAt(t))
    PROVE  Nested'
<1>1. \A p \in Places : Under(p) # TopAt(t)
  BY TopFacts
<1>2. \A p \in Places : p[2] > 1 => Under(p) \in Places
  BY UnderFacts
<1>3. \A p \in Places' : Nest(p)'
  BY <1>1, <1>2, NestKept DEF Gone
<1> QED
  BY <1>3 DEF Nested, Nest

LEMMA NestedCame ==
    ASSUME TypeOK, LiveOK, Nested, UuidKept, NEW y, NEW g, Came(y, g), Nest(y)'
    PROVE  Nested'
<1>1. \A p \in Places : p[2] > 1 => Under(p) \in Places
  BY UnderFacts
<1>2. \A p \in Places : Nest(p)'
  BY <1>1, NestKept DEF Came
<1> QED
  BY <1>2 DEF Nested, Nest, Came

LEMMA FiniteKept ==
    ASSUME IsFiniteSet(Places), NEW z,
           Places' = Places \/ Places' = Places \ {z} \/ Places' = Places \cup {z}
    PROVE  IsFiniteSet(Places')
BY FS_AddElement, FS_RemoveElement

-----------------------------------------------------------------------------
(* What the steps do to the sessions                                       *)

\* The calls that use a session have one.
HasSession ==
    \A p \in Places : UsesSession(fr[p]) \/ Closer(fr[p]) \/ fr[p].pc \in {"find", "fail"} =>
        fr[p].s \in Sessions /\ (fr[p].pc \in {"find", "fail"} => UsesSession(fr[p]))

LEMMA SessionFacts ==
    ASSUME TypeOK, Shapes
    PROVE  SessionTypes /\ HasSession
<1>1. SessionTypes
  BY DEF TypeOK, SessionTypes
<1>2. ASSUME NEW p \in Places,
             UsesSession(fr[p]) \/ Closer(fr[p]) \/ fr[p].pc \in {"find", "fail"}
      PROVE  fr[p].s \in Sessions /\ (fr[p].pc \in {"find", "fail"} => UsesSession(fr[p]))
  <2>1. fr[p] \in Frame /\ Shape(fr[p])
    BY FrFacts DEF Shapes
  <2> QED
    BY <1>2, <2>1, NoneOK DEF Frame, Shape, UsesSession, Closer
<1> QED
  BY <1>1, <1>2 DEF HasSession

\* A call that has nothing to do with a session goes on.
LEMMA MovedNoRole ==
    ASSUME SessionInv, SessionTypes, HasSession, NEW z, NEW g, Moved(z, g), NoRole(fr[z]), NoRole(g),
           g.pc \notin {"find", "fail"}, SessionsKept
    PROVE  SessionInv'
<1> USE DEF SessionInv, Moved, SessionsKept, NoRole
<1>1. SessionOK'
  BY RolesApart DEF SessionOK, HasSession
<1>2. UniqueOK'
  BY RolesApart DEF UniqueOK, HasSession
<1>3. KnownOK'
  BY RolesApart DEF KnownOK, HasSession
<1>4. UnlinkOK'
  BY RolesApart DEF UnlinkOK, HasSession
<1>5. OpenOK'
  BY RolesApart DEF OpenOK
<1>6. LockOK'
  BY RolesApart DEF LockOK, HasSession
<1> QED
  BY <1>1, <1>2, <1>3, <1>4, <1>5, <1>6

\* A call that has nothing to do with a session begins.
LEMMA CameNoRole ==
    ASSUME SessionInv, SessionTypes, HasSession, NEW y, NEW g, Came(y, g), NoRole(g),
           g.pc \notin {"find", "fail"}, SessionsKept
    PROVE  SessionInv'
<1> USE DEF SessionInv, Came, SessionsKept, NoRole
<1>1. SessionOK'
  BY RolesApart DEF SessionOK, HasSession
<1>2. UniqueOK'
  BY RolesApart DEF UniqueOK, HasSession
<1>3. KnownOK'
  BY RolesApart DEF KnownOK, HasSession
<1>4. UnlinkOK'
  BY RolesApart DEF UnlinkOK, HasSession
<1>5. OpenOK'
  BY RolesApart DEF OpenOK
<1>6. LockOK'
  BY RolesApart DEF LockOK, HasSession
<1> QED
  BY <1>1, <1>2, <1>3, <1>4, <1>5, <1>6

\* A request on a session that its caller knows.
LEMMA CameAsks ==
    ASSUME SessionInv, SessionTypes, HasSession, NEW y, NEW g, Came(y, g), Asks(g), g.s \in known,
           g.pc = "get", SessionsKept
    PROVE  SessionInv'
<1> USE DEF SessionInv, Came, SessionsKept
<1>0. ~UsesSession(g) /\ ~Opening(g) /\ ~Closer(g) /\ ~Holder(g)
  BY RolesApart
<1>a. \A p \in Places : fr[p].s = g.s => ~Opening(fr[p])
  BY DEF KnownOK
<1>1. SessionOK'
  BY <1>0, <1>a DEF SessionOK, HasSession
<1>2. UniqueOK'
  BY <1>0, <1>a DEF UniqueOK, HasSession
<1>3. KnownOK'
  BY <1>0, <1>a DEF KnownOK, HasSession
<1>4. UnlinkOK'
  BY <1>0, <1>a DEF UnlinkOK, HasSession
<1>5. OpenOK'
  BY <1>0, <1>a DEF OpenOK
<1>6. LockOK'
  BY <1>0, <1>a DEF LockOK, HasSession
<1> QED
  BY <1>1, <1>2, <1>3, <1>4, <1>5, <1>6

\* A close of a session that nobody opens or closes.
LEMMA CameCloser ==
    ASSUME SessionInv, SessionTypes, HasSession, NEW y, NEW g, Came(y, g),
           g.op = "close", g.pc = "get", g.c = None, owner[g.s] = g.list,
           \A p \in Places : fr[p].s = g.s => ~Opening(fr[p]) /\ ~Closer(fr[p]),
           UNCHANGED <<owner, ts_ctx, lock_thread, unlink>>, known' = known \ {g.s}
    PROVE  SessionInv'
<1> USE DEF SessionInv, Came
<1>0. Closer(g) /\ ~UsesSession(g) /\ ~Asks(g) /\ ~Opening(g) /\ ~Holder(g)
  BY DEF Closer, UsesSession, Asks, Opening, Holder
<1>1. SessionOK'
  BY <1>0 DEF SessionOK, HasSession
<1>2. UniqueOK'
  BY <1>0 DEF UniqueOK, HasSession
<1>3. KnownOK'
  BY <1>0 DEF KnownOK, HasSession
<1>4. UnlinkOK'
  BY <1>0 DEF UnlinkOK, HasSession
<1>5. OpenOK'
  BY <1>0 DEF OpenOK
<1>6. LockOK'
  BY <1>0 DEF LockOK, HasSession
<1> QED
  BY <1>1, <1>2, <1>3, <1>4, <1>5, <1>6

\* A call returns that neither opens nor closes nor holds a session.
LEMMA GoneNoUse ==
    ASSUME SessionInv, SessionTypes, HasSession, NEW z, Gone(z),
           ~Opening(fr[z]), ~Closer(fr[z]), ~Holder(fr[z]), SessionsKept
    PROVE  SessionInv'
<1> USE DEF SessionInv, Gone, SessionsKept
<1>1. SessionOK'
  BY RolesApart DEF SessionOK, HasSession
<1>2. UniqueOK'
  BY RolesApart DEF UniqueOK, HasSession
<1>3. KnownOK'
  BY RolesApart DEF KnownOK, HasSession
<1>4. UnlinkOK'
  BY RolesApart DEF UnlinkOK, HasSession
<1>5. OpenOK'
  BY RolesApart DEF OpenOK
<1>6. LockOK'
  BY RolesApart DEF LockOK, HasSession
<1> QED
  BY <1>1, <1>2, <1>3, <1>4, <1>5, <1>6

\* A call goes on to open its session.
LEMMA MovedOpening ==
    ASSUME SessionInv, SessionTypes, HasSession, NEW z, NEW g, Moved(z, g), Opening(fr[z]), Opening(g),
           g.s = fr[z].s, g.list = fr[z].list, g.s \in Sessions, g.list # None,
           g.pc \in {"find", "fail"} => g.c = None,
           ts_ctx'[g.s] = g.c, \A r \in Sessions \ {g.s} : ts_ctx'[r] = ts_ctx[r],
           g.pc # "drain", fr[z].pc # "drain", UsesSession(fr[z]), UsesSession(g),
           UNCHANGED <<owner, lock_thread, unlink, known>>
    PROVE  SessionInv'
<1> USE DEF SessionInv, Moved, SessionTypes
<1>1. SessionOK'
  BY RolesApart DEF SessionOK, HasSession, UniqueOK
<1>2. UniqueOK'
  BY RolesApart DEF UniqueOK, HasSession
<1>3. KnownOK'
  BY RolesApart DEF KnownOK, HasSession, UniqueOK, SessionOK
<1>4. UnlinkOK'
  BY RolesApart DEF UnlinkOK, HasSession
<1>5. OpenOK'
  <2>1. ASSUME NEW r \in Sessions, owner'[r] = None
        PROVE  ts_ctx'[r] = None /\ lock_thread'[r] = None /\ r \notin unlink'
    BY RolesApart, <2>1 DEF OpenOK, SessionOK
  <2>2. ASSUME NEW r \in Sessions, owner'[r] # None, ts_ctx'[r] = None
        PROVE  (\E p \in Places : fr[p].s = r /\ Opening(fr[p]))'
    BY RolesApart, <2>2 DEF OpenOK, SessionOK
  <2>3. ASSUME NEW r \in Sessions, owner'[r] = Nsec, r \notin known'
        PROVE  (\E p \in Places : fr[p].s = r /\ (Opening(fr[p]) \/ Closer(fr[p])))'
    BY RolesApart, <2>3, NoneOK DEF OpenOK, SessionOK
  <2> QED
    BY <2>1, <2>2, <2>3 DEF OpenOK
<1>6. LockOK'
  <2>1. ASSUME NEW p \in Places', Holder(fr[p])'
        PROVE  lock_thread'[(fr'[p]).s] = p[1]
    BY RolesApart, <2>1 DEF LockOK, UniqueOK, HasSession, HasSession
  <2>2. ASSUME NEW r \in Sessions, lock_thread'[r] # None
        PROVE  (\E p \in Places : p[1] = lock_thread[r] /\ fr[p].s = r /\ Holder(fr[p]))'
    BY RolesApart, <2>2 DEF LockOK, UniqueOK, HasSession
  <2> QED
    BY <2>1, <2>2 DEF LockOK
<1> QED
  BY <1>1, <1>2, <1>3, <1>4, <1>5, <1>6

\* A session comes into being with an id that nobody uses.
LEMMA MovedOpens ==
    ASSUME SessionInv, SessionTypes, HasSession, NEW z, NEW g, Moved(z, g), NoRole(fr[z]), Opening(g),
           Shapes, g.s \in Sessions, owner[g.s] = None, g.list # None,
           \A p \in Places : ~(fr[p].pc = "get" /\ fr[p].s = g.s),
           g.pc \in {"find", "fail"} => g.c = None,
           owner'[g.s] = g.list, \A r \in Sessions \ {g.s} : owner'[r] = owner[r],
           ts_ctx'[g.s] = g.c, \A r \in Sessions \ {g.s} : ts_ctx'[r] = ts_ctx[r],
           UNCHANGED <<lock_thread, unlink, known>>
    PROVE  SessionInv'
<1> USE DEF SessionInv, Moved, SessionTypes
<1>a. ASSUME NEW p \in Places, fr[p].s = g.s
      PROVE  NoRole(fr[p])
  <2>1. ~UsesSession(fr[p]) /\ ~Closer(fr[p])
    BY <1>a DEF Shapes, Shape, SessionOK
  <2>2. ~Asks(fr[p]) /\ (Opening(fr[p]) => UsesSession(fr[p]))
    BY <1>a DEF Asks, Opening, UsesSession, Shapes, Shape
  <2> QED
    BY <2>1, <2>2 DEF NoRole
<1>b. ASSUME NEW p \in Places, p # z
      PROVE  fr'[p] = fr[p]
  BY <1>b
<1>c. ~Closer(g) /\ ~Asks(g) /\ ~Holder(g)
  BY RolesApart
<1>1. SessionOK'
  BY <1>a, <1>c, RolesApart DEF SessionOK, NoRole, HasSession, UniqueOK
<1>2. UniqueOK'
  BY <1>a, <1>c, RolesApart DEF UniqueOK, NoRole, HasSession
<1>3. KnownOK'
  BY <1>a, <1>c, RolesApart DEF KnownOK, NoRole, HasSession, UniqueOK, SessionOK
<1>4. UnlinkOK'
  BY <1>a, <1>c, RolesApart DEF UnlinkOK, NoRole, HasSession
<1>5. OpenOK'
  <2>1. ASSUME NEW r \in Sessions, owner'[r] = None
        PROVE  ts_ctx'[r] = None /\ lock_thread'[r] = None /\ r \notin unlink'
    BY <1>a, <1>c, RolesApart, <2>1 DEF OpenOK, SessionOK, NoRole
  <2>2. ASSUME NEW r \in Sessions, owner'[r] # None, ts_ctx'[r] = None
        PROVE  (\E p \in Places : fr[p].s = r /\ Opening(fr[p]))'
    BY <1>a, <1>c, RolesApart, <2>2 DEF OpenOK, SessionOK, NoRole
  <2>3. ASSUME NEW r \in Sessions, owner'[r] = Nsec, r \notin known'
        PROVE  (\E p \in Places : fr[p].s = r /\ (Opening(fr[p]) \/ Closer(fr[p])))'
    BY <1>a, <1>c, RolesApart, <2>3, NoneOK DEF OpenOK, SessionOK, NoRole
  <2> QED
    BY <2>1, <2>2, <2>3 DEF OpenOK
<1>6. LockOK'
  <2>1. ASSUME NEW p \in Places', Holder(fr[p])'
        PROVE  lock_thread'[(fr'[p]).s] = p[1]
    BY <1>a, <1>c, RolesApart, <2>1 DEF LockOK, UniqueOK, HasSession, NoRole, HasSession
  <2>2. ASSUME NEW r \in Sessions, lock_thread'[r] # None
        PROVE  (\E p \in Places : p[1] = lock_thread[r] /\ fr[p].s = r /\ Holder(fr[p]))'
    BY <1>a, <1>c, RolesApart, <2>2 DEF LockOK, UniqueOK, NoRole, HasSession
  <2> QED
    BY <2>1, <2>2 DEF LockOK
<1> QED
  BY <1>1, <1>2, <1>3, <1>4, <1>5, <1>6

\* A session that could not be opened is freed.
LEMMA GoneFree ==
    ASSUME SessionInv, SessionTypes, HasSession, NEW z, Gone(z), Opening(fr[z]), fr[z].s \in Sessions,
           owner'[fr[z].s] = None, \A r \in Sessions \ {fr[z].s} : owner'[r] = owner[r],
           ts_ctx'[fr[z].s] = None, \A r \in Sessions \ {fr[z].s} : ts_ctx'[r] = ts_ctx[r],
           lock_thread'[fr[z].s] = None,
           \A r \in Sessions \ {fr[z].s} : lock_thread'[r] = lock_thread[r],
           unlink' = unlink \ {fr[z].s}, known' = known
    PROVE  SessionInv'
<1> USE DEF SessionInv, Gone, SessionTypes
<1>1. SessionOK'
  BY RolesApart DEF SessionOK, HasSession, UniqueOK
<1>2. UniqueOK'
  BY RolesApart DEF UniqueOK, HasSession
<1>3. KnownOK'
  BY RolesApart DEF KnownOK, HasSession, UniqueOK, SessionOK
<1>4. UnlinkOK'
  BY RolesApart DEF UnlinkOK, HasSession
<1>5. OpenOK'
  <2>1. ASSUME NEW r \in Sessions, owner'[r] = None
        PROVE  ts_ctx'[r] = None /\ lock_thread'[r] = None /\ r \notin unlink'
    BY RolesApart, <2>1 DEF OpenOK, SessionOK
  <2>2. ASSUME NEW r \in Sessions, owner'[r] # None, ts_ctx'[r] = None
        PROVE  (\E p \in Places : fr[p].s = r /\ Opening(fr[p]))'
    BY RolesApart, <2>2 DEF OpenOK, SessionOK
  <2>3. ASSUME NEW r \in Sessions, owner'[r] = Nsec, r \notin known'
        PROVE  (\E p \in Places : fr[p].s = r /\ (Opening(fr[p]) \/ Closer(fr[p])))'
    BY RolesApart, <2>3, NoneOK DEF OpenOK, SessionOK
  <2> QED
    BY <2>1, <2>2, <2>3 DEF OpenOK
<1>6. LockOK'
  <2>1. ASSUME NEW p \in Places', Holder(fr[p])'
        PROVE  lock_thread'[(fr'[p]).s] = p[1]
    BY RolesApart, <2>1 DEF LockOK, UniqueOK, HasSession, HasSession
  <2>2. ASSUME NEW r \in Sessions, lock_thread'[r] # None
        PROVE  (\E p \in Places : p[1] = lock_thread[r] /\ fr[p].s = r /\ Holder(fr[p]))'
    BY RolesApart, <2>2 DEF LockOK, UniqueOK, HasSession
  <2> QED
    BY <2>1, <2>2 DEF LockOK
<1> QED
  BY <1>1, <1>2, <1>3, <1>4, <1>5, <1>6

\* A session has been opened.
LEMMA GonePut ==
    ASSUME SessionInv, SessionTypes, HasSession, NEW z, Gone(z), Opening(fr[z]), UsesSession(fr[z]), fr[z].c # None, fr[z].s \in Sessions,
           fr[z].list # None,
           known' \in {known, known \cup {fr[z].s}}, fr[z].list = Nsec => fr[z].s \in known',
           UNCHANGED <<owner, ts_ctx, lock_thread, unlink>>
    PROVE  SessionInv'
<1> USE DEF SessionInv, Gone, SessionTypes
<1>1. SessionOK'
  BY RolesApart DEF SessionOK, HasSession, UniqueOK
<1>2. UniqueOK'
  BY RolesApart DEF UniqueOK, HasSession
<1>3. KnownOK'
  BY RolesApart DEF KnownOK, HasSession, UniqueOK, SessionOK
<1>4. UnlinkOK'
  BY RolesApart DEF UnlinkOK, HasSession
<1>5. OpenOK'
  <2>1. ASSUME NEW r \in Sessions, owner'[r] = None
        PROVE  ts_ctx'[r] = None /\ lock_thread'[r] = None /\ r \notin unlink'
    BY RolesApart, <2>1 DEF OpenOK, SessionOK
  <2>2. ASSUME NEW r \in Sessions, owner'[r] # None, ts_ctx'[r] = None
        PROVE  (\E p \in Places : fr[p].s = r /\ Opening(fr[p]))'
    BY RolesApart, <2>2 DEF OpenOK, SessionOK
  <2>3. ASSUME NEW r \in Sessions, owner'[r] = Nsec, r \notin known'
        PROVE  (\E p \in Places : fr[p].s = r /\ (Opening(fr[p]) \/ Closer(fr[p])))'
    BY RolesApart, <2>3, NoneOK DEF OpenOK, SessionOK
  <2> QED
    BY <2>1, <2>2, <2>3 DEF OpenOK
<1>6. LockOK'
  <2>1. ASSUME NEW p \in Places', Holder(fr[p])'
        PROVE  lock_thread'[(fr'[p]).s] = p[1]
    BY RolesApart, <2>1 DEF LockOK, UniqueOK, HasSession, HasSession
  <2>2. ASSUME NEW r \in Sessions, lock_thread'[r] # None
        PROVE  (\E p \in Places : p[1] = lock_thread[r] /\ fr[p].s = r /\ Holder(fr[p]))'
    BY RolesApart, <2>2 DEF LockOK, UniqueOK, HasSession
  <2> QED
    BY <2>1, <2>2 DEF LockOK
<1> QED
  BY <1>1, <1>2, <1>3, <1>4, <1>5, <1>6

\* A session that was opened is closed again.
LEMMA OpenToClose ==
    ASSUME SessionInv, SessionTypes, HasSession, NEW z, NEW g, Moved(z, g), Opening(fr[z]), UsesSession(fr[z]),
           fr[z].c # None, g.op = "close", g.pc = "get",
           g.s = fr[z].s, g.c = fr[z].c, g.list = fr[z].list, SessionsKept
    PROVE  SessionInv'
<1> USE DEF SessionInv, Moved, SessionsKept
<1>0. Closer(g) /\ ~UsesSession(g) /\ ~Asks(g) /\ ~Opening(g) /\ ~Holder(g)
  BY DEF Closer, UsesSession, Asks, Opening, Holder
<1>1. SessionOK'
  BY <1>0, RolesApart DEF SessionOK, HasSession, UniqueOK
<1>2. UniqueOK'
  BY <1>0, RolesApart DEF UniqueOK, HasSession
<1>3. KnownOK'
  BY <1>0, RolesApart DEF KnownOK, HasSession, UniqueOK, SessionOK
<1>4. UnlinkOK'
  BY <1>0, RolesApart DEF UnlinkOK, HasSession
<1>5. OpenOK'
  <2>1. ASSUME NEW r \in Sessions, owner'[r] = None
        PROVE  ts_ctx'[r] = None /\ lock_thread'[r] = None /\ r \notin unlink'
    BY <1>0, RolesApart, <2>1 DEF OpenOK, SessionOK
  <2>2. ASSUME NEW r \in Sessions, owner'[r] # None, ts_ctx'[r] = None
        PROVE  (\E p \in Places : fr[p].s = r /\ Opening(fr[p]))'
    BY <1>0, RolesApart, <2>2 DEF OpenOK, SessionOK
  <2>3. ASSUME NEW r \in Sessions, owner'[r] = Nsec, r \notin known'
        PROVE  (\E p \in Places : fr[p].s = r /\ (Opening(fr[p]) \/ Closer(fr[p])))'
    BY <1>0, RolesApart, <2>3, NoneOK DEF OpenOK, SessionOK
  <2> QED
    BY <2>1, <2>2, <2>3 DEF OpenOK
<1>6. LockOK'
  <2>1. ASSUME NEW p \in Places', Holder(fr[p])'
        PROVE  lock_thread'[(fr'[p]).s] = p[1]
    BY <1>0, RolesApart, <2>1 DEF LockOK, UniqueOK, HasSession, HasSession
  <2>2. ASSUME NEW r \in Sessions, lock_thread'[r] # None
        PROVE  (\E p \in Places : p[1] = lock_thread[r] /\ fr[p].s = r /\ Holder(fr[p]))'
    BY <1>0, RolesApart, <2>2 DEF LockOK, UniqueOK, HasSession
  <2> QED
    BY <2>1, <2>2 DEF LockOK
<1> QED
  BY <1>1, <1>2, <1>3, <1>4, <1>5, <1>6

\* A request finds its session and does not take the lock.
LEMMA MovedJoins ==
    ASSUME SessionInv, SessionTypes, HasSession, NEW z, NEW g, Moved(z, g), Asks(fr[z]) \/ Closer(fr[z]),
           fr[z].pc = "get", UsesSession(g), ~Opening(g), ~Holder(g), ~Asks(g), g.pc \notin {"drain", "find", "fail"},
           Closer(g) <=> Closer(fr[z]),
           g.s = fr[z].s, g.c = fr[z].c, g.list = fr[z].list,
           owner[g.s] = g.list, g.c = None \/ Closer(fr[z]), SessionsKept
    PROVE  SessionInv'
<1> USE DEF SessionInv, Moved, SessionsKept
<1>0. ~Holder(fr[z]) /\ ~UsesSession(fr[z]) /\ ~Opening(fr[z])
  BY RolesApart DEF Holder, UsesSession
<1>1. SessionOK'
  BY <1>0, RolesApart DEF SessionOK, HasSession
<1>2. UniqueOK'
  BY <1>0, RolesApart DEF UniqueOK, HasSession
<1>3. KnownOK'
  BY <1>0, RolesApart DEF KnownOK, HasSession
<1>4. UnlinkOK'
  BY <1>0, RolesApart DEF UnlinkOK, HasSession
<1>5. OpenOK'
  BY <1>0, RolesApart DEF OpenOK
<1>6. LockOK'
  BY <1>0, RolesApart DEF LockOK, HasSession
<1> QED
  BY <1>1, <1>2, <1>3, <1>4, <1>5, <1>6

\* A request takes the lock of its session.
LEMMA MovedLocks ==
    ASSUME SessionInv, SessionTypes, HasSession, TypeOK, NEW z, NEW g, Moved(z, g), Asks(fr[z]) \/ Closer(fr[z]) \/ UsesSession(fr[z]),
           fr[z].pc \in {"get", "lock"}, ~Opening(fr[z]), ~Opening(g), Holder(g), ~Asks(g),
           g.pc \notin {"drain", "find", "fail"},
           Closer(g) <=> Closer(fr[z]),
           g.s = fr[z].s, g.c = ts_ctx[g.s], g.list = fr[z].list, g.s \in Sessions, z[1] # None,
           owner[g.s] = g.list, owner[g.s] # None, lock_thread[g.s] = None, lock_thread'[g.s] = z[1],
           \A r \in Sessions \ {g.s} : lock_thread'[r] = lock_thread[r],
           UNCHANGED <<owner, ts_ctx, unlink, known>>
    PROVE  SessionInv'
<1> USE DEF SessionInv, Moved, SessionTypes
<1>0. ~Holder(fr[z])
  BY DEF Holder, UsesSession
<1>n. \A p \in Places : p[1] # None
  BY FrFacts, NoneOK
<1>a. \A q \in Places : fr[q].s = g.s => ~Holder(fr[q]) /\ ~Opening(fr[q])
  <2>1. ASSUME NEW q \in Places, fr[q].s = g.s, Holder(fr[q])
        PROVE  FALSE
    BY <2>1, <1>n DEF LockOK
  <2> QED
    BY <2>1 DEF UniqueOK
<1>1. SessionOK'
  BY <1>0, <1>a, RolesApart DEF SessionOK, HasSession, UniqueOK
<1>2. UniqueOK'
  BY <1>0, <1>a, RolesApart DEF UniqueOK, HasSession
<1>3. KnownOK'
  BY <1>0, <1>a, RolesApart DEF KnownOK, HasSession, UniqueOK, SessionOK
<1>4. UnlinkOK'
  BY <1>0, <1>a, RolesApart DEF UnlinkOK, HasSession
<1>5. OpenOK'
  <2>1. ASSUME NEW r \in Sessions, owner'[r] = None
        PROVE  ts_ctx'[r] = None /\ lock_thread'[r] = None /\ r \notin unlink'
    BY <1>0, <1>a, RolesApart, <2>1 DEF OpenOK, SessionOK
  <2>2. ASSUME NEW r \in Sessions, owner'[r] # None, ts_ctx'[r] = None
        PROVE  (\E p \in Places : fr[p].s = r /\ Opening(fr[p]))'
    BY <1>0, <1>a, RolesApart, <2>2 DEF OpenOK, SessionOK
  <2>3. ASSUME NEW r \in Sessions, owner'[r] = Nsec, r \notin known'
        PROVE  (\E p \in Places : fr[p].s = r /\ (Opening(fr[p]) \/ Closer(fr[p])))'
    BY <1>0, <1>a, RolesApart, <2>3, NoneOK DEF OpenOK, SessionOK
  <2> QED
    BY <2>1, <2>2, <2>3 DEF OpenOK
<1>6. LockOK'
  <2>1. ASSUME NEW p \in Places', Holder(fr[p])'
        PROVE  lock_thread'[(fr'[p]).s] = p[1]
    BY <1>0, <1>a, RolesApart, <2>1 DEF LockOK, UniqueOK, HasSession, HasSession
  <2>2. ASSUME NEW r \in Sessions, lock_thread'[r] # None
        PROVE  (\E p \in Places : p[1] = lock_thread[r] /\ fr[p].s = r /\ Holder(fr[p]))'
    BY <1>0, <1>a, RolesApart, <2>2 DEF LockOK, UniqueOK, HasSession
  <2> QED
    BY <2>1, <2>2 DEF LockOK
<1> QED
  BY <1>1, <1>2, <1>3, <1>4, <1>5, <1>6

\* A request gives the lock of its session back.
LEMMA GoneHolder ==
    ASSUME SessionInv, SessionTypes, HasSession, NEW z, Gone(z), Holder(fr[z]), ~Closer(fr[z]), ~Opening(fr[z]),
           fr[z].s \in Sessions, lock_thread'[fr[z].s] = None,
           \A r \in Sessions \ {fr[z].s} : lock_thread'[r] = lock_thread[r],
           UNCHANGED <<owner, ts_ctx, unlink, known>>
    PROVE  SessionInv'
<1> USE DEF SessionInv, Gone, SessionTypes
<1>1. SessionOK'
  BY RolesApart DEF SessionOK, HasSession, UniqueOK
<1>2. UniqueOK'
  BY RolesApart DEF UniqueOK, HasSession
<1>3. KnownOK'
  BY RolesApart DEF KnownOK, HasSession, UniqueOK, SessionOK
<1>4. UnlinkOK'
  BY RolesApart DEF UnlinkOK, HasSession
<1>5. OpenOK'
  <2>1. ASSUME NEW r \in Sessions, owner'[r] = None
        PROVE  ts_ctx'[r] = None /\ lock_thread'[r] = None /\ r \notin unlink'
    BY RolesApart, <2>1 DEF OpenOK, SessionOK
  <2>2. ASSUME NEW r \in Sessions, owner'[r] # None, ts_ctx'[r] = None
        PROVE  (\E p \in Places : fr[p].s = r /\ Opening(fr[p]))'
    BY RolesApart, <2>2 DEF OpenOK, SessionOK
  <2>3. ASSUME NEW r \in Sessions, owner'[r] = Nsec, r \notin known'
        PROVE  (\E p \in Places : fr[p].s = r /\ (Opening(fr[p]) \/ Closer(fr[p])))'
    BY RolesApart, <2>3, NoneOK DEF OpenOK, SessionOK
  <2> QED
    BY <2>1, <2>2, <2>3 DEF OpenOK
<1>6. LockOK'
  <2>1. ASSUME NEW p \in Places', Holder(fr[p])'
        PROVE  lock_thread'[(fr'[p]).s] = p[1]
    BY RolesApart, <2>1 DEF LockOK, UniqueOK, HasSession, HasSession
  <2>2. ASSUME NEW r \in Sessions, lock_thread'[r] # None
        PROVE  (\E p \in Places : p[1] = lock_thread[r] /\ fr[p].s = r /\ Holder(fr[p]))'
    BY RolesApart, <2>2 DEF LockOK, UniqueOK, HasSession
  <2> QED
    BY <2>1, <2>2 DEF LockOK
<1> QED
  BY <1>1, <1>2, <1>3, <1>4, <1>5, <1>6

\* A close waits for the other users of its session.
LEMMA MovedDrains ==
    ASSUME SessionInv, SessionTypes, HasSession, NEW z, NEW g, Moved(z, g), Closer(fr[z]), Holder(fr[z]), Closer(g), Holder(g),
           fr[z].pc # "drain", g.pc = "drain", ~Opening(g), ~Asks(g),
           g.s = fr[z].s, g.c = fr[z].c, g.list = fr[z].list, g.s \in Sessions, owner[g.s] # None,
           unlink' = unlink \cup {g.s}, UNCHANGED <<owner, ts_ctx, lock_thread, known>>
    PROVE  SessionInv'
<1> USE DEF SessionInv, Moved, SessionTypes
<1>1. SessionOK'
  BY RolesApart DEF SessionOK, HasSession
<1>2. UniqueOK'
  BY RolesApart DEF UniqueOK, HasSession
<1>3. KnownOK'
  BY RolesApart DEF KnownOK, HasSession
<1>4. UnlinkOK'
  BY RolesApart DEF UnlinkOK, HasSession
<1>5. OpenOK'
  BY RolesApart DEF OpenOK
<1>6. LockOK'
  BY RolesApart DEF LockOK, HasSession
<1> QED
  BY <1>1, <1>2, <1>3, <1>4, <1>5, <1>6

\* A close that is the only user of its session frees it.
LEMMA MovedFrees ==
    ASSUME SessionInv, SessionTypes, HasSession, NEW z, NEW g, Moved(z, g), Closer(fr[z]), Holder(fr[z]), NoRole(g),
           g.pc \notin {"find", "fail"}, fr[z].s \in Sessions,
           \A q \in Places \ {z} : fr[q].s = fr[z].s => ~UsesSession(fr[q]),
           owner'[fr[z].s] = None, \A r \in Sessions \ {fr[z].s} : owner'[r] = owner[r],
           ts_ctx'[fr[z].s] = None, \A r \in Sessions \ {fr[z].s} : ts_ctx'[r] = ts_ctx[r],
           lock_thread'[fr[z].s] = None,
           \A r \in Sessions \ {fr[z].s} : lock_thread'[r] = lock_thread[r],
           unlink' = unlink \ {fr[z].s}, known' = known
    PROVE  SessionInv'
<1> USE DEF SessionInv, Moved, SessionTypes, NoRole
<1>1. SessionOK'
  BY RolesApart DEF SessionOK, HasSession, UniqueOK
<1>2. UniqueOK'
  BY RolesApart DEF UniqueOK, HasSession
<1>3. KnownOK'
  BY RolesApart DEF KnownOK, HasSession, UniqueOK, SessionOK
<1>4. UnlinkOK'
  BY RolesApart DEF UnlinkOK, HasSession
<1>5. OpenOK'
  <2>1. ASSUME NEW r \in Sessions, owner'[r] = None
        PROVE  ts_ctx'[r] = None /\ lock_thread'[r] = None /\ r \notin unlink'
    BY RolesApart, <2>1 DEF OpenOK, SessionOK
  <2>2. ASSUME NEW r \in Sessions, owner'[r] # None, ts_ctx'[r] = None
        PROVE  (\E p \in Places : fr[p].s = r /\ Opening(fr[p]))'
    BY RolesApart, <2>2 DEF OpenOK, SessionOK
  <2>3. ASSUME NEW r \in Sessions, owner'[r] = Nsec, r \notin known'
        PROVE  (\E p \in Places : fr[p].s = r /\ (Opening(fr[p]) \/ Closer(fr[p])))'
    BY RolesApart, <2>3, NoneOK DEF OpenOK, SessionOK
  <2> QED
    BY <2>1, <2>2, <2>3 DEF OpenOK
<1>6. LockOK'
  <2>1. ASSUME NEW p \in Places', Holder(fr[p])'
        PROVE  lock_thread'[(fr'[p]).s] = p[1]
    BY RolesApart, <2>1 DEF LockOK, UniqueOK, HasSession, HasSession
  <2>2. ASSUME NEW r \in Sessions, lock_thread'[r] # None
        PROVE  (\E p \in Places : p[1] = lock_thread[r] /\ fr[p].s = r /\ Holder(fr[p]))'
    BY RolesApart, <2>2 DEF LockOK, UniqueOK, HasSession
  <2> QED
    BY <2>1, <2>2 DEF LockOK
<1> QED
  BY <1>1, <1>2, <1>3, <1>4, <1>5, <1>6

-----------------------------------------------------------------------------
(* A call goes on and makes another one                                    *)

Grown(z, f, y, g) ==
    /\ z \in Places /\ y \notin Places /\ Places' = Places \cup {y}
    /\ fr'[z] = f /\ fr'[y] = g /\ \A p \in Places \ {z} : fr'[p] = fr[p]

LEMMA ReleaseStep ==
    ASSUME TypeOK, NEW t \in Threads, stack[t] # <<>>, NEW f \in Frame, NEW g \in Frame,
           stack' = [stack EXCEPT ![t] = Append(Append(Front(@), f), g)]
    PROVE  /\ stack' \in [Threads -> Seq(Frame)] /\ Grown(TopAt(t), f, NewAt(t), g)
           /\ Others(t) /\ stack'[t] # <<>> /\ TopAt(t)' = NewAt(t)
           /\ Under(NewAt(t)) = TopAt(t) /\ NewAt(t)[2] > 1
<1> DEFINE n == Len(stack[t])
           w == Append(Append(Front(stack[t]), f), g)
<1>1. stack \in [Threads -> Seq(Frame)] /\ stack[t] \in Seq(Frame) /\ n \in Nat /\ n > 0
  BY FrFacts, EmptySeq DEF TypeOK
<1>2. /\ w \in Seq(Frame) /\ Len(w) = n + 1 /\ w[n] = f /\ w[n + 1] = g /\ w # <<>>
      /\ \A i \in 1 .. n - 1 : w[i] = stack[t][i]
  <2>1. PICK v \in Seq(Frame) : v = Front(stack[t])
    BY <1>1, FrontFacts
  <2>2. Len(v) = n - 1 /\ \A i \in 1 .. n - 1 : v[i] = stack[t][i]
    BY <1>1, <2>1, FrontFacts
  <2>3. PICK x \in Seq(Frame) : x = Append(v, f)
    BY AppendProperties
  <2>4. Len(x) = Len(v) + 1 /\ x[Len(v) + 1] = f /\ \A i \in 1 .. Len(v) : x[i] = v[i]
    BY <2>3, AppendProperties
  <2>5. /\ Append(x, g) \in Seq(Frame) /\ Len(Append(x, g)) = Len(x) + 1
        /\ Append(x, g)[Len(x) + 1] = g /\ Append(x, g) # <<>>
        /\ \A i \in 1 .. Len(x) : Append(x, g)[i] = x[i]
    BY AppendProperties
  <2> HIDE DEF n
  <2>6. Len(v) = n - 1 /\ Len(x) = n /\ w = Append(x, g) /\ n \in Nat /\ n > 0
    BY <1>1, <2>1, <2>2, <2>3, <2>4
  <2> HIDE DEF w
  <2>7. Len(w) = n + 1 /\ w \in Seq(Frame) /\ w # <<>> /\ w[n + 1] = g
        /\ \A i \in 1 .. n : w[i] = x[i]
    BY <2>5, <2>6
  <2>8. x[n] = f /\ \A i \in 1 .. n - 1 : x[i] = stack[t][i]
    BY <2>2, <2>4, <2>6
  <2> QED
    BY <2>6, <2>7, <2>8
<1> HIDE DEF n, w
<1>3. stack' = [stack EXCEPT ![t] = w]
  BY DEF w
<1>4. stack' \in [Threads -> Seq(Frame)] /\ stack'[t] = w /\ Others(t)
  BY <1>1, <1>2, <1>3 DEF Others, TopAt
<1>5. \A u \in Threads \ {t} : Len(stack'[u]) = Len(stack[u])
  BY <1>2, <1>4 DEF Others, n
<1>6. NewAt(t) = <<t, n + 1>> /\ TopAt(t)' = NewAt(t) /\ TopAt(t) = <<t, n>>
  BY <1>2, <1>4 DEF TopAt, NewAt, n
<1>7. ASSUME NEW p
      PROVE  p \in Places' <=> p \in Places \cup {NewAt(t)}
  <2>1. ASSUME p \in Places' PROVE p \in Places \cup {NewAt(t)}
    <3>1. PICK u \in Threads : \E i \in 1 .. Len(stack'[u]) : p = <<u, i>>
      BY <1>4, <2>1, FrNext
    <3>2. PICK i \in 1 .. Len(stack'[u]) : p = <<u, i>>
      BY <3>1
    <3>3. i \in 1 .. Len(stack[u]) \/ (u = t /\ i = n + 1)
      BY <1>1, <1>2, <1>4, <1>5 DEF n
    <3> QED
      BY <1>6, <3>2, <3>3, FrFacts
  <2>2. ASSUME p \in Places PROVE p \in Places'
    <3>1. p[1] \in Threads /\ p[2] \in 1 .. Len(stack[p[1]]) /\ p = <<p[1], p[2]>>
      BY <2>2, FrFacts
    <3>2. p[2] \in 1 .. Len(stack'[p[1]])
      BY <1>1, <1>2, <1>4, <1>5, <3>1 DEF n
    <3> QED
      BY <1>4, <3>1, <3>2, FrNext
  <2>3. NewAt(t) \in Places'
    BY <1>1, <1>2, <1>4, <1>6, FrNext
  <2> QED
    BY <2>1, <2>2, <2>3
<1>8. ASSUME NEW p \in Places \ {TopAt(t)}
      PROVE  fr'[p] = fr[p]
  <2>1. p[1] \in Threads /\ p[2] \in 1 .. Len(stack[p[1]]) /\ p = <<p[1], p[2]>>
        /\ fr[p] = stack[p[1]][p[2]]
    BY FrFacts
  <2>2. p[2] \in 1 .. Len(stack'[p[1]])
    BY <1>1, <1>2, <1>4, <1>5, <2>1 DEF n
  <2>3. fr'[p] = stack'[p[1]][p[2]]
    BY <1>4, <2>1, <2>2, FrNext
  <2>4. p[1] = t => p[2] \in 1 .. n - 1
    BY <2>1, <1>1, <1>6 DEF n
  <2> QED
    BY <1>2, <1>4, <2>1, <2>2, <2>3, <2>4 DEF Others, n
<1>9. /\ NewAt(t) \notin Places /\ Under(NewAt(t)) = TopAt(t) /\ NewAt(t)[2] > 1
      /\ fr'[NewAt(t)] = g /\ fr'[TopAt(t)] = f /\ TopAt(t) \in Places
  <2>1. NewAt(t) \notin Places
    BY <1>1, <1>6, FrFacts DEF n
  <2>2. Under(NewAt(t)) = TopAt(t) /\ NewAt(t)[2] > 1
    BY <1>1, <1>6 DEF Under, TopAt, n
  <2>3. fr'[NewAt(t)] = g /\ fr'[TopAt(t)] = f
    <3>1. n \in 1 .. Len(stack'[t]) /\ n + 1 \in 1 .. Len(stack'[t])
      BY <1>1, <1>2, <1>4
    <3> QED
      BY <1>2, <1>4, <1>6, <3>1, FrNext
  <2> QED
    BY <2>1, <2>2, <2>3, TopFacts
<1> QED
  BY <1>2, <1>4, <1>6, <1>7, <1>8, <1>9 DEF Grown

LEMMA GrownNoRole ==
    ASSUME SessionInv, NEW z, NEW f, NEW y, NEW g, Grown(z, f, y, g), SameRole(fr[z], f), NoRole(g),
           g.pc \notin {"find", "fail"}, SessionsKept
    PROVE  SessionInv'
<1> USE DEF SessionInv, Grown, SessionsKept, NoRole, SameRole
<1>1. SessionOK'
  BY RolesApart DEF SessionOK
<1>2. UniqueOK'
  BY RolesApart DEF UniqueOK
<1>3. KnownOK'
  BY RolesApart DEF KnownOK
<1>4. UnlinkOK'
  BY RolesApart DEF UnlinkOK
<1>5. OpenOK'
  BY RolesApart DEF OpenOK
<1>6. LockOK'
  BY RolesApart DEF LockOK
<1> QED
  BY <1>1, <1>2, <1>3, <1>4, <1>5, <1>6

LEMMA NestedGrown ==
    ASSUME TypeOK, LiveOK, Nested, UuidKept, NEW t \in Threads, stack[t] # <<>>,
           NEW f, NEW g, Grown(TopAt(t), f, NewAt(t), g), NewAt(t)[2] > 1,
           Under(NewAt(t)) = TopAt(t), f.list = Top(t).list, f.op = Top(t).op,
           g.list \in live, g.op = "release", uuid'[g.list] \notin Pseudo,
           f.pc = "clear", f.op # "close", f.c = g.list
    PROVE  Nested'
<1>z. PICK z : z = TopAt(t)
  OBVIOUS
<1>y. PICK y : y = NewAt(t)
  OBVIOUS
<1>0. z \in Places /\ y \notin Places /\ Places' = Places \cup {y}
      /\ fr'[z] = f /\ fr'[y] = g /\ (\A p \in Places \ {z} : fr'[p] = fr[p])
      /\ y[2] > 1 /\ Under(y) = z
  BY <1>z, <1>y DEF Grown
<1>1. z \in Places /\ fr[z] = Top(t) /\ \A p \in Places : Under(p) # z
  BY <1>z, TopFacts
<1>2. \A p \in Places : p[2] > 1 => Under(p) \in Places
  BY UnderFacts
<1>3. \A p \in Places : p[2] > 1 => fr'[Under(p)] = fr[Under(p)]
  BY <1>0, <1>1, <1>2
<1>4. \A p \in Places \ {z} : Nest(p)'
  BY <1>0, <1>3, NestKept
<1>5. Nest(z)'
  <2>1. Nest(z)
    BY <1>1 DEF Nested, Nest
  <2>2. fr'[z] = f /\ f.list = fr[z].list /\ f.op = fr[z].op
    BY <1>0, <1>1
  <2>3. fr[z].list \in Ctxs => fr[z].list \in live
    BY <1>1, NsecOK DEF LiveOK
  <2>4. f.list \in Ctxs /\ f.op # "destroy" => uuid'[f.list] \notin Pseudo
    BY <2>1, <2>2, <2>3, NoneOK, PseudoOK DEF Nest, UuidKept
  <2>5. z[2] > 1 => Over(fr[z], fr[Under(z)]) /\ fr'[Under(z)] = fr[Under(z)]
    BY <1>1, <1>3, <2>1 DEF Nest
  <2>6. z[2] > 1 => Over(f, fr[Under(z)])
    BY <2>2, <2>5 DEF Over
  <2> QED
    BY <2>1, <2>2, <2>4, <2>5, <2>6 DEF Nest, Over, Under
<1>6. Nest(y)'
  <2>1. Over(g, f)
    BY DEF Over
  <2>2. g.list # Nsec
    BY NsecOK DEF LiveOK, TypeOK
  <2> QED
    BY <1>0, <2>1, <2>2 DEF Nest, Over, Under
<1> QED
  BY <1>0, <1>4, <1>5, <1>6 DEF Nested, Nest

-----------------------------------------------------------------------------
(* The reference counts                                                    *)

Users(s) == {p \in Places : fr[p].s = s /\ UsesSession(fr[p])}
Served(c) == {s \in Sessions : ts_ctx[s] = c}
Leaving(c) == {p \in Places : ClosesLast(fr[p], c)}

RefsExact == \A s \in Sessions : refs[s] = Cardinality(Users(s))
CountExact == \A c \in Ctxs : ref_count[c] = Cardinality(Served(c)) + Cardinality(Leaving(c))

LEMMA CountParts ==
    RefCountsExact <=> RefsExact /\ CountExact
<1>1. \A p \in Places : fr[p] = Call(p)
  BY DEF fr
<1>2. \A s : Users(s) = {p \in Places : Call(p).s = s /\ UsesSession(Call(p))}
  BY <1>1 DEF Users
<1>3. \A c : Leaving(c) = {p \in Places : ClosesLast(Call(p), c)}
  BY <1>1 DEF Leaving
<1> QED
  BY <1>2, <1>3 DEF RefCountsExact, RefsExact, CountExact, Served

LEMMA CardMore ==
    ASSUME NEW S, IsFiniteSet(S), NEW x, x \notin S, NEW T, T = S \cup {x}
    PROVE  IsFiniteSet(T) /\ Cardinality(T) = Cardinality(S) + 1 /\ Cardinality(S) \in Nat
BY FS_AddElement, FS_CardinalityType

LEMMA CardLess ==
    ASSUME NEW S, IsFiniteSet(S), NEW x, x \in S, NEW T, T = S \ {x}
    PROVE  /\ IsFiniteSet(T) /\ Cardinality(T) = Cardinality(S) - 1
           /\ Cardinality(S) \in Nat /\ Cardinality(S) > 0
<1>1. Cardinality(S) \in Nat /\ Cardinality(S) # 0
  BY FS_CardinalityType, FS_EmptySet
<1> QED
  BY <1>1, FS_RemoveElement

LEMMA SetsFinite ==
    ASSUME IsFiniteSet(Places)
    PROVE  /\ \A s : IsFiniteSet(Users(s)) /\ Cardinality(Users(s)) \in Nat
           /\ \A c : IsFiniteSet(Served(c)) /\ Cardinality(Served(c)) \in Nat
           /\ \A c : IsFiniteSet(Leaving(c)) /\ Cardinality(Leaving(c)) \in Nat
<1>1. ASSUME NEW s PROVE IsFiniteSet(Users(s))
  <2>1. Users(s) \in SUBSET Places
    BY DEF Users
  <2> QED
    BY <2>1, FS_Subset
<1>2. ASSUME NEW c PROVE IsFiniteSet(Served(c))
  <2>1. Served(c) \in SUBSET Sessions
    BY DEF Served
  <2> QED
    BY <2>1, FS_Subset, SetsOK
<1>3. ASSUME NEW c PROVE IsFiniteSet(Leaving(c))
  <2>1. Leaving(c) \in SUBSET Places
    BY DEF Leaving
  <2> QED
    BY <2>1, FS_Subset
<1> QED
  BY <1>1, <1>2, <1>3, FS_CardinalityType

\* What a step does to one place, whatever the step.
Changed(z) ==
    /\ Places \ {z} = Places' \ {z}
    /\ \A p \in Places \ {z} : fr'[p] = fr[p]

LEMMA ChangedFacts ==
    ASSUME NEW z
    PROVE  /\ \A g : Moved(z, g) => Changed(z) /\ z \in Places /\ z \in Places'
           /\ Gone(z) => Changed(z) /\ z \in Places /\ z \notin Places'
           /\ \A g : Came(z, g) => Changed(z) /\ z \notin Places /\ z \in Places'
BY DEF Moved, Gone, Came, Changed

UsesAt(p, r) == p \in Places /\ fr[p].s = r /\ UsesSession(fr[p])
LeavesAt(p, c) == p \in Places /\ ClosesLast(fr[p], c)

LEMMA ChangedUsers ==
    ASSUME NEW z, Changed(z), NEW r
    PROVE  /\ (UsesAt(z, r)' <=> UsesAt(z, r)) => Users(r)' = Users(r)
           /\ UsesAt(z, r)' /\ ~UsesAt(z, r) => Users(r)' = Users(r) \cup {z} /\ z \notin Users(r)
           /\ ~UsesAt(z, r)' /\ UsesAt(z, r) => Users(r)' = Users(r) \ {z} /\ z \in Users(r)
<1>1. \A p : p # z => (p \in Users(r)' <=> p \in Users(r))
  BY DEF Changed, Users, UsesSession
<1>2. z \in Users(r) <=> UsesAt(z, r)
  BY DEF Users, UsesAt
<1>3. z \in Users(r)' <=> UsesAt(z, r)'
  BY DEF Users, UsesAt
<1> QED
  BY <1>1, <1>2, <1>3

LEMMA ChangedLeaving ==
    ASSUME NEW z, Changed(z), NEW c
    PROVE  /\ (LeavesAt(z, c)' <=> LeavesAt(z, c)) => Leaving(c)' = Leaving(c)
           /\ LeavesAt(z, c)' /\ ~LeavesAt(z, c) => Leaving(c)' = Leaving(c) \cup {z} /\ z \notin Leaving(c)
           /\ ~LeavesAt(z, c)' /\ LeavesAt(z, c) => Leaving(c)' = Leaving(c) \ {z} /\ z \in Leaving(c)
<1>1. \A p : p # z => (p \in Leaving(c)' <=> p \in Leaving(c))
  BY DEF Changed, Leaving, ClosesLast
<1>2. z \in Leaving(c) <=> LeavesAt(z, c)
  BY DEF Leaving, LeavesAt
<1>3. z \in Leaving(c)' <=> LeavesAt(z, c)'
  BY DEF Leaving, LeavesAt
<1> QED
  BY <1>1, <1>2, <1>3

\* The users of the sessions: the same, one more, one less, or none any more.
LEMMA RefsKept ==
    ASSUME RefsExact, NEW z, Changed(z), refs' = refs,
           \A r \in Sessions : UsesAt(z, r)' <=> UsesAt(z, r)
    PROVE  RefsExact'
<1>1. \A r \in Sessions : Users(r)' = Users(r)
  BY ChangedUsers
<1> QED
  BY <1>1 DEF RefsExact

LEMMA RefsMore ==
    ASSUME RefsExact, IsFiniteSet(Places), refs \in [Sessions -> Nat], NEW z, Changed(z),
           NEW s \in Sessions, refs' = [refs EXCEPT ![s] = @ + 1],
           UsesAt(z, s)' /\ ~UsesAt(z, s),
           \A r \in Sessions \ {s} : UsesAt(z, r)' <=> UsesAt(z, r)
    PROVE  RefsExact'
<1>1. \A r \in Sessions \ {s} : Users(r)' = Users(r)
  BY ChangedUsers
<1>2. Users(s)' = Users(s) \cup {z} /\ z \notin Users(s)
  BY ChangedUsers
<1>3. Cardinality(Users(s)') = Cardinality(Users(s)) + 1
  BY <1>2, SetsFinite, CardMore
<1>4. ASSUME NEW r \in Sessions PROVE refs'[r] = Cardinality(Users(r)')
  BY <1>1, <1>3 DEF RefsExact
<1> QED
  BY <1>4 DEF RefsExact

LEMMA RefsLess ==
    ASSUME RefsExact, IsFiniteSet(Places), refs \in [Sessions -> Nat], NEW z, Changed(z),
           NEW s \in Sessions, refs' = [refs EXCEPT ![s] = @ - 1],
           UsesAt(z, s) /\ ~UsesAt(z, s)',
           \A r \in Sessions \ {s} : UsesAt(z, r)' <=> UsesAt(z, r)
    PROVE  RefsExact' /\ refs[s] > 0
<1>1. \A r \in Sessions \ {s} : Users(r)' = Users(r)
  BY ChangedUsers
<1>2. Users(s)' = Users(s) \ {z} /\ z \in Users(s)
  BY ChangedUsers
<1>3. Cardinality(Users(s)') = Cardinality(Users(s)) - 1 /\ Cardinality(Users(s)) > 0
  BY <1>2, SetsFinite, CardLess
<1>4. ASSUME NEW r \in Sessions PROVE refs'[r] = Cardinality(Users(r)')
  BY <1>1, <1>3 DEF RefsExact
<1> QED
  BY <1>3, <1>4 DEF RefsExact

\* A session has users exactly when its count says so.
LEMMA UserFacts ==
    ASSUME RefsExact, IsFiniteSet(Places), NEW s \in Sessions
    PROVE  /\ refs[s] \in Nat
           /\ refs[s] = 0 <=> \A p \in Places : ~UsesAt(p, s)
           /\ \A p \in Places : UsesAt(p, s) => refs[s] > 0
           /\ \A p \in Places : UsesAt(p, s) =>
                (refs[s] = 1 <=> \A q \in Places \ {p} : ~UsesAt(q, s))
<1>1. refs[s] = Cardinality(Users(s)) /\ IsFiniteSet(Users(s)) /\ refs[s] \in Nat
  BY SetsFinite DEF RefsExact
<1>2. \A p : p \in Users(s) <=> UsesAt(p, s)
  BY DEF Users, UsesAt
<1>3. refs[s] = 0 <=> Users(s) = {}
  BY <1>1, FS_EmptySet
<1>4. refs[s] = 1 <=> \E x : Users(s) = {x}
  BY <1>1, FS_Singleton
<1>5. \A p \in Places : UsesAt(p, s) =>
                (refs[s] = 1 <=> \A q \in Places \ {p} : ~UsesAt(q, s))
  <2> SUFFICES ASSUME NEW p \in Places, UsesAt(p, s)
               PROVE  (\E x : Users(s) = {x}) <=> \A q \in Places \ {p} : ~UsesAt(q, s)
    BY <1>4
  <2>1. p \in Users(s)
    BY <1>2
  <2>2. (\A q \in Places \ {p} : ~UsesAt(q, s)) => Users(s) = {p}
    BY <2>1, <1>2 DEF Users
  <2> QED
    BY <2>1, <2>2, <1>2
<1>6. Users(s) = {} <=> \A p \in Places : ~UsesAt(p, s)
  BY DEF Users, UsesAt
<1>7. \A p \in Places : UsesAt(p, s) => refs[s] # 0
  BY <1>3, <1>6
<1> QED
  BY <1>1, <1>3, <1>5, <1>6, <1>7

\* The sessions of the contexts.
LEMMA CountKept ==
    ASSUME CountExact, NEW z, Changed(z),
           \A c \in Ctxs : /\ LeavesAt(z, c)' <=> LeavesAt(z, c)
                           /\ ref_count'[c] = ref_count[c]
           , \A r \in Sessions : ts_ctx'[r] = ts_ctx[r]
    PROVE  CountExact'
<1>1. \A c \in Ctxs : Leaving(c)' = Leaving(c)
  BY ChangedLeaving
<1>2. \A c \in Ctxs : Served(c)' = Served(c)
  BY DEF Served
<1> QED
  BY <1>1, <1>2 DEF CountExact

LEMMA CountMore ==
    ASSUME CountExact, IsFiniteSet(Places), ref_count \in [Ctxs -> Nat], NEW z, Changed(z),
           NEW s \in Sessions, NEW c \in Ctxs, ts_ctx \in [Sessions -> Ctxs \cup {None}],
           ref_count' = [ref_count EXCEPT ![c] = @ + 1],
           ts_ctx' = [ts_ctx EXCEPT ![s] = c], ts_ctx[s] = None,
           \A d \in Ctxs : LeavesAt(z, d)' <=> LeavesAt(z, d)
    PROVE  CountExact'
<1>1. \A d \in Ctxs : Leaving(d)' = Leaving(d)
  BY ChangedLeaving
<1>2. \A d \in Ctxs \ {c} : Served(d)' = Served(d)
  BY NoneOK DEF Served
<1>3. Served(c)' = Served(c) \cup {s} /\ s \notin Served(c)
  BY NoneOK DEF Served
<1>4. Cardinality(Served(c)') = Cardinality(Served(c)) + 1
  BY <1>3, SetsFinite, CardMore
<1>5. ASSUME NEW d \in Ctxs PROVE ref_count'[d] = Cardinality(Served(d)') + Cardinality(Leaving(d)')
  <2>1. Cardinality(Served(d)) \in Nat /\ Cardinality(Leaving(d)) \in Nat
    BY SetsFinite
  <2> QED
    BY <1>1, <1>2, <1>4, <2>1 DEF CountExact
<1> QED
  BY <1>5 DEF CountExact

\* A session of context c goes, and the call at z has yet to drop its reference or not.
LEMMA CountFreed ==
    ASSUME CountExact, IsFiniteSet(Places), ref_count \in [Ctxs -> Nat], NEW z, Changed(z),
           NEW s \in Sessions, NEW c \in Ctxs, ts_ctx \in [Sessions -> Ctxs \cup {None}],
           ref_count' = [ref_count EXCEPT ![c] = @ - (IF LeavesAt(z, c)' THEN 0 ELSE 1)],
           ts_ctx' = [ts_ctx EXCEPT ![s] = None], ts_ctx[s] = c,
           ~LeavesAt(z, c), \A d \in Ctxs \ {c} : LeavesAt(z, d)' <=> LeavesAt(z, d)
    PROVE  CountExact'
<1>1. \A d \in Ctxs \ {c} : Leaving(d)' = Leaving(d) /\ Served(d)' = Served(d)
  BY ChangedLeaving, NoneOK DEF Served
<1>2. Served(c)' = Served(c) \ {s} /\ s \in Served(c)
  BY NoneOK DEF Served
<1>3. Cardinality(Served(c)') = Cardinality(Served(c)) - 1
  BY <1>2, SetsFinite, CardLess
<1>4. Cardinality(Leaving(c)') = Cardinality(Leaving(c)) + IF LeavesAt(z, c)' THEN 1 ELSE 0
  <2>1. CASE LeavesAt(z, c)'
    <3>1. Leaving(c)' = Leaving(c) \cup {z} /\ z \notin Leaving(c)
      BY <2>1, ChangedLeaving
    <3> QED
      BY <2>1, <3>1, SetsFinite, CardMore
  <2>2. CASE ~LeavesAt(z, c)'
    <3>1. Leaving(c)' = Leaving(c)
      BY <2>2, ChangedLeaving
    <3> QED
      BY <2>2, <3>1, SetsFinite
  <2> QED
    BY <2>1, <2>2
<1>5. ASSUME NEW d \in Ctxs PROVE ref_count'[d] = Cardinality(Served(d)') + Cardinality(Leaving(d)')
  <2>1. Cardinality(Served(d)) \in Nat /\ Cardinality(Leaving(d)) \in Nat
    BY SetsFinite
  <2> QED
    BY <1>1, <1>3, <1>4, <2>1 DEF CountExact
<1> QED
  BY <1>5 DEF CountExact

LEMMA CountLess ==
    ASSUME CountExact, IsFiniteSet(Places), ref_count \in [Ctxs -> Nat], NEW z, Changed(z),
           NEW c \in Ctxs, ts_ctx' = ts_ctx,
           ref_count' = [ref_count EXCEPT ![c] = IF @ = 0 THEN 0 ELSE @ - 1],
           LeavesAt(z, c) /\ ~LeavesAt(z, c)',
           \A d \in Ctxs \ {c} : LeavesAt(z, d)' <=> LeavesAt(z, d)
    PROVE  CountExact'
<1>1. \A d \in Ctxs \ {c} : Leaving(d)' = Leaving(d)
  BY ChangedLeaving
<1>2. \A d \in Ctxs : Served(d)' = Served(d)
  BY DEF Served
<1>3. Leaving(c)' = Leaving(c) \ {z} /\ z \in Leaving(c)
  BY ChangedLeaving
<1>4. Cardinality(Leaving(c)') = Cardinality(Leaving(c)) - 1 /\ Cardinality(Leaving(c)) > 0
  BY <1>3, SetsFinite, CardLess
<1>5. ASSUME NEW d \in Ctxs PROVE ref_count'[d] = Cardinality(Served(d)') + Cardinality(Leaving(d)')
  <2>1. Cardinality(Served(d)) \in Nat /\ Cardinality(Leaving(d)) \in Nat
    BY SetsFinite
  <2> QED
    BY <1>1, <1>2, <1>4, <2>1 DEF CountExact
<1> QED
  BY <1>5 DEF CountExact

\* What the count of a context says.
LEMMA CountFacts ==
    ASSUME CountExact, IsFiniteSet(Places), NEW c \in Ctxs
    PROVE  /\ ref_count[c] \in Nat
           /\ ref_count[c] = 0 <=> (\A s \in Sessions : ts_ctx[s] # c) /\ (\A p \in Places : ~LeavesAt(p, c))
           /\ ref_count[c] <= 1 =>
                /\ \A s, r \in Sessions : ts_ctx[s] = c /\ ts_ctx[r] = c => s = r
                /\ \A p, q \in Places : LeavesAt(p, c) /\ LeavesAt(q, c) => p = q
                /\ \A s \in Sessions, p \in Places : ~(ts_ctx[s] = c /\ LeavesAt(p, c))
<1>1. /\ ref_count[c] = Cardinality(Served(c)) + Cardinality(Leaving(c))
      /\ Cardinality(Served(c)) \in Nat /\ Cardinality(Leaving(c)) \in Nat
      /\ IsFiniteSet(Served(c)) /\ IsFiniteSet(Leaving(c))
  BY SetsFinite DEF CountExact
<1>2. (\A p \in Places : p \in Leaving(c) <=> LeavesAt(p, c)) /\ Leaving(c) \subseteq Places
  BY DEF Leaving, LeavesAt
<1>3. (\A s \in Sessions : s \in Served(c) <=> ts_ctx[s] = c) /\ Served(c) \subseteq Sessions
  BY DEF Served
<1>4. (Cardinality(Served(c)) = 0 <=> Served(c) = {}) /\ (Cardinality(Leaving(c)) = 0 <=> Leaving(c) = {})
  BY <1>1, FS_EmptySet
<1>5. /\ Cardinality(Served(c)) = 1 => \E x : Served(c) = {x}
      /\ Cardinality(Leaving(c)) = 1 => \E x : Leaving(c) = {x}
  BY <1>1, FS_Singleton
<1>6. ref_count[c] = 0 <=> (Served(c) = {} /\ Leaving(c) = {})
  BY <1>1, <1>4
<1>7. ASSUME ref_count[c] <= 1
      PROVE  \/ Served(c) = {} /\ Leaving(c) = {}
             \/ Served(c) = {} /\ \E x : Leaving(c) = {x}
             \/ Leaving(c) = {} /\ \E x : Served(c) = {x}
  BY <1>1, <1>4, <1>5, <1>7
<1>8. ref_count[c] \in Nat
  BY <1>1
<1> QED
  BY <1>2, <1>3, <1>6, <1>7, <1>8

-----------------------------------------------------------------------------
(* The list of contexts                                                    *)

\* Every set of numbers that is not empty has a least one.
LEMMA Least ==
    ASSUME NEW S, S \subseteq Nat, S # {}
    PROVE  \E n \in S : \A m \in S : n <= m
<1> DEFINE R == OpToRel(<, Nat)
<1>1. PICK n \in S : \A m \in S : ~(<<m, n>> \in R)
  <2> HIDE DEF R
  <2>1. IsWellFoundedOn(R, Nat)
    BY NatLessThanWellFounded, Zenon DEF R
  <2> QED
    BY <2>1, WFMin, Zenon
<1>2. \A m \in Nat : n \in Nat /\ m < n => <<m, n>> \in R
  BY DEF OpToRel
<1> HIDE DEF R
<1>3. \A m \in S : m \in Nat /\ n \in Nat /\ ~(m < n)
  BY <1>1, <1>2, Zenon
<1>4. \A m \in S : n <= m
  BY <1>3
<1> QED
  BY <1>4

\* What RemoveAt() leaves of a list.
LEMMA RemoveSeq ==
    ASSUME NEW S, NEW q \in Seq(S), NEW i \in 1 .. Len(q)
    PROVE  /\ RemoveAt(q, i) \in Seq(S)
           /\ Len(RemoveAt(q, i)) = Len(q) - 1
           /\ \A j \in 1 .. Len(q) - 1 :
                 RemoveAt(q, i)[j] = IF j < i THEN q[j] ELSE q[j + 1]
<1> DEFINE a == SubSeq(q, 1, i - 1)
           b == SubSeq(q, i + 1, Len(q))
<1>1. Len(q) \in Nat /\ \A j \in 1 .. Len(q) : q[j] \in S
  OBVIOUS
<1>2. a \in Seq(S) /\ Len(a) = i - 1 /\ \A j \in 1 .. i - 1 : a[j] = q[j]
  BY <1>1, SubSeqProperties
<1>3. /\ b \in Seq(S) /\ Len(b) = Len(q) - i
      /\ \A j \in 1 .. Len(q) - i : b[j] = q[i + j]
  BY <1>1, SubSeqProperties
<1>4. RemoveAt(q, i) = a \o b
  BY DEF RemoveAt
<1> HIDE DEF a, b
<1>5. /\ a \o b \in Seq(S) /\ Len(a \o b) = Len(a) + Len(b)
      /\ \A j \in 1 .. Len(a) + Len(b) :
            (a \o b)[j] = IF j <= Len(a) THEN a[j] ELSE b[j - Len(a)]
  BY <1>2, <1>3, ConcatProperties
<1>6. ASSUME NEW j \in 1 .. Len(q) - 1
      PROVE  RemoveAt(q, i)[j] = IF j < i THEN q[j] ELSE q[j + 1]
  <2>0. (a \o b)[j] = IF j <= i - 1 THEN a[j] ELSE b[j - (i - 1)]
    BY <1>1, <1>2, <1>3, <1>5
  <2>1. CASE j < i
    BY <1>1, <1>2, <1>4, <2>0, <2>1
  <2>2. CASE ~(j < i)
    <3>1. j - (i - 1) \in 1 .. Len(q) - i
      BY <1>1, <2>2
    <3>2. b[j - (i - 1)] = q[i + (j - (i - 1))]
      BY <1>3, <3>1
    <3>3. i + (j - (i - 1)) = j + 1
      BY <1>1
    <3>4. (a \o b)[j] = b[j - (i - 1)]
      BY <1>1, <2>0, <2>2
    <3> QED
      BY <1>4, <2>2, <3>2, <3>3, <3>4
  <2> QED
    BY <2>1, <2>2
<1> QED
  BY <1>1, <1>2, <1>3, <1>4, <1>5, <1>6

\* Taking an element off a list without repetitions.
LEMMA RemoveFirstFacts ==
    ASSUME NEW S, NEW q \in Seq(S), NEW e,
           \A i, j \in DOMAIN q : q[i] = q[j] => i = j
    PROVE  /\ RemoveFirst(q, e) \in Seq(S)
           /\ Range(RemoveFirst(q, e)) = Range(q) \ {e}
           /\ \A i, j \in DOMAIN RemoveFirst(q, e) :
                RemoveFirst(q, e)[i] = RemoveFirst(q, e)[j] => i = j
<1>1. DOMAIN q = 1 .. Len(q) /\ Len(q) \in Nat
  OBVIOUS
<1>2. CASE \A i \in 1 .. Len(q) : q[i] # e
  <2>1. RemoveFirst(q, e) = q
    BY <1>2 DEF RemoveFirst
  <2>2. Range(q) = Range(q) \ {e}
    BY <1>1, <1>2 DEF Range
  <2> QED
    BY <2>1, <2>2
<1>3. CASE \E i \in 1 .. Len(q) : q[i] = e
  <2>1. PICK k \in 1 .. Len(q) : q[k] = e
    BY <1>3
  <2>2. {i \in 1 .. Len(q) : q[i] = e} = {k}
    BY <1>1, <2>1
  <2>3. Min({k}) = k
    BY DEF Min
  <2>4. RemoveFirst(q, e) = RemoveAt(q, k)
    BY <1>3, <2>2, <2>3 DEF RemoveFirst, SelectInSeq
  <2>5. PICK r : r = RemoveAt(q, k)
    OBVIOUS
  <2>6. /\ r \in Seq(S) /\ Len(r) = Len(q) - 1
        /\ \A j \in 1 .. Len(q) - 1 : r[j] = IF j < k THEN q[j] ELSE q[j + 1]
    BY <2>5, RemoveSeq
  <2>7. DOMAIN r = 1 .. Len(q) - 1
    BY <2>6
  <2>8. \A i, j \in DOMAIN r : r[i] = r[j] => i = j
    <3> SUFFICES ASSUME NEW i \in 1 .. Len(q) - 1, NEW j \in 1 .. Len(q) - 1, r[i] = r[j]
                 PROVE  i = j
      BY <2>7
    <3>1. PICK a \in 1 .. Len(q) : r[i] = q[a] /\ a = IF i < k THEN i ELSE i + 1
      BY <1>1, <2>1, <2>6
    <3>2. PICK b \in 1 .. Len(q) : r[j] = q[b] /\ b = IF j < k THEN j ELSE j + 1
      BY <1>1, <2>1, <2>6
    <3>3. a = b
      BY <1>1, <3>1, <3>2
    <3> QED
      BY <1>1, <2>1, <3>1, <3>2, <3>3
  <2>9. ASSUME NEW x PROVE x \in Range(r) <=> x \in Range(q) \ {e}
    <3>1. ASSUME NEW i \in 1 .. Len(q) - 1, x = r[i]
          PROVE  x \in Range(q) /\ x # e
      <4>1. PICK j \in 1 .. Len(q) : j # k /\ x = q[j]
        BY <1>1, <2>1, <2>6, <3>1
      <4> QED
        BY <1>1, <2>1, <4>1 DEF Range
    <3>2. ASSUME NEW j \in 1 .. Len(q), x = q[j], x # e
          PROVE  x \in Range(r)
      <4>1. j # k
        BY <2>1, <3>2
      <4>2. PICK i \in 1 .. Len(q) - 1 : r[i] = x
        <5>1. CASE j < k
          BY <1>1, <2>6, <3>2, <5>1
        <5>2. CASE j > k
          <6>1. j - 1 \in 1 .. Len(q) - 1 /\ ~(j - 1 < k) /\ j - 1 + 1 = j
            BY <1>1, <5>2
          <6> QED
            BY <2>6, <3>2, <6>1
        <5> QED
          BY <4>1, <5>1, <5>2
      <4> QED
        BY <2>7, <4>2 DEF Range
    <3> QED
      BY <1>1, <2>7, <3>1, <3>2 DEF Range
  <2> QED
    BY <2>4, <2>5, <2>6, <2>8, <2>9
<1> QED
  BY <1>2, <1>3

\* tee_ta_context_find() finds a registered context of the TA if there is one.
LEMMA FoundFacts ==
    ASSUME TypeOK, NEW u \in Uuids
    PROVE  /\ Found(u) = None => \A c \in Range(tee_ctxes) : uuid[c] # u
           /\ Found(u) # None => Found(u) \in Range(tee_ctxes) /\ uuid[Found(u)] = u /\ Found(u) \in Ctxs
<1>1. tee_ctxes \in Seq(Ctxs) /\ DOMAIN tee_ctxes = 1 .. Len(tee_ctxes) /\ Len(tee_ctxes) \in Nat
      /\ \A i \in 1 .. Len(tee_ctxes) : tee_ctxes[i] \in Ctxs
  BY DEF TypeOK
<1>2. CASE Registered(u) = {}
  <2>1. Found(u) = None
    BY <1>2 DEF Found
  <2>2. \A i \in 1 .. Len(tee_ctxes) : uuid[tee_ctxes[i]] # u
    BY <1>2 DEF Registered
  <2> QED
    BY <1>1, <2>1, <2>2 DEF Range
<1>3. CASE Registered(u) # {}
  <2>1. Registered(u) \subseteq Nat
    BY <1>1 DEF Registered
  <2>2. PICK n \in Registered(u) : \A m \in Registered(u) : n <= m
    BY <1>3, <2>1, Least
  <2>3. Min(Registered(u)) \in Registered(u)
    BY <2>2 DEF Min
  <2>4. PICK k : k = Min(Registered(u))
    OBVIOUS
  <2>5. k \in 1 .. Len(tee_ctxes) /\ uuid[tee_ctxes[k]] = u /\ Found(u) = tee_ctxes[k]
    BY <1>3, <2>3, <2>4 DEF Registered, Found
  <2> QED
    BY <1>1, <2>5, NoneOK DEF Range
<1> QED
  BY <1>2, <1>3

-----------------------------------------------------------------------------
(* What the invariant says of a state                                      *)

LEMMA InvFacts ==
    ASSUME IInv
    PROVE  /\ RefsExact /\ CountExact
           /\ SessionOK /\ UniqueOK /\ KnownOK /\ UnlinkOK /\ OpenOK /\ LockOK
           /\ SessionTypes /\ HasSession
           /\ \A p \in Places : fr[p] \in Frame /\ Shape(fr[p])
BY CountParts, SessionFacts, FrFacts DEF IInv, SessionInv, Shapes

\* A call that is on a context has a reference to it, unless it destroys it.
LEMMA Referenced ==
    ASSUME IInv, NEW p \in Places, fr[p].c # None, ~Dying(fr[p])
    PROVE  fr[p].c \in Ctxs /\ ref_count[fr[p].c] > 0
<1>1. ASSUME NEW q \in Places, fr[q].c # None, ~Dying(fr[q]), fr[q].op # "release"
      PROVE  fr[q].c \in Ctxs /\ ref_count[fr[q].c] > 0
  <2>1. fr[q] \in Frame /\ Shape(fr[q]) /\ SessionOK /\ HasSession
    BY InvFacts
  <2>2. fr[q].c \in Ctxs
    BY <1>1, <2>1 DEF Frame
  <2>3. \/ UsesSession(fr[q]) \/ Closer(fr[q])
        \/ LeavesAt(q, fr[q].c)
    BY <1>1, <2>1 DEF Frame, Shape, UsesSession, Closer, LeavesAt, ClosesLast, Dying
  <2>4. UsesSession(fr[q]) \/ Closer(fr[q]) => fr[q].s \in Sessions /\ ts_ctx[fr[q].s] = fr[q].c
    BY <1>1, <2>1 DEF SessionOK, HasSession
  <2>5. ref_count[fr[q].c] # 0 /\ ref_count[fr[q].c] \in Nat
    BY <2>2, <2>3, <2>4, CountFacts, InvFacts DEF IInv
  <2> QED
    BY <2>2, <2>5
<1>2. CASE fr[p].op # "release"
  BY <1>1, <1>2
<1>3. CASE fr[p].op = "release"
  <2>1. fr[p] \in Frame /\ Shape(fr[p])
    BY InvFacts
  <2>2. fr[p].list = fr[p].c /\ fr[p].list # Nsec
    BY <1>3, <2>1, NsecOK DEF Shape, Frame
  <2>3. p[2] > 1
    BY <1>3, <2>2, FrFacts DEF Nested, IInv
  <2>4. Under(p) \in Places /\ Over(fr[p], fr[Under(p)])
    BY <2>3, UnderFacts DEF Nested, IInv
  <2>5. fr[Under(p)].pc = "clear" /\ fr[Under(p)].op # "close" /\ fr[Under(p)].c = fr[p].c
    BY <1>3, <2>2, <2>4 DEF Over
  <2>6. Shape(fr[Under(p)])
    BY <2>4, InvFacts
  <2>7. ~Dying(fr[Under(p)]) /\ fr[Under(p)].op # "release"
    BY <2>5, <2>6 DEF Shape, Dying
  <2> QED
    BY <1>1, <2>4, <2>5, <2>7
<1> QED
  BY <1>2, <1>3

\* A call that destroys a context is the only one on it.
LEMMA DyingAlone ==
    ASSUME IInv, NEW p \in Places, Dying(fr[p]), NEW q \in Places, q # p
    PROVE  fr[q].c # fr[p].c
<1>1. ref_count[fr[p].c] = 0 /\ (Dying(fr[q]) => fr[q].c # fr[p].c)
  BY DEF IInv, DyingOK
<1>2. fr[p].c # None
  BY InvFacts DEF Dying, Shape, Frame
<1> QED
  BY <1>1, <1>2, Referenced

\* The calls made by a TA, or when it goes away, are over a call that is on it.
LEMMA CallerUnder ==
    ASSUME IInv, NEW q \in Places, fr[q].op \notin {"release", "destroy"}, fr[q].list # Nsec
    PROVE  /\ Under(q) \in Places /\ fr[Under(q)].c = fr[q].list
           /\ fr[Under(q)].pc \in {"run", "loop"} /\ uuid[fr[q].list] \notin Pseudo
           /\ fr[q].list \in Ctxs /\ q[2] > 1
<1>1. fr[q] \in Frame /\ Shape(fr[q])
  BY InvFacts
<1>2. fr[q].list \in Ctxs
  BY <1>1 DEF Frame, Shape
<1>3. q[2] > 1
  BY FrFacts DEF Nested, IInv
<1>4. Under(q) \in Places /\ Over(fr[q], fr[Under(q)])
  BY <1>3, UnderFacts DEF Nested, IInv
<1> QED
  BY <1>2, <1>3, <1>4 DEF Over, Nested, IInv

\* A user TA makes one call at a time.
LEMMA CallsOne ==
    ASSUME IInv, NEW p \in Places, NEW q \in Places, fr[p].c = fr[q].c, fr[p].c \in Ctxs,
           uuid[fr[p].c] \notin Pseudo, fr[p].pc \in {"run", "loop"}, fr[q].pc \in {"run", "loop"}
    PROVE  p = q
<1> DEFINE c == fr[p].c
<1>1. Shape(fr[p]) /\ Shape(fr[q]) /\ fr[p] \in Frame /\ fr[q] \in Frame
  BY InvFacts
<1>2. c \in live /\ ~Concurrent(c)
  BY NoneOK, PseudoOK DEF IInv, LiveOK, Concurrent, HasFlag
<1>3. \A x, y \in Places : Inside(fr[x], c) /\ Inside(fr[y], c) => x = y
  BY <1>2 DEF IInv, InsideOK
<1>4. CASE fr[p].op = "destroy" \/ fr[q].op = "destroy"
  BY <1>4, DyingAlone DEF Dying
<1>5. ASSUME NEW x \in Places, fr[x].c = c, fr[x].op = "release"
      PROVE  x[2] > 1 /\ Under(x) \in Places /\ Inside(fr[Under(x)], c) /\ fr[Under(x)].pc = "clear"
  <2>1. fr[x].list = c /\ c # Nsec
    BY <1>2, <1>5, InvFacts, NsecOK DEF Shape
  <2>2. x[2] > 1
    BY <1>5, <2>1, FrFacts DEF Nested, IInv
  <2>3. Under(x) \in Places /\ Over(fr[x], fr[Under(x)])
    BY <2>2, UnderFacts DEF Nested, IInv
  <2>4. fr[Under(x)].pc = "clear" /\ fr[Under(x)].c = c
    BY <1>5, <2>1, <2>3 DEF Over
  <2> QED
    BY <2>2, <2>3, <2>4 DEF Inside
<1>6. ASSUME NEW x \in Places, fr[x].c = c, fr[x].pc = "run" PROVE Inside(fr[x], c)
  BY <1>6 DEF Inside
<1>7. \A x \in {p, q} : fr[x].pc = "loop" => fr[x].op \in {"release", "destroy"}
  BY <1>1 DEF Shape, Frame
<1> HIDE DEF c
<1>8. CASE fr[p].op = "release" /\ fr[q].op = "release"
  <2>1. Under(p) = Under(q)
    BY <1>3, <1>5, <1>8 DEF c
  <2> QED
    BY <2>1, UnderFacts DEF IInv
<1>9. CASE fr[p].op = "release" /\ fr[q].pc = "run"
  BY <1>3, <1>5, <1>6, <1>9 DEF c
<1>10. CASE fr[q].op = "release" /\ fr[p].pc = "run"
  BY <1>3, <1>5, <1>6, <1>10 DEF c
<1>11. CASE fr[p].pc = "run" /\ fr[q].pc = "run"
  BY <1>3, <1>6, <1>11 DEF c
<1> QED
  BY <1>4, <1>7, <1>8, <1>9, <1>10, <1>11

LEMMA OneCaller ==
    ASSUME IInv, NEW p \in Places, NEW q \in Places, fr[p].list = fr[q].list, fr[p].list # Nsec,
           fr[p].op \notin {"release", "destroy"}, fr[q].op \notin {"release", "destroy"}
    PROVE  p = q
<1>1. Under(p) = Under(q)
  <2>1. /\ Under(p) \in Places /\ fr[Under(p)].c = fr[p].list /\ fr[Under(p)].pc \in {"run", "loop"}
        /\ uuid[fr[p].list] \notin Pseudo /\ fr[p].list \in Ctxs
    BY CallerUnder
  <2>2. Under(q) \in Places /\ fr[Under(q)].c = fr[q].list /\ fr[Under(q)].pc \in {"run", "loop"}
    BY CallerUnder
  <2> QED
    BY <2>1, <2>2, CallsOne
<1> QED
  BY <1>1, UnderFacts DEF IInv

\* While a TA runs or its sessions are closed, it has no other call in progress.
LEMMA NoCallsFrom ==
    ASSUME IInv, NEW t \in Threads, stack[t] # <<>>, Top(t).pc \in {"run", "loop"},
           NEW q \in Places, fr[q].op \notin {"release", "destroy"}, fr[q].list # Nsec
    PROVE  fr[q].list # Top(t).c
<1>1. TopAt(t) \in Places /\ fr[TopAt(t)] = Top(t) /\ Under(q) # TopAt(t)
  BY TopFacts DEF IInv
<1>2. /\ Under(q) \in Places /\ fr[Under(q)].c = fr[q].list /\ fr[Under(q)].pc \in {"run", "loop"}
      /\ uuid[fr[q].list] \notin Pseudo /\ fr[q].list \in Ctxs
  BY CallerUnder
<1> QED
  BY <1>1, <1>2, CallsOne

\* tee_ta_try_get_session_lock() never finds its own thread the owner of the lock.
LEMMA NotMine ==
    ASSUME IInv, NEW t \in Threads, stack[t] # <<>>, Top(t).pc = "get",
           owner[Top(t).s] = Top(t).list
    PROVE  lock_thread[Top(t).s] # t
<1> SUFFICES ASSUME lock_thread[Top(t).s] = t PROVE FALSE
  OBVIOUS
<1> DEFINE z == TopAt(t)
<1>1. z \in Places /\ fr[z] = Top(t) /\ z[1] = t /\ z[2] = Len(stack[t])
  BY TopFacts DEF IInv
<1>2. Shape(fr[z]) /\ fr[z] \in Frame
  BY <1>1, InvFacts
<1>3. fr[z].s \in Sessions /\ fr[z].op \notin {"release", "destroy"}
  BY <1>1, <1>2 DEF Shape, Frame
<1> HIDE DEF z
<1>4. PICK q \in Places : q[1] = t /\ fr[q].s = fr[z].s /\ Holder(fr[q])
  BY <1>1, <1>3, InvFacts, NoneOK DEF LockOK
<1>5. q # z
  BY <1>1, <1>4 DEF Holder, UsesSession
<1>6. owner[fr[q].s] = fr[q].list /\ fr[q].op \notin {"release", "destroy"}
  BY <1>4, InvFacts DEF SessionOK, Holder
<1>7. fr[q].list = fr[z].list
  BY <1>1, <1>4, <1>6
<1>8. CASE fr[z].list = Nsec
  <2>1. q[2] = 1 /\ z[2] = 1
    BY <1>1, <1>7, <1>8 DEF Nested, IInv
  <2> QED
    BY <1>1, <1>4, <1>5, <2>1, FrFacts DEF IInv
<1>9. CASE fr[z].list # Nsec
  BY <1>1, <1>3, <1>5, <1>6, <1>7, <1>9, OneCaller
<1> QED
  BY <1>8, <1>9

-----------------------------------------------------------------------------
(* What the steps do to the contexts                                       *)

ChangedIn(Z) ==
    /\ Places \ Z = Places' \ Z
    /\ \A p \in Places \ Z : fr'[p] = fr[p]

LEMMA ChangedOne ==
    ASSUME NEW z
    PROVE  /\ Changed(z) => ChangedIn({z})
           /\ \A f, y, g : Grown(z, f, y, g) => ChangedIn({z, y})
BY DEF Changed, ChangedIn, Grown

LEMMA LiveStep ==
    ASSUME LiveOK, TypeOK, NEW Z, ChangedIn(Z),
           \A z \in Z : z \in Places' =>
              (fr'[z]).c \in live' \cup {None} /\ (fr'[z]).list \in live' \cup {Nsec},
           live \subseteq live', \A d \in live : uuid'[d] = uuid[d],
           \A d \in live' : uuid'[d] \in Uuids, live' \subseteq Ctxs,
           \A s \in Sessions : \/ owner'[s] \in {owner[s], None, Nsec}
                               \/ owner'[s] \in live /\ uuid[owner'[s]] \notin Pseudo,
           \A s \in Sessions : ts_ctx'[s] \in {ts_ctx[s], None} \cup live',
           busy' \subseteq busy \cup live', is_initializing' \subseteq is_initializing \cup live',
           is_releasing' \subseteq is_releasing \cup live', panicked' \subseteq panicked \cup live',
           released' \subseteq released \cup live',
           \A d \in Ctxs \ live' : ref_count'[d] = ref_count[d]
    PROVE  LiveOK'
<1>1. ASSUME NEW p \in Places'
      PROVE  (fr[p].c # None => fr[p].c \in live)' /\ (fr[p].list \in live \cup {Nsec})'
  BY DEF ChangedIn, LiveOK
<1>2. ASSUME NEW s \in Sessions
      PROVE  owner'[s] \in live' \cup {Nsec, None} /\ ts_ctx'[s] \in live' \cup {None}
  BY DEF LiveOK
<1>3. ASSUME NEW s \in Sessions, owner'[s] \in Ctxs
      PROVE  uuid'[owner'[s]] \notin Pseudo
  BY <1>3, NoneOK, NsecOK DEF LiveOK
<1>4. ASSUME NEW c \in Ctxs \ live'
      PROVE  /\ c \notin busy' \cup is_initializing' \cup is_releasing' \cup panicked' \cup released'
             /\ ref_count'[c] = 0
  BY DEF LiveOK
<1> QED
  BY <1>1, <1>2, <1>3, <1>4 DEF LiveOK

\* Context c is freed.
LEMMA LiveLess ==
    ASSUME LiveOK, TypeOK, NEW Z, ChangedIn(Z), NEW c \in Ctxs,
           \A p \in Places' : (fr'[p]).c # c /\ (fr'[p]).list # c,
           \A z \in Z : z \in Places' =>
              (fr'[z]).c \in live \cup {None} /\ (fr'[z]).list \in live \cup {Nsec},
           live' = live \ {c}, \A d \in live \ {c} : uuid'[d] = uuid[d],
           \A s \in Sessions : owner'[s] = owner[s] /\ owner[s] # c,
           \A s \in Sessions : ts_ctx'[s] \in {ts_ctx[s], None} /\ ts_ctx'[s] # c,
           busy' \subseteq busy \ {c}, is_initializing' \subseteq is_initializing \ {c},
           is_releasing' \subseteq is_releasing \ {c}, panicked' \subseteq panicked \ {c},
           released' \subseteq released \ {c},
           \A d \in Ctxs \ {c} : ref_count'[d] = ref_count[d], ref_count'[c] = 0
    PROVE  LiveOK'
<1>1. ASSUME NEW p \in Places'
      PROVE  (fr[p].c # None => fr[p].c \in live)' /\ (fr[p].list \in live \cup {Nsec})'
  BY DEF ChangedIn, LiveOK
<1>2. ASSUME NEW s \in Sessions
      PROVE  owner'[s] \in live' \cup {Nsec, None} /\ ts_ctx'[s] \in live' \cup {None}
  BY DEF LiveOK
<1>3. ASSUME NEW s \in Sessions, owner'[s] \in Ctxs
      PROVE  uuid'[owner'[s]] \notin Pseudo
  BY <1>3, NoneOK, NsecOK DEF LiveOK
<1>4. ASSUME NEW d \in Ctxs \ live'
      PROVE  /\ d \notin busy' \cup is_initializing' \cup is_releasing' \cup panicked' \cup released'
             /\ ref_count'[d] = 0
  BY DEF LiveOK
<1>5. \A d \in live' : uuid'[d] \in Uuids
  BY DEF LiveOK
<1> QED
  BY <1>1, <1>2, <1>3, <1>4, <1>5 DEF LiveOK

LEMMA ListKept ==
    ASSUME ListOK, tee_ctxes' = tee_ctxes, live' \ is_releasing' = live \ is_releasing
    PROVE  ListOK'
BY DEF ListOK

LEMMA ListMore ==
    ASSUME ListOK, TypeOK, NEW c \in Ctxs, c \notin live, tee_ctxes' = Append(tee_ctxes, c),
           live' = live \cup {c}, is_releasing' = is_releasing, c \notin is_releasing
    PROVE  ListOK'
<1>1. tee_ctxes \in Seq(Ctxs) /\ DOMAIN tee_ctxes = 1 .. Len(tee_ctxes) /\ Len(tee_ctxes) \in Nat
  BY DEF TypeOK
<1>2. /\ DOMAIN tee_ctxes' = 1 .. Len(tee_ctxes) + 1 /\ tee_ctxes'[Len(tee_ctxes) + 1] = c
      /\ \A i \in 1 .. Len(tee_ctxes) : tee_ctxes'[i] = tee_ctxes[i]
  BY <1>1, AppendProperties
<1>3. \A i \in 1 .. Len(tee_ctxes) : tee_ctxes[i] # c
  BY <1>1 DEF ListOK, Range
<1>4. \A i, j \in DOMAIN tee_ctxes' : tee_ctxes'[i] = tee_ctxes'[j] => i = j
  BY <1>1, <1>2, <1>3 DEF ListOK
<1>5. Range(tee_ctxes)' = Range(tee_ctxes) \cup {c}
  BY <1>1, <1>2 DEF Range
<1> QED
  BY <1>4, <1>5 DEF ListOK

LEMMA ListLess ==
    ASSUME ListOK, TypeOK, NEW c, tee_ctxes' = RemoveFirst(tee_ctxes, c),
           live' \ is_releasing' = (live \ is_releasing) \ {c}
    PROVE  ListOK'
<1>1. /\ Range(RemoveFirst(tee_ctxes, c)) = Range(tee_ctxes) \ {c}
      /\ \A i, j \in DOMAIN RemoveFirst(tee_ctxes, c) :
           RemoveFirst(tee_ctxes, c)[i] = RemoveFirst(tee_ctxes, c)[j] => i = j
  BY RemoveFirstFacts DEF TypeOK, ListOK
<1> QED
  BY <1>1 DEF ListOK

LEMMA ListFacts ==
    ASSUME ListOK, TypeOK
    PROVE  \A c : Contains(tee_ctxes, c) <=> c \in live \ is_releasing
<1>1. DOMAIN tee_ctxes = 1 .. Len(tee_ctxes)
  BY DEF TypeOK
<1> QED
  BY <1>1 DEF Contains, ListOK, Range

LEMMA ListFactsNext ==
    ASSUME ListOK', TypeOK'
    PROVE  \A c : Contains(tee_ctxes, c)' <=> c \in live' \ is_releasing'
<1>1. DOMAIN tee_ctxes' = 1 .. Len(tee_ctxes')
  BY DEF TypeOK
<1> QED
  BY <1>1 DEF Contains, ListOK, Range

\* The contexts that are being loaded.
LEMMA InitKept ==
    ASSUME InitOK, NEW Z, ChangedIn(Z), is_initializing' = is_initializing,
           \A z \in Z : /\ z \in Places => fr[z].pc # "load"
                        /\ z \in Places' => (fr'[z]).pc # "load" /\ (fr'[z]).c \notin is_initializing,
           busy' \cap is_initializing \subseteq busy,
           is_releasing' \cap is_initializing \subseteq is_releasing,
           panicked' \cap is_initializing \subseteq panicked,
           released' \cap is_initializing \subseteq released,
           \A s \in Sessions : owner'[s] = owner[s] \/ owner'[s] \notin is_initializing,
           \A s \in Sessions : ts_ctx'[s] = ts_ctx[s] \/ ts_ctx'[s] \notin is_initializing
    PROVE  InitOK'
<1>1. ASSUME NEW c \in is_initializing
      PROVE  (\E p \in Places : fr[p].c = c /\ fr[p].pc = "load")'
  <2>1. PICK p \in Places : fr[p].c = c /\ fr[p].pc = "load"
    BY DEF InitOK
  <2>2. p \notin Z /\ p \in Places' /\ fr'[p] = fr[p]
    BY <2>1 DEF ChangedIn
  <2> QED
    BY <2>1, <2>2
<1>2. ASSUME NEW p \in Places', (fr[p].pc = "load")'
      PROVE  LET c == (fr'[p]).c IN
             /\ c \in is_initializing'
             /\ c \notin busy' \cup is_releasing' \cup panicked' \cup released'
             /\ \A q \in Places' \ {p} : (fr'[q]).c # c
             /\ \A s \in Sessions : owner'[s] # c /\ (ts_ctx'[s] = c => s = (fr'[p]).s)
  <2>1. p \in Places /\ fr'[p] = fr[p]
    BY <1>2 DEF ChangedIn
  <2>2. PICK c : c = fr[p].c
    OBVIOUS
  <2>3. /\ c \in is_initializing
        /\ c \notin busy \cup is_releasing \cup panicked \cup released
        /\ \A q \in Places \ {p} : fr[q].c # c
        /\ \A s \in Sessions : owner[s] # c /\ (ts_ctx[s] = c => s = fr[p].s)
    BY <1>2, <2>1, <2>2 DEF InitOK
  <2>4. ASSUME NEW q \in Places' \ {p} PROVE (fr'[q]).c # c
    BY <2>3 DEF ChangedIn
  <2>5. c \notin busy' \cup is_releasing' \cup panicked' \cup released'
    BY <2>3
  <2>6. \A s \in Sessions : owner'[s] # c /\ (ts_ctx'[s] = c => s = (fr'[p]).s)
    BY <2>1, <2>3
  <2> QED
    BY <2>1, <2>2, <2>3, <2>4, <2>5, <2>6
<1> QED
  BY <1>1, <1>2 DEF InitOK

\* Whatever goes on, a context that is being loaded is nobody else's.
LEMMA NotLoading ==
    ASSUME InitOK, NEW p \in Places, fr[p].pc # "load"
    PROVE  fr[p].c \notin is_initializing
BY DEF InitOK

LEMMA InitMore ==
    ASSUME InitOK, LiveOK, TypeOK, NEW z, NEW g, Moved(z, g), NEW c \in Ctxs \ live, NEW s \in Sessions,
           fr[z].pc # "load", g.pc = "load", g.c = c, g.s = s,
           is_initializing' = is_initializing \cup {c},
           UNCHANGED <<busy, is_releasing, panicked, released>>,
           \A r \in Sessions : owner'[r] = owner[r] \/ owner'[r] \in ({Nsec} \cup live) \ is_initializing,
           ts_ctx' = [ts_ctx EXCEPT ![s] = c]
    PROVE  InitOK'
<1>0. /\ c \notin busy \cup is_initializing \cup is_releasing \cup panicked \cup released
      /\ \A p \in Places : fr[p].c # c
      /\ \A r \in Sessions : owner[r] # c /\ ts_ctx[r] # c
  BY NoneOK, NsecOK DEF LiveOK
<1>m. z \in Places /\ Places' = Places /\ fr'[z] = g /\ \A p \in Places \ {z} : fr'[p] = fr[p]
  BY DEF Moved
<1>1. ASSUME NEW d \in is_initializing'
      PROVE  (\E p \in Places : fr[p].c = d /\ fr[p].pc = "load")'
  <2>1. CASE d = c
    BY <1>m, <2>1
  <2>2. CASE d \in is_initializing
    <3>1. PICK p \in Places : fr[p].c = d /\ fr[p].pc = "load"
      BY <2>2 DEF InitOK
    <3>2. p # z /\ fr'[p] = fr[p]
      BY <1>m, <3>1
    <3> QED
      BY <1>m, <3>1, <3>2
  <2> QED
    BY <2>1, <2>2
<1>2. ASSUME NEW p \in Places', (fr[p].pc = "load")'
      PROVE  LET d == (fr'[p]).c IN
             /\ d \in is_initializing'
             /\ d \notin busy' \cup is_releasing' \cup panicked' \cup released'
             /\ \A q \in Places' \ {p} : (fr'[q]).c # d
             /\ \A r \in Sessions : owner'[r] # d /\ (ts_ctx'[r] = d => r = (fr'[p]).s)
  <2>1. CASE p = z
    <3>1. \A r \in Sessions : owner'[r] # c
      BY <1>0, NsecOK
    <3>2. \A r \in Sessions : ts_ctx'[r] = c => r = s
      BY <1>0 DEF TypeOK
    <3> QED
      BY <1>0, <1>m, <2>1, <3>1, <3>2
  <2>2. CASE p # z
    <3>1. PICK d : d = fr[p].c
      OBVIOUS
    <3>2. p \in Places /\ fr'[p] = fr[p] /\ fr[p].pc = "load"
      BY <1>m, <1>2, <2>2
    <3>3. /\ d \in is_initializing
          /\ d \notin busy \cup is_releasing \cup panicked \cup released
          /\ \A q \in Places \ {p} : fr[q].c # d
          /\ \A r \in Sessions : owner[r] # d /\ (ts_ctx[r] = d => r = fr[p].s)
      BY <3>1, <3>2 DEF InitOK
    <3>4. d # c
      BY <1>0, <3>3
    <3>5. \A q \in Places' \ {p} : (fr'[q]).c # d
      BY <1>m, <3>3, <3>4
    <3>6. \A r \in Sessions : owner'[r] # d
      BY <3>3, NsecOK DEF TypeOK
    <3>7. \A r \in Sessions : ts_ctx'[r] = d => r = fr[p].s
      BY <3>3, <3>4 DEF TypeOK
    <3> QED
      BY <3>1, <3>2, <3>3, <3>5, <3>6, <3>7
  <2> QED
    BY <2>1, <2>2
<1> QED
  BY <1>1, <1>2 DEF InitOK

LEMMA InitLess ==
    ASSUME InitOK, TypeOK, NEW z, NEW g, Moved(z, g), fr[z].pc = "load", g.pc # "load",
           g.c \in {fr[z].c, None}, is_initializing' = is_initializing \ {fr[z].c},
           UNCHANGED <<busy, is_releasing, panicked, released, owner>>,
           \A r \in Sessions : ts_ctx'[r] \in {ts_ctx[r], None}
    PROVE  InitOK'
<1>m. z \in Places /\ Places' = Places /\ fr'[z] = g /\ \A p \in Places \ {z} : fr'[p] = fr[p]
  BY DEF Moved
<1>n. None \notin is_initializing
  BY NoneOK DEF TypeOK
<1>1. ASSUME NEW d \in is_initializing'
      PROVE  (\E p \in Places : fr[p].c = d /\ fr[p].pc = "load")'
  <2>1. PICK p \in Places : fr[p].c = d /\ fr[p].pc = "load"
    BY DEF InitOK
  <2>2. p # z /\ fr'[p] = fr[p]
    BY <1>m, <2>1
  <2> QED
    BY <1>m, <2>1, <2>2
<1>2. ASSUME NEW p \in Places', (fr[p].pc = "load")'
      PROVE  LET d == (fr'[p]).c IN
             /\ d \in is_initializing'
             /\ d \notin busy' \cup is_releasing' \cup panicked' \cup released'
             /\ \A q \in Places' \ {p} : (fr'[q]).c # d
             /\ \A r \in Sessions : owner'[r] # d /\ (ts_ctx'[r] = d => r = (fr'[p]).s)
  <2>1. PICK d : d = fr[p].c
    OBVIOUS
  <2>2. p \in Places \ {z} /\ fr'[p] = fr[p] /\ fr[p].pc = "load"
    BY <1>m, <1>2
  <2>3. /\ d \in is_initializing
        /\ d \notin busy \cup is_releasing \cup panicked \cup released
        /\ \A q \in Places \ {p} : fr[q].c # d
        /\ \A r \in Sessions : owner[r] # d /\ (ts_ctx[r] = d => r = fr[p].s)
    BY <2>1, <2>2 DEF InitOK
  <2>4. \A q \in Places' \ {p} : (fr'[q]).c # d
    BY <1>m, <1>n, <2>2, <2>3
  <2>5. d \in is_initializing'
    BY <1>m, <2>2, <2>3
  <2>6. \A r \in Sessions : ts_ctx'[r] = d => r = fr[p].s
    BY <1>n, <2>3
  <2> QED
    BY <2>1, <2>2, <2>3, <2>4, <2>5, <2>6
<1> QED
  BY <1>1, <1>2 DEF InitOK

\* The contexts that are being destroyed.
LEMMA DyingKept ==
    ASSUME DyingOK, TypeOK, NEW Z, ChangedIn(Z),
           \A z \in Z : (z \in Places => ~Dying(fr[z])) /\ (z \in Places' => ~Dying(fr'[z])),
           is_releasing \subseteq is_releasing', is_releasing' \ panicked' \subseteq is_releasing \ panicked,
           \A d \in Ctxs : d \in is_releasing /\ ref_count[d] = 0 => ref_count'[d] = 0,
           \A d \in live' : ref_count'[d] = 0 =>
              /\ uuid'[d] = uuid[d]
              /\ \/ d \in live /\ ref_count[d] = 0 /\ (d \in panicked' => d \in panicked)
                 \/ HasFlag(d, "keep") /\ Single(d) /\ d \notin panicked'
    PROVE  DyingOK'
<1>0. \A p : Dying(fr[p]) /\ p \in Places => p \in Places' /\ fr'[p] = fr[p]
  BY DEF ChangedIn
<1>1. ASSUME NEW p \in Places', Dying(fr[p])'
      PROVE  /\ ref_count'[(fr'[p]).c] = 0 /\ (fr'[p]).c \in is_releasing'
             /\ \A q \in Places' \ {p} : Dying(fr[q])' => (fr'[q]).c # (fr'[p]).c
  <2>1. p \in Places /\ fr'[p] = fr[p] /\ Dying(fr[p])
    BY <1>1 DEF ChangedIn, Dying
  <2>2. /\ ref_count[fr[p].c] = 0 /\ fr[p].c \in is_releasing
        /\ \A q \in Places \ {p} : Dying(fr[q]) => fr[q].c # fr[p].c
    BY <2>1 DEF DyingOK
  <2>3. \A q \in Places' \ {p} : Dying(fr[q])' => q \in Places /\ fr'[q] = fr[q] /\ Dying(fr[q])
    BY DEF ChangedIn, Dying
  <2> QED
    BY <2>1, <2>2, <2>3 DEF TypeOK
<1>2. ASSUME NEW c \in is_releasing' \ panicked'
      PROVE  (\E p \in Places : fr[p].c = c /\ Dying(fr[p]))'
  <2>1. PICK p \in Places : fr[p].c = c /\ Dying(fr[p])
    BY DEF DyingOK
  <2> QED
    BY <1>0, <2>1 DEF Dying
<1>3. ASSUME NEW c \in live', ref_count'[c] = 0
      PROVE  (\/ \E p \in Places : fr[p].c = c /\ Dying(fr[p])
              \/ HasFlag(c, "keep") /\ Single(c) /\ c \notin panicked)'
  <2>1. CASE HasFlag(c, "keep") /\ Single(c) /\ c \notin panicked'
    BY <1>3, <2>1 DEF HasFlag, Single
  <2>2. CASE c \in live /\ ref_count[c] = 0 /\ (c \in panicked' => c \in panicked)
    <3>1. CASE HasFlag(c, "keep") /\ Single(c) /\ c \notin panicked
      BY <1>3, <2>2, <3>1 DEF HasFlag, Single
    <3>2. CASE \E p \in Places : fr[p].c = c /\ Dying(fr[p])
      <4>1. PICK p \in Places : fr[p].c = c /\ Dying(fr[p])
        BY <3>2
      <4> QED
        BY <1>0, <4>1 DEF Dying
    <3> QED
      BY <2>2, <3>1, <3>2 DEF DyingOK
  <2> QED
    BY <1>3, <2>1, <2>2
<1> QED
  BY <1>1, <1>2, <1>3 DEF DyingOK

\* A context loses its last reference and will be destroyed.
LEMMA DyingMore ==
    ASSUME DyingOK, TypeOK, NEW z, NEW g, Moved(z, g), ~Dying(fr[z]), Dying(g), g.c \in Ctxs,
           ref_count[g.c] # 0, ref_count' = [ref_count EXCEPT ![g.c] = 0],
           is_releasing' = is_releasing \cup {g.c}, UNCHANGED <<panicked, live, uuid>>
    PROVE  DyingOK'
<1>m. z \in Places /\ Places' = Places /\ fr'[z] = g /\ \A p \in Places \ {z} : fr'[p] = fr[p]
  BY DEF Moved
<1>r. ref_count'[g.c] = 0 /\ \A d \in Ctxs \ {g.c} : ref_count'[d] = ref_count[d]
  BY DEF TypeOK
<1>a. \A p \in Places : Dying(fr[p]) => fr[p].c # g.c /\ p # z
  BY DEF DyingOK
<1>1. ASSUME NEW p \in Places', Dying(fr[p])'
      PROVE  /\ ref_count'[(fr'[p]).c] = 0 /\ (fr'[p]).c \in is_releasing'
             /\ \A q \in Places' \ {p} : Dying(fr[q])' => (fr'[q]).c # (fr'[p]).c
  <2>1. CASE p = z
    <3>1. \A q \in Places' \ {p} : Dying(fr[q])' => Dying(fr[q]) /\ fr'[q] = fr[q] /\ q \in Places
      BY <1>m, <2>1 DEF Dying
    <3> QED
      BY <1>m, <1>r, <1>a, <2>1, <3>1
  <2>2. CASE p # z
    <3>1. p \in Places /\ fr'[p] = fr[p] /\ Dying(fr[p])
      BY <1>m, <1>1, <2>2 DEF Dying
    <3>2. /\ ref_count[fr[p].c] = 0 /\ fr[p].c \in is_releasing /\ fr[p].c # g.c
          /\ \A q \in Places \ {p} : Dying(fr[q]) => fr[q].c # fr[p].c
      BY <1>a, <3>1 DEF DyingOK
    <3>3. fr[p].c \in Ctxs
      BY <3>2 DEF TypeOK
    <3>4. \A q \in Places' \ {p} : Dying(fr[q])' => (fr'[q]).c # fr[p].c
      <4> SUFFICES ASSUME NEW q \in Places' \ {p}, Dying(fr[q])' PROVE (fr'[q]).c # fr[p].c
        OBVIOUS
      <4>1. CASE q = z
        BY <1>m, <3>2, <4>1
      <4>2. CASE q # z
        <5>1. q \in Places \ {p} /\ fr'[q] = fr[q] /\ Dying(fr[q])
          BY <1>m, <4>2 DEF Dying
        <5> QED
          BY <3>2, <5>1
      <4> QED
        BY <4>1, <4>2
    <3> QED
      BY <1>r, <3>1, <3>2, <3>3, <3>4
  <2> QED
    BY <2>1, <2>2
<1>2. ASSUME NEW c \in is_releasing' \ panicked'
      PROVE  (\E p \in Places : fr[p].c = c /\ Dying(fr[p]))'
  <2>1. CASE c = g.c
    BY <1>m, <2>1 DEF Dying
  <2>2. CASE c # g.c
    <3>1. PICK p \in Places : fr[p].c = c /\ Dying(fr[p])
      BY <2>2 DEF DyingOK
    <3> QED
      BY <1>m, <1>a, <3>1 DEF Dying
  <2> QED
    BY <2>1, <2>2
<1>3. ASSUME NEW c \in live', ref_count'[c] = 0
      PROVE  (\/ \E p \in Places : fr[p].c = c /\ Dying(fr[p])
              \/ HasFlag(c, "keep") /\ Single(c) /\ c \notin panicked)'
  <2>1. CASE c = g.c
    BY <1>m, <2>1 DEF Dying
  <2>2. CASE c # g.c
    <3>0. c \in live /\ ref_count[c] = 0
      BY <1>r, <1>3, <2>2 DEF TypeOK
    <3>1. CASE HasFlag(c, "keep") /\ Single(c) /\ c \notin panicked
      BY <3>1 DEF HasFlag, Single
    <3>2. CASE \E p \in Places : fr[p].c = c /\ Dying(fr[p])
      <4>1. PICK p \in Places : fr[p].c = c /\ Dying(fr[p])
        BY <3>2
      <4> QED
        BY <1>m, <1>a, <4>1 DEF Dying
    <3> QED
      BY <3>0, <3>1, <3>2 DEF DyingOK
  <2> QED
    BY <2>1, <2>2
<1> QED
  BY <1>1, <1>2, <1>3 DEF DyingOK

\* destroy_context() goes on with its context.
LEMMA DyingMoved ==
    ASSUME DyingOK, NEW z, NEW g, Moved(z, g), Dying(fr[z]), Dying(g), g.c = fr[z].c,
           UNCHANGED <<ref_count, is_releasing, panicked, live, uuid>>
    PROVE  DyingOK'
<1>m. z \in Places /\ Places' = Places /\ fr'[z] = g /\ \A p \in Places \ {z} : fr'[p] = fr[p]
  BY DEF Moved
<1>1. \A p \in Places : (Dying(fr[p])' <=> Dying(fr[p])) /\ (fr'[p]).c = fr[p].c
  BY <1>m DEF Dying
<1>2. \A c : HasFlag(c, "keep")' = HasFlag(c, "keep") /\ Single(c)' = Single(c)
  BY DEF HasFlag, Single
<1> QED
  BY <1>m, <1>1, <1>2 DEF DyingOK

\* A context has been destroyed.
LEMMA DyingLess ==
    ASSUME DyingOK, TypeOK, NEW z, Gone(z), Dying(fr[z]), NEW c, c = fr[z].c,
           ref_count' = ref_count, is_releasing' = is_releasing \ {c},
           panicked' = panicked \ {c}, live' = live \ {c}, \A d \in live \ {c} : uuid'[d] = uuid[d]
    PROVE  DyingOK'
<1>m. z \in Places /\ Places' = Places \ {z} /\ \A p \in Places \ {z} : fr'[p] = fr[p]
  BY DEF Gone
<1>a. \A p \in Places' : Dying(fr[p])' => p \in Places /\ p # z /\ Dying(fr[p]) /\ fr'[p] = fr[p] /\ fr[p].c # c
  BY <1>m DEF Dying, DyingOK
<1>b. \A p \in Places : Dying(fr[p]) /\ p # z => Dying(fr[p])' /\ p \in Places' /\ fr'[p] = fr[p]
  BY <1>m DEF Dying
<1>1. ASSUME NEW p \in Places', Dying(fr[p])'
      PROVE  /\ ref_count'[(fr'[p]).c] = 0 /\ (fr'[p]).c \in is_releasing'
             /\ \A q \in Places' \ {p} : Dying(fr[q])' => (fr'[q]).c # (fr'[p]).c
  <2>1. p \in Places /\ fr'[p] = fr[p] /\ Dying(fr[p]) /\ fr[p].c # c
    BY <1>a, <1>1
  <2>2. /\ ref_count[fr[p].c] = 0 /\ fr[p].c \in is_releasing
        /\ \A q \in Places \ {p} : Dying(fr[q]) => fr[q].c # fr[p].c
    BY <2>1 DEF DyingOK
  <2> QED
    BY <1>a, <2>1, <2>2
<1>2. ASSUME NEW d \in is_releasing' \ panicked'
      PROVE  (\E p \in Places : fr[p].c = d /\ Dying(fr[p]))'
  <2>1. PICK p \in Places : fr[p].c = d /\ Dying(fr[p])
    BY DEF DyingOK
  <2> QED
    BY <1>b, <2>1
<1>3. ASSUME NEW d \in live', ref_count'[d] = 0
      PROVE  (\/ \E p \in Places : fr[p].c = d /\ Dying(fr[p])
              \/ HasFlag(d, "keep") /\ Single(d) /\ d \notin panicked)'
  <2>1. CASE HasFlag(d, "keep") /\ Single(d) /\ d \notin panicked
    BY <2>1 DEF HasFlag, Single
  <2>2. CASE \E p \in Places : fr[p].c = d /\ Dying(fr[p])
    <3>1. PICK p \in Places : fr[p].c = d /\ Dying(fr[p])
      BY <2>2
    <3> QED
      BY <1>b, <3>1
  <2> QED
    BY <1>3, <2>1, <2>2 DEF DyingOK
<1> QED
  BY <1>1, <1>2, <1>3 DEF DyingOK

\* The contexts that have panicked.
LEMMA PanicStep ==
    ASSUME PanicOK, NEW Z, ChangedIn(Z),
           \A z \in Z : z \in Places' =>
              /\ (fr'[z]).pc = "rel" => (fr'[z]).c \in panicked'
              /\ (fr'[z]).op = "release" => (fr'[z]).c \in panicked' \cap is_releasing'
              /\ (fr'[z]).pc = "run" => (fr'[z]).c \notin released',
           panicked \subseteq panicked', is_releasing \subseteq is_releasing',
           \A c \in panicked : uuid'[c] \notin Pseudo,
           \A c \in panicked' \ panicked : uuid'[c] \notin Pseudo,
           \A c \in released' \ released :
              c \in panicked' /\ \A p \in Places' : (fr'[p]).pc = "run" => (fr'[p]).c # c
    PROVE  PanicOK'
<1>1. ASSUME NEW p \in Places'
      PROVE  (/\ fr[p].pc = "rel" => fr[p].c \in panicked
              /\ fr[p].op = "release" => fr[p].c \in panicked \cap is_releasing
              /\ fr[p].pc = "run" => fr[p].c \notin released)'
  BY DEF ChangedIn, PanicOK
<1>2. (\A c \in panicked' : uuid'[c] \notin Pseudo) /\ \A c \in released' : c \in panicked'
  BY DEF PanicOK
<1> QED
  BY <1>1, <1>2 DEF PanicOK

LEMMA PanicLess ==
    ASSUME PanicOK, NEW z, Gone(z), NEW c, \A p \in Places \ {z} : fr[p].c # c,
           panicked' = panicked \ {c}, is_releasing' = is_releasing \ {c}, released' = released \ {c},
           \A d \in panicked \ {c} : uuid'[d] = uuid[d]
    PROVE  PanicOK'
<1>1. ASSUME NEW p \in Places'
      PROVE  (/\ fr[p].pc = "rel" => fr[p].c \in panicked
              /\ fr[p].op = "release" => fr[p].c \in panicked \cap is_releasing
              /\ fr[p].pc = "run" => fr[p].c \notin released)'
  BY DEF Gone, PanicOK
<1>2. (\A d \in panicked' : uuid'[d] \notin Pseudo) /\ \A d \in released' : d \in panicked'
  BY DEF PanicOK
<1> QED
  BY <1>1, <1>2 DEF PanicOK

\* The registered instances.
\* The references of an instance grow only where it may have several sessions.
CountsFit ==
    \A d \in live' : \/ ref_count'[d] <= ref_count[d] \/ ref_count'[d] <= 1
                     \/ Single(d) /\ HasFlag(d, "multi")

LEMMA RulesKept ==
    ASSUME InstanceRules, ListOK, TypeOK, TypeOK', ListOK',
           live' \subseteq live, \A d \in live' : uuid'[d] = uuid[d],
           live' \ is_releasing' \subseteq live \ is_releasing, CountsFit
    PROVE  InstanceRules'
<1>1. Range(tee_ctxes)' \subseteq Range(tee_ctxes) /\ Range(tee_ctxes)' \subseteq live'
  BY DEF ListOK
<1>2. \A d : (Contains(tee_ctxes, d) <=> d \in live \ is_releasing)
  BY ListFacts
<1>3. \A d : (Contains(tee_ctxes, d)' <=> d \in live' \ is_releasing')
  BY ListFactsNext
<1>4. \A d \in live' : (Single(d)' <=> Single(d)) /\ (HasFlag(d, "multi")' <=> HasFlag(d, "multi"))
  BY DEF Single, HasFlag
<1>5. ASSUME NEW c \in live', (Single(c) /\ Contains(tee_ctxes, c))'
      PROVE  ({d \in Range(tee_ctxes) : uuid[d] = uuid[c]} = {c})'
  <2>1. Single(c) /\ Contains(tee_ctxes, c) /\ c \in live
    BY <1>2, <1>3, <1>4, <1>5
  <2>2. {d \in Range(tee_ctxes) : uuid[d] = uuid[c]} = {c}
    BY <2>1 DEF InstanceRules
  <2>3. c \in Range(tee_ctxes)'
    BY <1>3, <1>5 DEF ListOK
  <2> QED
    BY <1>1, <2>2, <2>3
<1>6. ASSUME NEW c \in live', (~(Single(c) /\ HasFlag(c, "multi")))'
      PROVE  ref_count'[c] <= 1
  <2>1. c \in live /\ ref_count[c] <= 1 /\ c \in Ctxs
    BY <1>4, <1>6 DEF InstanceRules, TypeOK
  <2>2. ref_count[c] \in Nat /\ ref_count'[c] \in Nat
    BY <2>1 DEF TypeOK
  <2> QED
    BY <1>4, <1>6, <2>1, <2>2 DEF CountsFit
<1> QED
  BY <1>5, <1>6 DEF InstanceRules

LEMMA RulesMore ==
    ASSUME InstanceRules, ListOK, TypeOK, LiveOK, TypeOK', ListOK', NEW c \in Ctxs \ live, NEW u \in Uuids,
           live' = live \cup {c}, uuid' = [uuid EXCEPT ![c] = u], is_releasing' = is_releasing,
           ref_count' = [ref_count EXCEPT ![c] = 1],
           "single" \in Flags[u] => \A d \in Range(tee_ctxes) : uuid[d] # u
    PROVE  InstanceRules'
<1>1. Range(tee_ctxes) = live \ is_releasing /\ Range(tee_ctxes)' = Range(tee_ctxes) \cup {c}
      /\ c \notin Range(tee_ctxes)
  BY DEF ListOK, LiveOK
<1>2. \A d : (Contains(tee_ctxes, d) <=> d \in live \ is_releasing)
  BY ListFacts
<1>3. \A d : (Contains(tee_ctxes, d)' <=> d \in live' \ is_releasing')
  BY ListFactsNext
<1>4. uuid'[c] = u /\ \A d \in live : uuid'[d] = uuid[d] /\ uuid[d] \in Uuids
  BY DEF TypeOK, LiveOK
<1>5. \A d \in live : (Single(d)' <=> Single(d)) /\ (HasFlag(d, "multi")' <=> HasFlag(d, "multi"))
  BY <1>4 DEF Single, HasFlag
<1>6. Single(c)' <=> "single" \in Flags[u]
  BY <1>4 DEF Single, HasFlag
<1>7. ASSUME NEW e \in live', (Single(e) /\ Contains(tee_ctxes, e))'
      PROVE  ({d \in Range(tee_ctxes) : uuid[d] = uuid[e]} = {e})'
  <2>1. CASE e = c
    BY <1>1, <1>4, <1>6, <1>7, <2>1
  <2>2. CASE e # c
    <3>1. Single(e) /\ Contains(tee_ctxes, e) /\ e \in live
      BY <1>2, <1>3, <1>5, <1>7, <2>2
    <3>2. {d \in Range(tee_ctxes) : uuid[d] = uuid[e]} = {e} /\ "single" \in Flags[uuid[e]]
      BY <3>1 DEF InstanceRules, Single, HasFlag
    <3>3. uuid[e] # u
      BY <1>1, <3>1, <3>2
    <3>4. \A d \in Range(tee_ctxes) : uuid'[d] = uuid[d]
      BY <1>1, <1>4
    <3> QED
      BY <1>1, <1>4, <3>1, <3>2, <3>3, <3>4
  <2> QED
    BY <2>1, <2>2
<1>8. ASSUME NEW e \in live', (~(Single(e) /\ HasFlag(e, "multi")))'
      PROVE  ref_count'[e] <= 1
  <2>1. CASE e = c
    BY <2>1 DEF TypeOK
  <2>2. CASE e # c
    <3>1. e \in live /\ e \in Ctxs /\ ref_count'[e] = ref_count[e]
      BY <1>8, <2>2 DEF TypeOK
    <3>2. ref_count[e] <= 1
      BY <1>5, <1>8, <3>1 DEF InstanceRules
    <3> QED
      BY <3>1, <3>2
  <2> QED
    BY <2>1, <2>2
<1> QED
  BY <1>7, <1>8 DEF InstanceRules

-----------------------------------------------------------------------------
(* What the steps do to the busy contexts and the single-instance lock     *)

InsideAt(p, c) == p \in Places /\ Inside(fr[p], c)

LEMMA InsiderFacts ==
    /\ Insiders = {p \in Places : \E c \in live : Single(c) /\ ~Concurrent(c) /\ InsideAt(p, c)}
    /\ \A p, c : Inside(fr[p], c) => fr[p].c = c
BY DEF Insiders, InsideAt, Inside

LEMMA BusyKept ==
    ASSUME InsideOK, LockCountOK, LiveOK, NEW Z, ChangedIn(Z), UNCHANGED busyVars,
           \A d \in live \cap live' : uuid'[d] = uuid[d],
           \A z \in Z, c \in live \cup live' : (c \in live => ~Concurrent(c)) =>
              (InsideAt(z, c)' <=> InsideAt(z, c)),
           \A c \in live' \ live : c \in Ctxs,
           \A c \in live \ live', p \in Places : ~Inside(fr[p], c)
    PROVE  InsideOK' /\ LockCountOK'
<1>0. \A c \in live \cap live' : (Concurrent(c)' <=> Concurrent(c)) /\ (Single(c)' <=> Single(c))
  BY DEF Concurrent, Single, HasFlag
<1>1. ASSUME NEW c \in live \cup live', c \in live => ~Concurrent(c), NEW p
      PROVE  InsideAt(p, c)' <=> InsideAt(p, c)
  <2>1. CASE p \in Z
    BY <1>1, <2>1
  <2>2. CASE p \notin Z
    BY <1>1, <2>2 DEF InsideAt, ChangedIn, Inside
  <2> QED
    BY <2>1, <2>2
<1>2. ASSUME NEW c \in live' \ live
      PROVE  c \notin busy /\ \A p : ~InsideAt(p, c)'
  <2>1. c \in Ctxs /\ c \notin busy /\ c # None
    BY NoneOK DEF LiveOK
  <2>2. \A p : ~InsideAt(p, c)
    BY <2>1 DEF InsideAt, Inside, LiveOK
  <2> QED
    BY <1>1, <2>1, <2>2
<1>3. ASSUME NEW c \in live', ~Concurrent(c)'
      PROVE  /\ \A p, q \in Places' : Inside(fr[p], c)' /\ Inside(fr[q], c)' => p = q
             /\ c \in busy' <=> \E p \in Places' : Inside(fr[p], c)'
  <2>1. CASE c \notin live
    BY <1>2, <2>1 DEF InsideAt, busyVars
  <2>2. CASE c \in live
    <3>1. ~Concurrent(c)
      BY <1>0, <1>3, <2>2
    <3>2. /\ \A p, q \in Places : Inside(fr[p], c) /\ Inside(fr[q], c) => p = q
          /\ c \in busy <=> \E p \in Places : Inside(fr[p], c)
      BY <2>2, <3>1 DEF InsideOK
    <3>3. \A p : (p \in Places' /\ Inside(fr[p], c)') <=> (p \in Places /\ Inside(fr[p], c))
      BY <1>1, <2>2, <3>1 DEF InsideAt
    <3> QED
      BY <3>2, <3>3 DEF busyVars
  <2> QED
    BY <2>1, <2>2
<1>4. InsideOK'
  <2>1. \A c \in live' : Concurrent(c)' => c \notin busy'
    BY <1>0, <1>2 DEF InsideOK, busyVars
  <2> QED
    BY <1>3, <2>1 DEF InsideOK
<1>5. ASSUME NEW p PROVE p \in Insiders' <=> p \in Insiders
  <2>1. ASSUME p \in Insiders' PROVE p \in Insiders
    <3>1. PICK c \in live' : p \in Places' /\ Single(c)' /\ ~Concurrent(c)' /\ Inside(fr[p], c)'
      BY <2>1 DEF Insiders
    <3>2. InsideAt(p, c)'
      BY <3>1 DEF InsideAt
    <3>3. c \in live
      BY <1>2, <3>2
    <3>4. InsideAt(p, c) /\ ~Concurrent(c) /\ Single(c)
      BY <1>0, <1>1, <3>1, <3>2, <3>3
    <3> QED
      BY <3>3, <3>4 DEF Insiders, InsideAt
  <2>2. ASSUME p \in Insiders PROVE p \in Insiders'
    <3>1. PICK c \in live : p \in Places /\ Single(c) /\ ~Concurrent(c) /\ Inside(fr[p], c)
      BY <2>2 DEF Insiders
    <3>2. c \in live'
      BY <3>1
    <3>3. InsideAt(p, c)' /\ ~Concurrent(c)' /\ Single(c)'
      BY <1>0, <1>1, <3>1, <3>2 DEF InsideAt
    <3> QED
      BY <3>2, <3>3 DEF Insiders, InsideAt
  <2> QED
    BY <2>1, <2>2
<1>6. Insiders' = Insiders
  BY <1>5
<1>7. LockCountOK'
  BY <1>6 DEF LockCountOK, busyVars
<1> QED
  BY <1>4, <1>7

LEMMA InsidersFinite ==
    ASSUME IsFiniteSet(Places)
    PROVE  IsFiniteSet(Insiders) /\ Cardinality(Insiders) \in Nat
<1>1. Insiders \in SUBSET Places
  BY DEF Insiders
<1> QED
  BY <1>1, FS_Subset, FS_CardinalityType

\* tee_ta_try_set_busy()
LEMMA BusySet ==
    ASSUME InsideOK, LockCountOK, TypeOK, IsFiniteSet(Places), NEW z, NEW g, Moved(z, g),
           NEW c \in live, g.c = c, fr[z].c = c, ~Concurrent(c), c \notin busy,
           ~Inside(fr[z], c), Inside(g, c), UNCHANGED <<live, uuid>>, busy' = busy \cup {c},
           z[1] \in Threads, Single(c) => si_thread \in {z[1], None},
           si_thread' = IF Single(c) THEN z[1] ELSE si_thread,
           si_count' = IF Single(c) THEN si_count + 1 ELSE si_count
    PROVE  InsideOK' /\ LockCountOK'
<1>0. \A d : (Concurrent(d)' <=> Concurrent(d)) /\ (Single(d)' <=> Single(d))
  BY DEF Concurrent, Single, HasFlag
<1>m. z \in Places /\ Places' = Places /\ fr'[z] = g /\ \A p \in Places \ {z} : fr'[p] = fr[p]
  BY DEF Moved
<1>1. \A p \in Places : ~Inside(fr[p], c)
  BY DEF InsideOK
<1>2. \A p \in Places : \A d : Inside(fr[p], d)' <=> (Inside(fr[p], d) \/ (p = z /\ d = c))
  <2> SUFFICES ASSUME NEW p \in Places, NEW d
               PROVE  Inside(fr[p], d)' <=> (Inside(fr[p], d) \/ (p = z /\ d = c))
    OBVIOUS
  <2>1. CASE p = z
    <3>1. Inside(fr[p], d)' <=> Inside(g, d)
      BY <1>m, <2>1 DEF Inside
    <3>2. Inside(g, d) => d = c
      BY DEF Inside
    <3>3. Inside(fr[z], d) => d = c
      BY DEF Inside
    <3> QED
      BY <2>1, <3>1, <3>2, <3>3
  <2>2. CASE p # z
    BY <1>m, <2>2 DEF Inside
  <2> QED
    BY <2>1, <2>2
<1>3. ASSUME NEW d \in live', ~Concurrent(d)'
      PROVE  /\ \A p, q \in Places' : Inside(fr[p], d)' /\ Inside(fr[q], d)' => p = q
             /\ d \in busy' <=> \E p \in Places' : Inside(fr[p], d)'
  <2>1. d \in live /\ ~Concurrent(d)
    BY <1>0, <1>3
  <2>2. /\ \A p, q \in Places : Inside(fr[p], d) /\ Inside(fr[q], d) => p = q
        /\ d \in busy <=> \E p \in Places : Inside(fr[p], d)
    BY <2>1 DEF InsideOK
  <2> QED
    BY <1>m, <1>1, <1>2, <2>2
<1>4. InsideOK'
  <2>1. \A d \in live' : Concurrent(d)' => d \notin busy'
    BY <1>0 DEF InsideOK
  <2> QED
    BY <1>3, <2>1 DEF InsideOK
<1>5. z \notin Insiders
  BY <1>1 DEF Insiders, Inside
<1>6. Insiders' = IF Single(c) THEN Insiders \cup {z} ELSE Insiders
  <2>1. \A p : p \in Insiders' <=> (p \in Places /\ \E d \in live : Single(d) /\ ~Concurrent(d) /\ Inside(fr[p], d)')
    BY <1>0, <1>m DEF Insiders
  <2>2. \A p : p \in Insiders <=> (p \in Places /\ \E d \in live : Single(d) /\ ~Concurrent(d) /\ Inside(fr[p], d))
    BY DEF Insiders
  <2>3. \A p : p \in Insiders' <=> (p \in Insiders \/ (p = z /\ Single(c)))
    BY <1>2, <1>m, <2>1, <2>2
  <2> QED
    BY <2>3
<1>7. LockCountOK'
  <2>1. CASE Single(c)
    <3>1. Cardinality(Insiders') = Cardinality(Insiders) + 1 /\ Cardinality(Insiders) \in Nat
      BY <1>5, <1>6, <2>1, InsidersFinite, CardMore
    <3>2. si_thread = None => Insiders = {}
      BY InsidersFinite, FS_EmptySet DEF LockCountOK
    <3>3. \A p \in Insiders' : p[1] = si_thread'
      BY <1>6, <2>1, <3>2 DEF LockCountOK
    <3>4. si_count' = Cardinality(Insiders') /\ si_count' # 0 /\ si_thread' # None
      BY <2>1, <3>1, NoneOK DEF LockCountOK
    <3> QED
      BY <3>3, <3>4 DEF LockCountOK
  <2>2. CASE ~Single(c)
    BY <1>6, <2>2 DEF LockCountOK
  <2> QED
    BY <2>1, <2>2
<1> QED
  BY <1>4, <1>7

\* tee_ta_clear_busy()
LEMMA BusyClear ==
    ASSUME InsideOK, LockCountOK, TypeOK, IsFiniteSet(Places), NEW z, NEW g, Moved(z, g),
           NEW c \in live, g.c = c, fr[z].c = c, ~Concurrent(c),
           Inside(fr[z], c), ~Inside(g, c), UNCHANGED <<live, uuid>>, busy' = busy \ {c},
           si_count' = IF Single(c) THEN (IF si_count = 0 THEN 0 ELSE si_count - 1) ELSE si_count,
           si_thread' = IF Single(c) /\ si_count = 1 THEN None ELSE si_thread
    PROVE  /\ InsideOK' /\ LockCountOK' /\ c \in busy
           /\ Single(c) => si_thread = z[1] /\ si_count # 0
<1>0. \A d : (Concurrent(d)' <=> Concurrent(d)) /\ (Single(d)' <=> Single(d))
  BY DEF Concurrent, Single, HasFlag
<1>m. z \in Places /\ Places' = Places /\ fr'[z] = g /\ \A p \in Places \ {z} : fr'[p] = fr[p]
  BY DEF Moved
<1>1. c \in busy /\ \A p \in Places : Inside(fr[p], c) => p = z
  BY <1>m DEF InsideOK
<1>2. \A p \in Places : \A d : Inside(fr[p], d)' <=> (Inside(fr[p], d) /\ p # z)
  <2> SUFFICES ASSUME NEW p \in Places, NEW d
               PROVE  Inside(fr[p], d)' <=> (Inside(fr[p], d) /\ p # z)
    OBVIOUS
  <2>1. CASE p = z
    <3>1. Inside(fr[p], d)' <=> Inside(g, d)
      BY <1>m, <2>1 DEF Inside
    <3>2. Inside(g, d) => d = c
      BY DEF Inside
    <3> QED
      BY <2>1, <3>1, <3>2
  <2>2. CASE p # z
    BY <1>m, <2>2 DEF Inside
  <2> QED
    BY <2>1, <2>2
<1>b. \A d : Inside(fr[z], d) => d = c
  BY DEF Inside
<1>3. ASSUME NEW d \in live', ~Concurrent(d)'
      PROVE  /\ \A p, q \in Places' : Inside(fr[p], d)' /\ Inside(fr[q], d)' => p = q
             /\ d \in busy' <=> \E p \in Places' : Inside(fr[p], d)'
  <2>1. d \in live /\ ~Concurrent(d)
    BY <1>0, <1>3
  <2>2. /\ \A p, q \in Places : Inside(fr[p], d) /\ Inside(fr[q], d) => p = q
        /\ d \in busy <=> \E p \in Places : Inside(fr[p], d)
    BY <2>1 DEF InsideOK
  <2> QED
    BY <1>m, <1>1, <1>2, <1>b, <2>2
<1>4. InsideOK'
  <2>1. \A d \in live' : Concurrent(d)' => d \notin busy'
    BY <1>0 DEF InsideOK
  <2> QED
    BY <1>3, <2>1 DEF InsideOK
<1>5. z \in Insiders <=> Single(c)
  BY <1>b, <1>m DEF Insiders
<1>6. Insiders' = Insiders \ {z}
  <2>1. \A p : p \in Insiders' <=> (p \in Places /\ \E d \in live : Single(d) /\ ~Concurrent(d) /\ Inside(fr[p], d)')
    BY <1>0, <1>m DEF Insiders
  <2>2. \A p : p \in Insiders <=> (p \in Places /\ \E d \in live : Single(d) /\ ~Concurrent(d) /\ Inside(fr[p], d))
    BY DEF Insiders
  <2>3. \A p : p \in Insiders' <=> (p \in Insiders /\ p # z)
    BY <1>2, <1>m, <2>1, <2>2
  <2> QED
    BY <2>3
<1>7. LockCountOK' /\ (Single(c) => si_thread = z[1] /\ si_count # 0)
  <2>1. CASE Single(c)
    <3>1. /\ IsFiniteSet(Insiders')
          /\ Cardinality(Insiders') = Cardinality(Insiders) - 1 /\ Cardinality(Insiders) \in Nat
          /\ Cardinality(Insiders) > 0
      BY <1>5, <1>6, <2>1, InsidersFinite, CardLess
    <3>2. si_thread = z[1] /\ si_thread # None /\ si_count # 0 /\ si_count = Cardinality(Insiders)
      BY <1>5, <2>1, <3>1 DEF LockCountOK
    <3>3. si_count' = Cardinality(Insiders') /\ (si_count' = 0 <=> si_thread' = None)
      BY <2>1, <3>1, <3>2
    <3>4. si_count' = 0 => Insiders' = {}
      BY <3>1, <3>3, FS_EmptySet
    <3>5. \A p \in Insiders' : p[1] = si_thread'
      BY <1>6, <2>1, <3>1, <3>2, <3>3, <3>4 DEF LockCountOK
    <3> QED
      BY <3>2, <3>3, <3>5 DEF LockCountOK
  <2>2. CASE ~Single(c)
    <3>1. Insiders' = Insiders
      BY <1>5, <1>6, <2>2
    <3> QED
      BY <2>2, <3>1 DEF LockCountOK
  <2> QED
    BY <2>1, <2>2
<1> QED
  BY <1>1, <1>4, <1>7

-----------------------------------------------------------------------------
(* What the steps do to the sleeping threads                               *)

\* A call that may sleep on condition variable w.
Sleeping(w, f) ==
    \/ w = InitCv /\ f.pc = "find"
    \/ w = SingleCv /\ f.pc = "busy"
    \/ w = BusyCv(f.c) /\ f.pc = "busy"
    \/ w = LockCv(f.s) /\ f.pc = "lock"
    \/ w = RefcCv(f.s) /\ f.pc = "drain"

LEMMA WaitStep ==
    ASSUME WaitOK, TypeOK, NEW t \in Threads, NEW Z, ChangedIn(Z), \A z \in Z : z[1] = t,
           Others(t), \A u \in Threads \ {t} : waiting'[u] \in {waiting[u], None},
           waiting'[t] = None \/ (stack'[t] # <<>> /\ Sleeping(waiting'[t], fr'[TopAt(t)']))
    PROVE  WaitOK'
<1>1. ASSUME NEW u \in Threads, waiting'[u] # None
      PROVE  stack'[u] # <<>> /\ Sleeping(waiting'[u], fr'[TopAt(u)'])
  <2>1. CASE u = t
    BY <1>1, <2>1
  <2>2. CASE u # t
    <3>1. waiting[u] # None /\ waiting'[u] = waiting[u]
      BY <1>1, <2>2
    <3>2. stack[u] # <<>> /\ Sleeping(waiting[u], fr[TopAt(u)])
      BY <3>1 DEF WaitOK, Sleeping
    <3>3. stack'[u] = stack[u] /\ TopAt(u)' = TopAt(u)
      BY <2>2 DEF Others
    <3>4. TopAt(u) \in Places /\ TopAt(u)[1] = u
      BY <3>2, TopFacts
    <3>5. fr'[TopAt(u)] = fr[TopAt(u)]
      BY <2>2, <3>4 DEF ChangedIn
    <3> QED
      BY <3>1, <3>2, <3>3, <3>5
  <2> QED
    BY <2>1, <2>2
<1> QED
  BY <1>1 DEF WaitOK, Sleeping

LEMMA OthersSame ==
    ASSUME stack' = stack, NEW t
    PROVE  Others(t) /\ ChangedIn({}) /\ TopAt(t)' = TopAt(t) /\ fr' = fr /\ Places' = Places
BY SameStep DEF Others, TopAt, Same, ChangedIn

\* What a signal does to the sleeping threads.
LEMMA WakeFacts ==
    ASSUME TypeOK, NEW W, WakeUp(W)
    PROVE  /\ waiting' \in [Threads -> Cvs \cup {None}]
           /\ \A u \in Threads : waiting'[u] \in {waiting[u], None}
           /\ \A u \in Threads : waiting[u] = None => waiting'[u] = None
BY DEF WakeUp, TypeOK

LEMMA WaitFacts ==
    ASSUME TypeOK, NEW t \in Threads, NEW cv \in Cvs, Wait(t, cv)
    PROVE  /\ waiting' \in [Threads -> Cvs \cup {None}] /\ waiting'[t] = cv
           /\ \A u \in Threads \ {t} : waiting'[u] = waiting[u]
BY DEF Wait, TypeOK

LEMMA CvFacts ==
    /\ InitCv \in Cvs /\ SingleCv \in Cvs
    /\ \A c \in Ctxs : BusyCv(c) \in Cvs
    /\ \A s \in Sessions : LockCv(s) \in Cvs /\ RefcCv(s) \in Cvs
BY DEF Cvs

-----------------------------------------------------------------------------
(* Calls that go on                                                        *)

Pcs == {"init", "find", "load", "fail", "busy", "enter", "run", "rel", "clear",
        "put", "get", "lock", "copy", "closing", "unlink", "drain", "unref", "destroy", "loop"}

\* g is f at another place in the code, with these session, context and result.
Onward(f, g, pc, s, c, ok) ==
    /\ g \in Frame /\ g.op = f.op /\ g.list = f.list /\ g.u = f.u
    /\ g.pc = pc /\ g.s = s /\ g.c = c /\ g.ok = ok

LEMMA FramePc ==
    ASSUME NEW f \in Frame, NEW pc \in Pcs
    PROVE  LET g == [f EXCEPT !.pc = pc] IN Onward(f, g, pc, f.s, f.c, f.ok)
BY DEF Frame, Pcs, Onward

LEMMA FrameOkPc ==
    ASSUME NEW f \in Frame, NEW pc \in Pcs, NEW ok \in BOOLEAN
    PROVE  LET g == [f EXCEPT !.ok = ok, !.pc = pc] IN Onward(f, g, pc, f.s, f.c, ok)
<1> DEFINE g == [f EXCEPT !.ok = ok, !.pc = pc]
<1>1. g \in Frame
  BY DEF Frame, Pcs
<1>2. g.op = f.op /\ g.list = f.list /\ g.u = f.u /\ g.s = f.s /\ g.c = f.c
  BY DEF Frame
<1>3. g.pc = pc /\ g.ok = ok
  BY DEF Frame
<1> QED
  BY <1>1, <1>2, <1>3 DEF Onward

LEMMA FrameCPc ==
    ASSUME NEW f \in Frame, NEW pc \in Pcs, NEW c \in Ctxs \cup {None}
    PROVE  LET g == [f EXCEPT !.c = c, !.pc = pc] IN Onward(f, g, pc, f.s, c, f.ok)
<1> DEFINE g == [f EXCEPT !.c = c, !.pc = pc]
<1>1. g \in Frame
  BY DEF Frame, Pcs
<1>2. g.op = f.op /\ g.list = f.list /\ g.u = f.u /\ g.s = f.s /\ g.ok = f.ok
  BY DEF Frame
<1>3. g.pc = pc /\ g.c = c
  BY DEF Frame
<1> QED
  BY <1>1, <1>2, <1>3 DEF Onward

LEMMA FramePcC ==
    ASSUME NEW f \in Frame, NEW pc \in Pcs, NEW c \in Ctxs \cup {None}
    PROVE  LET g == [f EXCEPT !.pc = pc, !.c = c] IN Onward(f, g, pc, f.s, c, f.ok)
<1> DEFINE g == [f EXCEPT !.pc = pc, !.c = c]
<1>1. g \in Frame
  BY DEF Frame, Pcs
<1>2. g.op = f.op /\ g.list = f.list /\ g.u = f.u /\ g.s = f.s /\ g.ok = f.ok
  BY DEF Frame
<1>3. g.pc = pc /\ g.c = c
  BY DEF Frame
<1> QED
  BY <1>1, <1>2, <1>3 DEF Onward

LEMMA FrameS ==
    ASSUME NEW f \in Frame, NEW s \in Sessions
    PROVE  LET g == [f EXCEPT !.s = s] IN Onward(f, g, f.pc, s, f.c, f.ok)
BY DEF Frame, Pcs, Onward

LEMMA FrameOpPc ==
    ASSUME NEW f \in Frame
    PROVE  LET g == [f EXCEPT !.op = "close", !.pc = "get"] IN
           /\ g \in Frame /\ g.op = "close" /\ g.pc = "get" /\ g.list = f.list /\ g.u = f.u
           /\ g.s = f.s /\ g.c = f.c /\ g.ok = f.ok
BY DEF Frame

\* Everything but the types, the busy contexts and the sleeping threads.
CoreInv ==
    /\ Shapes /\ Nested /\ IsFiniteSet(Places) /\ SessionInv
    /\ LiveOK /\ ListOK /\ InitOK /\ DyingOK /\ PanicOK /\ RefCountsExact /\ InstanceRules

LEMMA InvSplit ==
    /\ IInv <=> TypeOK /\ CoreInv /\ InsideOK /\ LockCountOK /\ WaitOK
    /\ IInv' <=> TypeOK' /\ CoreInv' /\ InsideOK' /\ LockCountOK' /\ WaitOK'
BY DEF IInv, CoreInv

\* The step is one of thread t, which runs.
LEMMA AtFacts ==
    ASSUME IInv, NEW t \in Threads, NEW pc, At(t, pc)
    PROVE  /\ stack[t] # <<>> /\ waiting[t] = None /\ Top(t).pc = pc /\ Top(t) \in Frame
           /\ ~core_panic /\ Shape(Top(t)) /\ TopAt(t) \in Places /\ fr[TopAt(t)] = Top(t)
           /\ TopAt(t)[1] = t /\ TypeOK
<1>1. stack[t] # <<>> /\ waiting[t] = None /\ Top(t).pc = pc /\ ~core_panic
  BY DEF At
<1> QED
  BY <1>1, TopFacts DEF IInv, Shapes

LEMMA ReplacedFacts ==
    ASSUME TypeOK, NEW t \in Threads, stack[t] # <<>>, NEW g, Replaced(t, g)
    PROVE  /\ Moved(TopAt(t), g) /\ Changed(TopAt(t)) /\ ChangedIn({TopAt(t)}) /\ Others(t)
           /\ TopAt(t)' = TopAt(t) /\ stack'[t] # <<>> /\ TopAt(t)[1] = t
           /\ TopAt(t) \in Places /\ TopAt(t) \in Places' /\ fr'[TopAt(t)] = g /\ fr[TopAt(t)] = Top(t)
BY TopFacts, ChangedFacts, ChangedOne DEF Replaced, Moved

LEMMA ReturnedFacts ==
    ASSUME TypeOK, NEW t \in Threads, stack[t] # <<>>, Returned(t)
    PROVE  /\ Gone(TopAt(t)) /\ Changed(TopAt(t)) /\ ChangedIn({TopAt(t)}) /\ Others(t)
           /\ TopAt(t)[1] = t /\ TopAt(t) \in Places /\ TopAt(t) \notin Places' /\ fr[TopAt(t)] = Top(t)
BY TopFacts, ChangedFacts, ChangedOne DEF Returned, Gone

LEMMA PushedFacts ==
    ASSUME TypeOK, NEW t \in Threads, NEW g, Pushed(t, g)
    PROVE  /\ Came(NewAt(t), g) /\ Changed(NewAt(t)) /\ ChangedIn({NewAt(t)}) /\ Others(t)
           /\ NewAt(t)[1] = t /\ NewAt(t) \notin Places /\ NewAt(t) \in Places'
           /\ fr'[NewAt(t)] = g /\ TopAt(t)' = NewAt(t) /\ stack'[t] # <<>>
BY ChangedFacts, ChangedOne DEF Pushed, Came, NewAt

\* A call that goes on without changing what it is to its session and context.
Quiet(f, g) ==
    /\ Shape(g) /\ SameRole(f, g) /\ g.op = f.op
    /\ f.pc # "load" /\ g.pc # "load" /\ ~Dying(f) /\ ~Dying(g)
    /\ f.op = "close" => (f.pc \in {"clear", "unref"} <=> g.pc \in {"clear", "unref"})

LEMMA QuietMove ==
    ASSUME IInv, TypeOK', NEW t \in Threads, stack[t] # <<>>, NEW g, Replaced(t, g),
           Quiet(Top(t), g), g.pc = "rel" => g.c \in panicked', g.pc = "run" => g.c \notin released,
           UNCHANGED <<tee_ctxes, live, uuid, ref_count, is_initializing, is_releasing, released, sessVars>>,
           panicked' = panicked \/ (panicked' = panicked \cup {g.c} /\ g.c \in Ctxs /\ uuid[g.c] \notin Pseudo),
           busy' \subseteq busy \cup {g.c}
    PROVE  CoreInv'
<1>z. PICK z : z = TopAt(t)
  OBVIOUS
<1> DEFINE f == Top(t)
<1>1. /\ Moved(z, g) /\ Changed(z) /\ ChangedIn({z}) /\ Others(t)
      /\ z \in Places /\ z \in Places' /\ fr'[z] = g /\ fr[z] = f
  BY <1>z, ReplacedFacts DEF IInv
<1>2. /\ Shape(g) /\ SameRole(f, g) /\ g.op = f.op
      /\ f.pc # "load" /\ g.pc # "load" /\ ~Dying(f) /\ ~Dying(g)
      /\ g.s = f.s /\ g.c = f.c /\ g.list = f.list /\ (UsesSession(g) <=> UsesSession(f))
      /\ \A c : ClosesLast(g, c) <=> ClosesLast(f, c)
  BY DEF Quiet, SameRole, ClosesLast
<1>h. UNCHANGED <<owner, ts_ctx, refs, lock_thread, unlink, known>>
  BY DEF sessVars
<1>r. f.c # None => f.c \in live /\ f.c \in Ctxs /\ ref_count[f.c] # 0
  BY <1>1, <1>2, Referenced DEF IInv, LiveOK
<1>d. g.c # None => g.c \in live
  BY <1>2, <1>r
<1> HIDE DEF f
<1>3. Shapes'
  BY <1>1, <1>2, ShapesMove DEF IInv
<1>4. Nested'
  <2>1. UuidKept
    BY DEF UuidKept
  <2> QED
    BY <1>1, <1>2, <1>z, <2>1, NestedMove DEF IInv, f
<1>5. IsFiniteSet(Places')
  BY <1>1 DEF IInv, Moved
<1>6. SessionInv'
  <2>1. SessionsKept
    BY <1>h DEF SessionsKept
  <2> QED
    BY <1>1, <1>2, <2>1, MovedSame DEF IInv
<1>7. LiveOK'
  <2>1. g.list \in live \cup {Nsec}
    BY <1>1, <1>2 DEF IInv, LiveOK
  <2>2. busy' \subseteq busy \cup live'
    BY <1>d, NoneOK DEF TypeOK
  <2>3. panicked' \subseteq panicked \cup live'
    BY <1>d, NoneOK
  <2>4. \A d \in live' : uuid'[d] \in Uuids
    BY DEF IInv, LiveOK
  <2>5. live' \subseteq Ctxs
    BY DEF IInv, TypeOK
  <2> QED
    BY <1>1, <1>h, <1>d, <2>1, <2>2, <2>3, <2>4, <2>5, LiveStep DEF IInv
<1>8. ListOK'
  BY ListKept DEF IInv
<1>9. InitOK'
  <2>1. g.c \notin is_initializing
    BY <1>1, <1>2, NotLoading DEF IInv
  <2> QED
    BY <1>1, <1>2, <1>h, <2>1, InitKept DEF IInv
<1>10. DyingOK'
  <2>1. \A d \in live' : ref_count'[d] = 0 => (d \in panicked' => d \in panicked)
    BY <1>2, <1>r, NoneOK
  <2>2. is_releasing' \ panicked' \subseteq is_releasing \ panicked
    OBVIOUS
  <2> QED
    BY <1>1, <1>2, <2>1, <2>2, DyingKept DEF IInv
<1>11. PanicOK'
  <2>1. g.op = "release" => g.c \in panicked \cap is_releasing
    BY <1>1, <1>2 DEF IInv, PanicOK
  <2>2. \A c \in panicked' : uuid[c] \notin Pseudo
    BY DEF IInv, PanicOK
  <2> QED
    BY <1>1, <2>1, <2>2, PanicStep DEF IInv
<1>12. RefCountsExact'
  <2>1. RefsExact'
    <3>1. \A r \in Sessions : UsesAt(z, r)' <=> UsesAt(z, r)
      BY <1>1, <1>2 DEF UsesAt, UsesSession
    <3> QED
      BY <1>1, <1>h, <3>1, RefsKept, InvFacts
  <2>2. CountExact'
    <3>1. \A c \in Ctxs : LeavesAt(z, c)' <=> LeavesAt(z, c)
      BY <1>1, <1>2 DEF LeavesAt, ClosesLast
    <3> QED
      BY <1>1, <1>h, <3>1, CountKept, InvFacts
  <2>3. (RefCountsExact <=> RefsExact /\ CountExact)'
    BY CountParts, PTL
  <2> QED
    BY <2>1, <2>2, <2>3
<1>13. InstanceRules'
  <2>1. CountsFit
    BY DEF IInv, TypeOK, CountsFit
  <2>2. InstanceRules /\ ListOK /\ TypeOK /\ live' \subseteq live
        /\ (\A d \in live' : uuid'[d] = uuid[d]) /\ live' \ is_releasing' \subseteq live \ is_releasing
    BY DEF IInv
  <2> QED
    BY <1>8, <2>1, <2>2, RulesKept
<1> QED
  BY <1>3, <1>4, <1>5, <1>6, <1>7, <1>8, <1>9, <1>10, <1>11, <1>12, <1>13 DEF CoreInv

LEMMA QuietStep ==
    ASSUME IInv, NEW t \in Threads, NEW pc0, At(t, pc0), NEW g, NEW pc \in Pcs, NEW ok,
           Onward(Top(t), g, pc, Top(t).s, Top(t).c, ok), Replace(t, g), Quiet(Top(t), g),
           g.pc = "rel" => g.c \in panicked', g.pc = "run" => g.c \notin released,
           UNCHANGED <<tee_ctxes, live, uuid, ref_count, is_initializing, is_releasing, released,
                       busyVars, sessVars, waiting, calls, core_panic>>,
           panicked' = panicked \/ (panicked' = panicked \cup {g.c} /\ g.c \in Ctxs /\ uuid[g.c] \notin Pseudo),
           \/ Top(t).c \in live /\ Concurrent(Top(t).c)
           \/ Inside(g, Top(t).c) <=> Inside(Top(t), Top(t).c)
    PROVE  IInv'
<1>1. /\ stack[t] # <<>> /\ waiting[t] = None /\ Top(t) \in Frame /\ TopAt(t) \in Places
      /\ fr[TopAt(t)] = Top(t) /\ TopAt(t)[1] = t /\ TypeOK
  BY AtFacts
<1>2. g \in Frame /\ g.c = Top(t).c
  BY DEF Onward
<1>3. stack' \in [Threads -> Seq(Frame)] /\ Replaced(t, g)
  BY <1>1, <1>2, ReplaceStep
<1>4. TypeOK'
  BY <1>1, <1>2, <1>3 DEF TypeOK, busyVars, sessVars
<1>5. CoreInv'
  BY <1>1, <1>3, <1>4, QuietMove DEF busyVars
<1>z. PICK z : z = TopAt(t)
  OBVIOUS
<1>6. /\ ChangedIn({z}) /\ Others(t) /\ z \in Places /\ z \in Places' /\ fr'[z] = g /\ fr[z] = Top(t)
      /\ z[1] = t
  BY <1>z, <1>1, <1>3, ReplacedFacts
<1>7. InsideOK' /\ LockCountOK'
  <2>1. ASSUME NEW c \in live, ~Concurrent(c) PROVE InsideAt(z, c)' <=> InsideAt(z, c)
    <3>1. InsideAt(z, c)' <=> Inside(g, c)
      BY <1>6 DEF InsideAt, Inside
    <3>2. InsideAt(z, c) <=> Inside(Top(t), c)
      BY <1>6 DEF InsideAt
    <3>3. CASE c = Top(t).c
      BY <2>1, <3>1, <3>2, <3>3
    <3>4. CASE c # Top(t).c
      BY <1>2, <3>1, <3>2, <3>4 DEF Inside
    <3> QED
      BY <3>3, <3>4
  <2> QED
    BY <1>6, <2>1, BusyKept DEF IInv
<1>8. WaitOK'
  BY <1>1, <1>6, WaitStep DEF IInv
<1> QED
  BY <1>4, <1>5, <1>7, <1>8, InvSplit

LEMMA CopyParamInv ==
    ASSUME IInv, NEW t \in Threads, CopyParam(t)
    PROVE  IInv'
<1>1. At(t, "copy") /\ Top(t) \in Frame /\ Shape(Top(t)) /\ Top(t).pc = "copy"
  BY AtFacts DEF CopyParam
<1>2. PICK pc \in {"busy", "put"} : Goto(t, pc)
  BY DEF CopyParam
<1>3. PICK g : g = [Top(t) EXCEPT !.pc = pc]
  OBVIOUS
<1>4. pc \in Pcs /\ Onward(Top(t), g, pc, Top(t).s, Top(t).c, Top(t).ok) /\ Replace(t, g)
  BY <1>1, <1>2, <1>3, FramePc DEF Pcs, Goto
<1>5. Top(t).op = "invoke"
  BY <1>1 DEF Shape, Frame
<1>6. Quiet(Top(t), g) /\ (Inside(g, Top(t).c) <=> Inside(Top(t), Top(t).c))
  BY <1>1, <1>4, <1>5 DEF Quiet, Shape, SameRole, Onward, Dying, UsesSession, Opening, Closer, Holder, Asks, Inside
<1> QED
  BY <1>1, <1>4, <1>6, QuietStep DEF CopyParam, Onward, ctxVars

LEMMA ClosingInv ==
    ASSUME IInv, NEW t \in Threads, Closing(t)
    PROVE  IInv'
<1> DEFINE dead == Top(t).c \in panicked
           pc == IF dead THEN "unlink" ELSE "busy"
<1>1. At(t, "closing") /\ Top(t) \in Frame /\ Shape(Top(t)) /\ Top(t).pc = "closing"
  BY AtFacts DEF Closing
<1>3. PICK g : g = [Top(t) EXCEPT !.ok = ~dead, !.pc = pc]
  OBVIOUS
<1>4. pc \in Pcs /\ Onward(Top(t), g, pc, Top(t).s, Top(t).c, ~dead) /\ Replace(t, g)
  <2>1. pc \in Pcs /\ (~dead) \in BOOLEAN /\ Replace(t, g)
    BY <1>3 DEF Pcs, Closing
  <2> HIDE DEF dead, pc
  <2> QED
    BY <1>1, <1>3, <2>1, FrameOkPc
<1>5. Top(t).op = "close"
  BY <1>1 DEF Shape, Frame
<1>6. Quiet(Top(t), g) /\ (Inside(g, Top(t).c) <=> Inside(Top(t), Top(t).c))
  BY <1>1, <1>4, <1>5 DEF Quiet, Shape, SameRole, Onward, Dying, UsesSession, Opening, Closer, Holder, Asks, Inside
<1>7. g.pc \notin {"rel", "run"}
  BY <1>4 DEF Onward
<1> QED
  BY <1>1, <1>4, <1>6, <1>7, QuietStep DEF Closing, ctxVars

LEMMA EnterInv ==
    ASSUME IInv, NEW t \in Threads, Enter(t)
    PROVE  IInv'
<1> DEFINE f == Top(t)
           dead == f.c \in panicked
           pc == IF dead /\ f.op # "close" THEN "rel"
                 ELSE IF Refused(t, f.c) THEN AfterRun(f, dead) ELSE "run"
           ok == IF dead /\ f.op # "close" THEN FALSE
                 ELSE IF Refused(t, f.c) THEN f.op = "close" ELSE f.ok
<1>1. At(t, "enter") /\ f \in Frame /\ Shape(f) /\ f.pc = "enter" /\ fr[TopAt(t)] = f /\ TopAt(t) \in Places
  BY AtFacts DEF Enter
<1>2. pc \in Pcs /\ ok \in BOOLEAN /\ f.op \in {"open", "invoke", "close"} /\ f.c # None
  BY <1>1 DEF Pcs, AfterRun, Frame, Shape
<1>4. PICK g : Onward(f, g, pc, f.s, f.c, ok) /\ Replace(t, g)
  <2>1. CASE dead /\ f.op # "close"
    <3>1. Replace(t, [f EXCEPT !.ok = FALSE, !.pc = "rel"])
      BY <2>1 DEF Enter
    <3>2. pc = "rel" /\ ok = FALSE /\ "rel" \in Pcs
      BY <2>1 DEF Pcs
    <3> HIDE DEF pc, ok, dead
    <3>3. Onward(f, [f EXCEPT !.ok = FALSE, !.pc = "rel"], "rel", f.s, f.c, FALSE)
      BY <1>1, <3>2, FrameOkPc
    <3> QED
      BY <3>1, <3>2, <3>3
  <2>2. CASE ~(dead /\ f.op # "close") /\ Refused(t, f.c)
    <3>1. Replace(t, [f EXCEPT !.ok = (f.op = "close"), !.pc = AfterRun(f, dead)])
      BY <2>2 DEF Enter
    <3>2. pc = AfterRun(f, dead) /\ ok = (f.op = "close")
      BY <2>2
    <3>3. PICK k : k = AfterRun(f, dead)
      OBVIOUS
    <3> HIDE DEF pc, ok, dead
    <3>4. Onward(f, [f EXCEPT !.ok = (f.op = "close"), !.pc = k], k, f.s, f.c, f.op = "close")
      BY <1>1, <1>2, <3>2, <3>3, FrameOkPc
    <3> QED
      BY <3>1, <3>2, <3>3, <3>4
  <2>3. CASE ~(dead /\ f.op # "close") /\ ~Refused(t, f.c)
    <3>1. Replace(t, [f EXCEPT !.pc = "run"])
      BY <2>3 DEF Enter, Goto
    <3>2. pc = "run" /\ ok = f.ok /\ "run" \in Pcs
      BY <2>3 DEF Pcs
    <3> HIDE DEF pc, ok, dead
    <3>3. Onward(f, [f EXCEPT !.pc = "run"], "run", f.s, f.c, f.ok)
      BY <1>1, <3>2, FramePc
    <3> QED
      BY <3>1, <3>2, <3>3
  <2> QED
    BY <2>1, <2>2, <2>3
<1>5. \/ g.pc = "rel" /\ f.op # "close" /\ dead
      \/ g.pc = "clear" /\ f.op # "close"
      \/ g.pc = "unlink" /\ f.op = "close" /\ g.ok = TRUE
      \/ g.pc = "run" /\ ~Refused(t, f.c)
  BY <1>2, <1>4 DEF Onward, AfterRun
<1>6. Quiet(f, g) /\ (Inside(g, f.c) <=> Inside(f, f.c))
  BY <1>1, <1>2, <1>4, <1>5 DEF Quiet, Shape, SameRole, Onward, Dying, UsesSession, Opening, Closer, Holder, Asks, Inside
<1>7. g.pc = "rel" => g.c \in panicked'
  BY <1>4, <1>5 DEF Onward, Enter, ctxVars
<1>8. g.pc = "run" => g.c \notin released
  BY <1>4, <1>5 DEF Onward, Refused, IInv, PanicOK
<1> HIDE DEF pc, ok
<1> QED
  BY <1>1, <1>2, <1>4, <1>6, <1>7, <1>8, QuietStep DEF Enter, ctxVars

LEMMA RunReturnInv ==
    ASSUME IInv, NEW t \in Threads, RunReturn(t)
    PROVE  IInv'
<1> DEFINE f == Top(t)
           pc == AfterRun(f, f.c \in panicked)
<1>1. At(t, "run") /\ f \in Frame /\ Shape(f) /\ f.pc = "run"
  BY AtFacts DEF RunReturn
<1>2. pc \in Pcs /\ f.op \in {"open", "invoke", "close"} /\ f.c # None
  BY <1>1 DEF Pcs, AfterRun, Frame, Shape
<1>3. PICK ok \in BOOLEAN : (f.op = "close" => ok) /\ Replace(t, [f EXCEPT !.ok = ok, !.pc = pc])
  BY DEF RunReturn
<1>4. PICK g : Onward(f, g, pc, f.s, f.c, ok) /\ Replace(t, g)
  <2> HIDE DEF pc
  <2>1. Onward(f, [f EXCEPT !.ok = ok, !.pc = pc], pc, f.s, f.c, ok)
    BY <1>1, <1>2, FrameOkPc
  <2> QED
    BY <1>3, <2>1
<1>5. \/ g.pc = "rel" /\ f.op # "close" /\ f.c \in panicked
      \/ g.pc = "clear" /\ f.op # "close"
      \/ g.pc = "unlink" /\ f.op = "close" /\ g.ok = TRUE
  BY <1>2, <1>3, <1>4 DEF Onward, AfterRun
<1>6. Quiet(f, g) /\ (Inside(g, f.c) <=> Inside(f, f.c))
  BY <1>1, <1>2, <1>4, <1>5 DEF Quiet, Shape, SameRole, Onward, Dying, UsesSession, Opening, Closer, Holder, Asks, Inside
<1>7. (g.pc = "rel" => g.c \in panicked') /\ g.pc # "run"
  BY <1>4, <1>5 DEF Onward, RunReturn, ctxVars
<1> HIDE DEF pc
<1> QED
  BY <1>1, <1>2, <1>4, <1>6, <1>7, QuietStep DEF RunReturn, ctxVars

LEMMA RunPanicInv ==
    ASSUME IInv, NEW t \in Threads, RunPanic(t)
    PROVE  IInv'
<1> DEFINE f == Top(t)
           pc == AfterRun(f, TRUE)
           ok == f.op = "close"
<1>1. At(t, "run") /\ f \in Frame /\ Shape(f) /\ f.pc = "run"
  BY AtFacts DEF RunPanic
<1>2. pc \in Pcs /\ f.op \in {"open", "invoke", "close"} /\ f.c # None /\ f.c \in Ctxs /\ ok \in BOOLEAN
  BY <1>1 DEF Pcs, AfterRun, Frame, Shape
<1>3. Replace(t, [f EXCEPT !.ok = ok, !.pc = pc])
  BY DEF RunPanic
<1>4. PICK g : Onward(f, g, pc, f.s, f.c, ok) /\ Replace(t, g)
  <2> HIDE DEF pc, ok
  <2>1. Onward(f, [f EXCEPT !.ok = ok, !.pc = pc], pc, f.s, f.c, ok)
    BY <1>1, <1>2, FrameOkPc
  <2> QED
    BY <1>3, <2>1
<1>5. \/ g.pc = "rel" /\ f.op # "close"
      \/ g.pc = "unlink" /\ f.op = "close" /\ g.ok = TRUE
  BY <1>2, <1>3, <1>4 DEF Onward, AfterRun
<1>6. Quiet(f, g) /\ (Inside(g, f.c) <=> Inside(f, f.c))
  BY <1>1, <1>2, <1>4, <1>5 DEF Quiet, Shape, SameRole, Onward, Dying, UsesSession, Opening, Closer, Holder, Asks, Inside
<1>7. /\ panicked' = panicked \cup {g.c} /\ g.c \in Ctxs /\ uuid[g.c] \notin Pseudo
      /\ g.c \in panicked' /\ g.pc # "run"
  BY <1>2, <1>4, <1>5 DEF Onward, RunPanic
<1> HIDE DEF pc, ok
<1> QED
  BY <1>1, <1>2, <1>4, <1>6, <1>7, QuietStep DEF RunPanic

LEMMA SetBusyConcurrentInv ==
    ASSUME IInv, NEW t \in Threads, SetBusyConcurrent(t)
    PROVE  IInv'
<1>1. At(t, "busy") /\ Top(t) \in Frame /\ Shape(Top(t)) /\ Top(t).pc = "busy"
      /\ TopAt(t) \in Places /\ fr[TopAt(t)] = Top(t)
  BY AtFacts DEF SetBusyConcurrent
<1>3. PICK g : g = [Top(t) EXCEPT !.pc = "enter"]
  OBVIOUS
<1>4. "enter" \in Pcs /\ Onward(Top(t), g, "enter", Top(t).s, Top(t).c, Top(t).ok) /\ Replace(t, g)
  BY <1>1, <1>3, FramePc DEF Pcs, Goto, SetBusyConcurrent
<1>5. Top(t).op \in {"open", "invoke", "close"} /\ Top(t).c # None
  BY <1>1 DEF Shape, Frame
<1>6. Quiet(Top(t), g)
  BY <1>1, <1>4, <1>5 DEF Quiet, Shape, SameRole, Onward, Dying, UsesSession, Opening, Closer, Holder, Asks
<1>7. Top(t).c \in live /\ Concurrent(Top(t).c) /\ g.pc \notin {"rel", "run"}
  BY <1>1, <1>4, <1>5 DEF IInv, LiveOK, SetBusyConcurrent, Onward
<1> QED
  BY <1>1, <1>4, <1>6, <1>7, QuietStep DEF SetBusyConcurrent, ctxVars

\* Nothing but sleeping threads and a panic.
LEMMA SameInv ==
    ASSUME IInv, UNCHANGED <<ctxVars, busyVars, sessVars, stack>>, WaitOK',
           waiting' \in [Threads -> Cvs \cup {None}], calls' \in 0 .. MaxCalls, core_panic' \in BOOLEAN
    PROVE  IInv'
<1> USE DEF ctxVars, busyVars, sessVars
<1>1. TypeOK'
  BY DEF IInv, TypeOK
<1>2. fr' = fr /\ Places' = Places
  BY SameStep DEF Same
<1>3. SessionInv'
  BY <1>2 DEF IInv, SessionInv, SessionOK, UniqueOK, KnownOK, UnlinkOK, OpenOK, LockOK
<1>4. Shapes' /\ Nested'
  BY <1>2 DEF IInv, Shapes, Nested
<1>5. LiveOK' /\ ListOK' /\ InitOK'
  BY <1>2 DEF IInv, LiveOK, ListOK, InitOK
<1>6. DyingOK' /\ PanicOK'
  BY <1>2 DEF IInv, DyingOK, PanicOK, HasFlag, Single
<1>7. RefCountsExact' /\ InstanceRules'
  BY <1>2 DEF IInv, RefCountsExact, InstanceRules, HasFlag, Single, Call
<1>8. InsideOK' /\ LockCountOK'
  BY <1>2 DEF IInv, InsideOK, LockCountOK, Insiders, Concurrent, Single, HasFlag
<1> QED
  BY <1>1, <1>2, <1>3, <1>4, <1>5, <1>6, <1>7, <1>8 DEF IInv

LEMMA AwaitBusyInv ==
    ASSUME IInv, NEW t \in Threads, AwaitBusy(t)
    PROVE  IInv'
<1>1. Top(t) \in Frame /\ Shape(Top(t)) /\ Top(t).pc = "busy" /\ stack[t] # <<>> /\ TypeOK
      /\ TopAt(t) \in Places /\ fr[TopAt(t)] = Top(t)
  BY AtFacts DEF AwaitBusy
<1>2. Top(t).c \in Ctxs
  BY <1>1 DEF Shape, Frame
<1>3. PICK cv : cv = MustWaitOn(t, Top(t).c)
  OBVIOUS
<1>4. cv \in {SingleCv, BusyCv(Top(t).c)} /\ cv \in Cvs /\ Wait(t, cv)
  BY <1>2, <1>3, CvFacts DEF AwaitBusy, MustWaitOn
<1>5. /\ waiting' \in [Threads -> Cvs \cup {None}] /\ waiting'[t] = cv
      /\ \A u \in Threads \ {t} : waiting'[u] = waiting[u]
  <2>1. TypeOK /\ cv \in Cvs /\ Wait(t, cv)
    BY <1>1, <1>4
  <2> QED
    BY <2>1, WaitFacts
<1>6. /\ Others(t) /\ ChangedIn({}) /\ TopAt(t)' = TopAt(t) /\ fr' = fr /\ stack' = stack
  BY OthersSame DEF AwaitBusy
<1>7. Sleeping(waiting'[t], fr'[TopAt(t)'])
  BY <1>1, <1>4, <1>5, <1>6 DEF Sleeping
<1>8. WaitOK'
  BY <1>1, <1>5, <1>6, <1>7, WaitStep DEF IInv
<1> QED
  BY <1>1, <1>5, <1>8, SameInv DEF AwaitBusy, TypeOK

LEMMA BusyRefusedInv ==
    ASSUME IInv, NEW t \in Threads, BusyRefused(t)
    PROVE  IInv'
<1>1. At(t, "busy") /\ Top(t) \in Frame /\ Shape(Top(t)) /\ Top(t).pc = "busy" /\ TypeOK
  BY AtFacts DEF BusyRefused
<1>2. CASE Top(t).op = "open"
  <2>3. PICK g : g = [Top(t) EXCEPT !.ok = FALSE, !.pc = "put"]
    OBVIOUS
  <2>4. "put" \in Pcs /\ Onward(Top(t), g, "put", Top(t).s, Top(t).c, FALSE) /\ Replace(t, g)
    BY <1>1, <1>2, <2>3, FrameOkPc DEF Pcs, BusyRefused
  <2>5. Quiet(Top(t), g) /\ (Inside(g, Top(t).c) <=> Inside(Top(t), Top(t).c))
    BY <1>1, <1>2, <2>4 DEF Quiet, Shape, SameRole, Onward, Dying, UsesSession, Opening, Closer, Holder, Asks, Inside
  <2>6. g.pc \notin {"rel", "run"}
    BY <2>4 DEF Onward
  <2> QED
    BY <1>1, <1>2, <2>4, <2>5, <2>6, QuietStep DEF BusyRefused, ctxVars
<1>3. CASE Top(t).op # "open"
  <2>1. stack' = stack /\ waiting' = waiting /\ core_panic' = TRUE /\ calls' = calls
    BY <1>3 DEF BusyRefused
  <2>2. WaitOK'
    BY <2>1, SameStep DEF IInv, WaitOK, Same, TopAt
  <2> QED
    BY <1>1, <2>1, <2>2, SameInv DEF BusyRefused, TypeOK
<1> QED
  BY <1>2, <1>3

LEMMA SetBusyInv ==
    ASSUME IInv, NEW t \in Threads, SetBusy(t)
    PROVE  IInv'
<1> DEFINE c == Top(t).c
<1>1. /\ Top(t) \in Frame /\ Shape(Top(t)) /\ Top(t).pc = "busy" /\ stack[t] # <<>> /\ waiting[t] = None
      /\ TypeOK /\ TopAt(t) \in Places /\ fr[TopAt(t)] = Top(t)
  BY AtFacts DEF SetBusy
<1>3. PICK g : g = [Top(t) EXCEPT !.pc = "enter"]
  OBVIOUS
<1>4. g \in Frame /\ Onward(Top(t), g, "enter", Top(t).s, Top(t).c, Top(t).ok) /\ Replace(t, g)
  <2>1. "enter" \in Pcs /\ Replace(t, g)
    BY <1>3 DEF Pcs, Goto, SetBusy
  <2> QED
    BY <1>1, <1>3, <2>1, FramePc DEF Onward
<1>5. Top(t).op \in {"open", "invoke", "close"} /\ c # None /\ c \in Ctxs /\ c \in live
  BY <1>1 DEF Shape, Frame, IInv, LiveOK
<1>6. Quiet(Top(t), g) /\ ~Inside(Top(t), c) /\ Inside(g, c) /\ g.c = c
  BY <1>1, <1>4, <1>5 DEF Quiet, Shape, SameRole, Onward, Dying, UsesSession, Opening, Closer, Holder, Asks, Inside
<1>7. stack' \in [Threads -> Seq(Frame)] /\ Replaced(t, g)
  BY <1>1, <1>4, ReplaceStep
<1>8. g.pc \notin {"rel", "run"}
  BY <1>4 DEF Onward
<1>9. TypeOK'
  BY <1>1, <1>5, <1>7 DEF SetBusy, TypeOK, ctxVars, sessVars
<1>10. CoreInv'
  BY <1>1, <1>6, <1>7, <1>8, <1>9, QuietMove DEF SetBusy, ctxVars
<1>z. PICK z : z = TopAt(t)
  OBVIOUS
<1>11. /\ Moved(z, g) /\ ChangedIn({z}) /\ Others(t) /\ z[1] = t /\ fr[z] = Top(t)
  BY <1>z, <1>1, <1>7, ReplacedFacts
<1>12. InsideOK' /\ LockCountOK'
  <2>1. ~Concurrent(c) /\ c \notin busy /\ busy' = busy \cup {c} /\ UNCHANGED <<live, uuid>>
    BY DEF SetBusy, ctxVars
  <2>2. Single(c) => si_thread \in {z[1], None}
    <3>1. MustWaitOn(t, c) = None
      BY DEF SetBusy
    <3>2. SingleCv # None
      BY CvFacts, NoneOK
    <3> QED
      BY <1>11, <3>1, <3>2 DEF MustWaitOn
  <2>3. /\ si_thread' = IF Single(c) THEN z[1] ELSE si_thread
        /\ si_count' = IF Single(c) THEN si_count + 1 ELSE si_count
    BY <1>11 DEF SetBusy
  <2> HIDE DEF c
  <2>4. fr[z].c = c
    BY <1>11 DEF c
  <2> QED
    BY <1>1, <1>5, <1>6, <1>11, <2>1, <2>2, <2>3, <2>4, BusySet DEF IInv
<1>13. WaitOK'
  BY <1>1, <1>11, WaitStep DEF IInv, SetBusy
<1> QED
  BY <1>9, <1>10, <1>12, <1>13, InvSplit

\* tee_ta_clear_busy() finds the context busy and the lock its own.
LEMMA ClearBusyInv ==
    ASSUME IInv, NEW t \in Threads, ClearBusy(t)
    PROVE  IInv' /\ core_panic' = core_panic
<1> DEFINE c == Top(t).c
           pc == IF Top(t).op = "close" THEN "unref" ELSE "put"
<1>1. /\ Top(t) \in Frame /\ Shape(Top(t)) /\ Top(t).pc = "clear" /\ stack[t] # <<>> /\ waiting[t] = None
      /\ TypeOK /\ TopAt(t) \in Places /\ fr[TopAt(t)] = Top(t) /\ core_panic = FALSE
  BY AtFacts DEF ClearBusy, TypeOK
<1>3. PICK g : g = [Top(t) EXCEPT !.pc = pc]
  OBVIOUS
<1>4. g \in Frame /\ Onward(Top(t), g, pc, Top(t).s, Top(t).c, Top(t).ok) /\ Replace(t, g)
  <2>1. pc \in Pcs /\ Replace(t, g)
    BY <1>3 DEF Pcs, Goto, ClearBusy
  <2> HIDE DEF pc
  <2> QED
    BY <1>1, <1>3, <2>1, FramePc DEF Onward
<1>5. Top(t).op \in {"open", "invoke", "close"} /\ c # None /\ c \in Ctxs /\ c \in live
  BY <1>1 DEF Shape, Frame, IInv, LiveOK
<1>6. Quiet(Top(t), g) /\ Inside(Top(t), c) /\ ~Inside(g, c) /\ g.c = c
  BY <1>1, <1>4, <1>5 DEF Quiet, Shape, SameRole, Onward, Dying, UsesSession, Opening, Closer, Holder, Asks, Inside
<1>7. stack' \in [Threads -> Seq(Frame)] /\ Replaced(t, g)
  BY <1>1, <1>4, ReplaceStep
<1>8. g.pc \notin {"rel", "run"}
  BY <1>4 DEF Onward
<1>w. /\ waiting' \in [Threads -> Cvs \cup {None}]
      /\ \A u \in Threads : waiting'[u] \in {waiting[u], None}
      /\ \A u \in Threads : waiting[u] = None => waiting'[u] = None
  <2>1. waiting' = waiting \/ \E W : WakeUp(W)
    BY DEF ClearBusy
  <2>2. CASE waiting' = waiting
    BY <1>1, <2>2 DEF TypeOK
  <2>3. CASE \E W : WakeUp(W)
    BY <1>1, <2>3, WakeFacts
  <2> QED
    BY <2>1, <2>2, <2>3
<1>z. PICK z : z = TopAt(t)
  OBVIOUS
<1>11. /\ Moved(z, g) /\ ChangedIn({z}) /\ Others(t) /\ z[1] = t /\ fr[z] = Top(t) /\ fr'[z] = g
       /\ z \in Places /\ z \in Places'
  BY <1>z, <1>1, <1>7, ReplacedFacts
<1>12. /\ InsideOK' /\ LockCountOK' /\ core_panic' = FALSE
       /\ busy' \subseteq busy /\ si_thread' \in Threads \cup {None} /\ si_count' \in Nat
  <2>1. CASE Concurrent(c)
    <3>1. UNCHANGED <<busyVars, core_panic>>
      BY <2>1 DEF ClearBusy
    <3>2. ASSUME NEW d \in live, ~Concurrent(d) PROVE InsideAt(z, d)' <=> InsideAt(z, d)
      BY <1>6, <1>11, <2>1, <3>2 DEF InsideAt, Inside
    <3>3. live' = live /\ uuid' = uuid
      BY DEF ClearBusy, ctxVars
    <3>4. InsideOK' /\ LockCountOK'
      BY <1>11, <3>1, <3>2, <3>3, BusyKept DEF IInv
    <3> QED
      BY <1>1, <3>1, <3>4 DEF busyVars, TypeOK
  <2>2. CASE ~Concurrent(c)
    <3>1. busy' = busy \ {c} /\ UNCHANGED <<live, uuid>>
      BY <2>2 DEF ClearBusy, ctxVars
    <3>2. /\ si_count' = IF Single(c) THEN (IF si_count = 0 THEN 0 ELSE si_count - 1) ELSE si_count
          /\ si_thread' = IF Single(c) /\ si_count = 1 THEN None ELSE si_thread
          /\ core_panic' = (c \notin busy \/ (Single(c) /\ (si_thread # t \/ si_count = 0)))
      BY <2>2 DEF ClearBusy
    <3> HIDE DEF c
    <3>3. fr[z].c = c
      BY <1>11 DEF c
    <3>4. InsideOK' /\ LockCountOK' /\ c \in busy /\ (Single(c) => si_thread = z[1] /\ si_count # 0)
      BY <1>1, <1>5, <1>6, <1>11, <2>2, <3>1, <3>2, <3>3, BusyClear DEF IInv
    <3>5. core_panic' = FALSE
      BY <1>11, <3>2, <3>4
    <3>6. si_count' \in Nat /\ si_thread' \in Threads \cup {None}
      BY <1>1, <3>2 DEF TypeOK
    <3> QED
      BY <3>1, <3>4, <3>5, <3>6
  <2> QED
    BY <2>1, <2>2
<1>9. TypeOK'
  <2>1. CtxTypes /\ SessionTypes /\ CallTypes
    BY <1>1, TypeParts
  <2>2. UNCHANGED <<ctxVars, sessVars, calls>>
    BY DEF ClearBusy
  <2>3. CtxTypes'
    BY <1>12, <2>1, <2>2 DEF CtxTypes, ctxVars
  <2>4. SessionTypes'
    BY <2>1, <2>2 DEF SessionTypes, sessVars
  <2>5. CallTypes'
    BY <1>w, <1>7, <1>12, <2>1, <2>2 DEF CallTypes, sessVars
  <2> QED
    BY <2>3, <2>4, <2>5, TypePartsNext
<1>10. CoreInv'
  BY <1>1, <1>6, <1>7, <1>8, <1>9, <1>12, QuietMove DEF ClearBusy, ctxVars
<1>13. WaitOK'
  BY <1>1, <1>11, <1>w, WaitStep DEF IInv
<1> QED
  BY <1>1, <1>9, <1>10, <1>12, <1>13, InvSplit

LEMMA CountsGrown ==
    ASSUME RefsExact, CountExact, NEW z, NEW f, NEW y, NEW g, Grown(z, f, y, g),
           f.s = fr[z].s, f.c = fr[z].c, UsesSession(f) <=> UsesSession(fr[z]), ~UsesSession(g),
           \A c : ~ClosesLast(g, c), \A c : ClosesLast(f, c) <=> ClosesLast(fr[z], c),
           UNCHANGED <<refs, ref_count, ts_ctx>>
    PROVE  RefsExact' /\ CountExact'
<1>1. \A r : Users(r)' = Users(r)
  BY DEF Users, Grown, UsesSession
<1>2. \A c : Leaving(c)' = Leaving(c)
  BY DEF Leaving, Grown, ClosesLast
<1>3. \A c : Served(c)' = Served(c)
  BY DEF Served
<1> QED
  BY <1>1, <1>2, <1>3 DEF RefsExact, CountExact

LEMMA ReleaseCtxInv ==
    ASSUME IInv, NEW t \in Threads, ReleaseCtx(t)
    PROVE  IInv'
<1> DEFINE c == Top(t).c
<1>1. /\ At(t, "rel") /\ Top(t) \in Frame /\ Shape(Top(t)) /\ Top(t).pc = "rel" /\ stack[t] # <<>>
      /\ waiting[t] = None /\ TypeOK /\ TopAt(t) \in Places /\ fr[TopAt(t)] = Top(t)
  BY AtFacts DEF ReleaseCtx
<1>2. PICK f : f = [Top(t) EXCEPT !.ok = FALSE, !.pc = "clear"]
  OBVIOUS
<1>3. f \in Frame /\ Onward(Top(t), f, "clear", Top(t).s, Top(t).c, FALSE) /\ "clear" \in Pcs
  <2>1. "clear" \in Pcs
    BY DEF Pcs
  <2> QED
    BY <1>1, <1>2, <2>1, FrameOkPc DEF Onward
<1>4. /\ Top(t).op \in {"open", "invoke"} /\ c # None /\ c \in Ctxs /\ c \in live /\ c \in panicked
      /\ uuid[c] \notin Pseudo /\ c \notin is_initializing
  <2>1. Top(t).op \in {"open", "invoke"} /\ c # None /\ c \in Ctxs
    BY <1>1 DEF Shape, Frame
  <2>2. c \in live /\ c \in panicked /\ uuid[c] \notin Pseudo
    BY <1>1, <2>1 DEF IInv, LiveOK, PanicOK
  <2>3. c \notin is_initializing
    BY <1>1, NotLoading DEF IInv
  <2> QED
    BY <2>1, <2>2, <2>3
<1>5. Quiet(Top(t), f) /\ Inside(Top(t), c) /\ Inside(f, c) /\ f.c = c
  BY <1>1, <1>3, <1>4 DEF Quiet, Shape, SameRole, Onward, Dying, UsesSession, Opening, Closer, Holder, Asks, Inside
<1>6. CASE c \in is_releasing
  <2>1. Replace(t, f) /\ is_releasing' = is_releasing /\ tee_ctxes' = tee_ctxes
    BY <1>2, <1>6 DEF ReleaseCtx
  <2>2. f.pc \notin {"rel", "run"}
    BY <1>3 DEF Onward
  <2> QED
    BY <1>1, <1>3, <1>5, <2>1, <2>2, QuietStep DEF ReleaseCtx
<1>7. CASE c \notin is_releasing
  <2>1. PICK g : g = [op |-> "release", pc |-> "loop", list |-> c, u |-> None,
                      s |-> None, c |-> c, ok |-> TRUE]
    OBVIOUS
  <2>2. /\ g \in Frame /\ g.op = "release" /\ g.pc = "loop" /\ g.list = c /\ g.s = None /\ g.c = c
    BY <1>4, <2>1 DEF Frame
  <2>3. /\ stack' = [stack EXCEPT ![t] = Append(Append(Front(@), f), g)]
        /\ tee_ctxes' = RemoveFirst(tee_ctxes, c) /\ is_releasing' = is_releasing \cup {c}
    BY <1>2, <1>7, <2>1 DEF ReleaseCtx, Delisted
  <2>u. /\ UNCHANGED <<live, uuid, ref_count, is_initializing, panicked, released, busyVars>>
        /\ UNCHANGED <<owner, ts_ctx, refs, lock_thread, unlink, known, waiting, calls, core_panic>>
    BY DEF ReleaseCtx, sessVars
  <2>4. /\ stack' \in [Threads -> Seq(Frame)] /\ Grown(TopAt(t), f, NewAt(t), g)
        /\ Others(t) /\ stack'[t] # <<>> /\ TopAt(t)' = NewAt(t)
        /\ Under(NewAt(t)) = TopAt(t) /\ NewAt(t)[2] > 1
    BY <1>1, <1>3, <2>2, <2>3, ReleaseStep
  <2>z. PICK z : z = TopAt(t)
    OBVIOUS
  <2>y. PICK y : y = NewAt(t)
    OBVIOUS
  <2>5. /\ Grown(z, f, y, g) /\ ChangedIn({z, y}) /\ z[1] = t /\ y[1] = t /\ fr[z] = Top(t)
        /\ z \in Places /\ z \in Places' /\ y \notin Places /\ y \in Places' /\ fr'[z] = f /\ fr'[y] = g
        /\ Places' = Places \cup {y}
    BY <1>1, <2>4, <2>z, <2>y, ChangedOne, TopFacts DEF Grown, NewAt
  <2>6. Shape(f) /\ Shape(g) /\ ~Dying(Top(t)) /\ ~Dying(f) /\ ~Dying(g) /\ SameRole(Top(t), f) /\ NoRole(g)
    <3>1. Shape(f) /\ ~Dying(Top(t)) /\ ~Dying(f) /\ SameRole(Top(t), f)
      BY <1>5 DEF Quiet
    <3>2. Shape(g) /\ ~Dying(g) /\ NoRole(g)
      BY <1>4, <2>2, NoneOK DEF Shape, Dying, NoRole, UsesSession, Opening, Closer, Asks
    <3> QED
      BY <3>1, <3>2
  <2>7. f.list = Top(t).list /\ f.op = Top(t).op /\ f.pc = "clear" /\ f.s = Top(t).s
    BY <1>3 DEF Onward
  <2> HIDE DEF c
  <2>8. TypeOK'
    <3>1. tee_ctxes' \in Seq(Ctxs)
      BY <1>1, <2>3, RemoveFirstFacts DEF TypeOK, IInv, ListOK
    <3> QED
      BY <1>1, <1>4, <2>3, <2>4, <2>u, <3>1 DEF TypeOK, busyVars
  <2>9. Shapes'
    BY <2>5, <2>6 DEF IInv, Shapes, Shape, Grown
  <2>10. Nested'
    <3>1. UuidKept
      BY <2>u DEF UuidKept
    <3>2. f.op # "close" /\ f.c = g.list /\ g.list \in live /\ uuid'[g.list] \notin Pseudo
      BY <1>4, <1>5, <2>2, <2>7, <2>u
    <3> QED
      BY <1>1, <2>2, <2>4, <2>7, <3>1, <3>2, NestedGrown DEF IInv
  <2>11. IsFiniteSet(Places')
    BY <2>5, FiniteKept DEF IInv
  <2>12. SessionInv'
    <3>1. SessionsKept
      BY <2>u DEF SessionsKept
    <3>2. g.pc \notin {"find", "fail"}
      BY <2>2
    <3> QED
      BY <2>5, <2>6, <3>1, <3>2, GrownNoRole DEF IInv
  <2>13. LiveOK'
    <3>1. f.list \in live \cup {Nsec} /\ f.c \in live /\ g.c \in live /\ g.list \in live
      BY <1>4, <1>5, <2>2, <2>5, <2>7 DEF IInv, LiveOK
    <3>2. (\A d \in live' : uuid'[d] \in Uuids) /\ live' \subseteq Ctxs
      BY <2>u DEF IInv, LiveOK, TypeOK
    <3>3. \A x \in {z, y} : x \in Places' =>
              (fr'[x]).c \in live' \cup {None} /\ (fr'[x]).list \in live' \cup {Nsec}
      BY <2>5, <2>u, <3>1
    <3>4. is_releasing' \subseteq is_releasing \cup live'
      BY <1>4, <2>3, <2>u
    <3> QED
      BY <1>1, <2>5, <2>u, <3>2, <3>3, <3>4, LiveStep DEF IInv, busyVars
  <2>14. ListOK'
    <3>1. live' \ is_releasing' = (live \ is_releasing) \ {c}
      BY <2>3, <2>u
    <3> QED
      BY <1>1, <2>3, <3>1, ListLess DEF IInv
  <2>15. InitOK'
    <3>1. \A x \in {z, y} : /\ x \in Places => fr[x].pc # "load"
                            /\ x \in Places' => (fr'[x]).pc # "load" /\ (fr'[x]).c \notin is_initializing
      BY <1>1, <1>4, <1>5, <2>2, <2>5, <2>7
    <3>2. is_releasing' \cap is_initializing \subseteq is_releasing
      BY <1>4, <2>3
    <3> QED
      BY <2>5, <2>u, <3>1, <3>2, InitKept DEF IInv, busyVars
  <2>16. DyingOK'
    <3>1. \A x \in {z, y} : (x \in Places => ~Dying(fr[x])) /\ (x \in Places' => ~Dying(fr'[x]))
      BY <2>5, <2>6
    <3>2. is_releasing' \ panicked' \subseteq is_releasing \ panicked
      BY <1>4, <2>3, <2>u
    <3>3. is_releasing \subseteq is_releasing'
      BY <2>3
    <3> QED
      BY <1>1, <2>5, <2>u, <3>1, <3>2, <3>3, DyingKept DEF IInv
  <2>17. PanicOK'
    <3>1. /\ f.pc \notin {"rel", "run"} /\ f.op # "release" /\ g.pc \notin {"rel", "run"}
          /\ g.c \in panicked' \cap is_releasing'
      BY <1>4, <2>2, <2>3, <2>7, <2>u
    <3>2. \A x \in {z, y} : x \in Places' =>
              /\ (fr'[x]).pc = "rel" => (fr'[x]).c \in panicked'
              /\ (fr'[x]).op = "release" => (fr'[x]).c \in panicked' \cap is_releasing'
              /\ (fr'[x]).pc = "run" => (fr'[x]).c \notin released'
      BY <2>5, <3>1
    <3>3. \A d \in panicked : uuid'[d] \notin Pseudo
      BY <2>u DEF IInv, PanicOK
    <3> QED
      BY <2>3, <2>5, <2>u, <3>2, <3>3, PanicStep DEF IInv
  <2>18. RefCountsExact'
    <3>1. UsesSession(f) <=> UsesSession(fr[z])
      BY <2>5, <2>6 DEF SameRole
    <3>2. ~UsesSession(g) /\ \A d : ~ClosesLast(g, d)
      BY <2>2, <2>6 DEF NoRole, ClosesLast
    <3>3. \A d : ClosesLast(f, d) <=> ClosesLast(fr[z], d)
      BY <1>4, <2>5, <2>7 DEF ClosesLast
    <3>4. f.c = fr[z].c
      BY <1>5, <2>5 DEF c
    <3>5. RefsExact' /\ CountExact'
      BY <2>5, <2>7, <2>u, <3>1, <3>2, <3>3, <3>4, CountsGrown, InvFacts
    <3>6. (RefCountsExact <=> RefsExact /\ CountExact)'
      BY CountParts, PTL
    <3> QED
      BY <3>5, <3>6
  <2>19. InstanceRules'
    <3>1. CountsFit
      BY <1>1, <2>u DEF CountsFit, TypeOK
    <3>2. InstanceRules /\ ListOK /\ TypeOK /\ live' \subseteq live
          /\ (\A d \in live' : uuid'[d] = uuid[d]) /\ live' \ is_releasing' \subseteq live \ is_releasing
      BY <2>3, <2>u DEF IInv
    <3> QED
      BY <2>8, <2>14, <3>1, <3>2, RulesKept
  <2>20. InsideOK' /\ LockCountOK'
    <3>1. ASSUME NEW x \in {z, y}, NEW d \in live PROVE InsideAt(x, d)' <=> InsideAt(x, d)
      <4>1. CASE x = z
        <5>1. (InsideAt(z, d)' <=> Inside(f, d)) /\ (InsideAt(z, d) <=> Inside(Top(t), d))
          BY <2>5 DEF InsideAt, Inside
        <5>2. Inside(f, d) <=> Inside(Top(t), d)
          BY <1>5 DEF Inside
        <5> QED
          BY <4>1, <5>1, <5>2
      <4>2. CASE x = y
        <5>1. ~Inside(g, d)
          BY <2>2 DEF Inside
        <5>2. (InsideAt(y, d)' <=> Inside(g, d)) /\ ~InsideAt(y, d)
          BY <2>5 DEF InsideAt, Inside
        <5> QED
          BY <4>2, <5>1, <5>2
      <4> QED
        BY <4>1, <4>2
    <3> QED
      BY <2>5, <2>u, <3>1, BusyKept DEF IInv
  <2>21. WaitOK'
    BY <1>1, <2>4, <2>5, <2>u, WaitStep DEF IInv
  <2> QED
    BY <2>8, <2>9, <2>10, <2>11, <2>12, <2>13, <2>14, <2>15, <2>16, <2>17, <2>18, <2>19, <2>20, <2>21 DEF IInv
<1> QED
  BY <1>6, <1>7

-----------------------------------------------------------------------------
(* Steps on sessions: the contexts and the lock stay as they are           *)

\* A step at place z of thread t that leaves the contexts alone.
StillAt(t, z) ==
    /\ Changed(z) /\ z[1] = t /\ Others(t)
    /\ z \in Places => fr[z].pc # "load" /\ ~Dying(fr[z])
    /\ z \in Places' =>
         /\ (fr'[z]).pc \notin {"load", "rel", "run"} /\ (fr'[z]).op # "release" /\ ~Dying(fr'[z])
         /\ (fr'[z]).c \in (live \ is_initializing) \cup {None}
         /\ (fr'[z]).list \in live \cup {Nsec}
    /\ \A c \in live : InsideAt(z, c)' <=> InsideAt(z, c)

\* The sessions that appear belong to TAs that run or to the normal world.
OwnersStill ==
    \A s \in Sessions :
        \/ owner'[s] \in {owner[s], None, Nsec}
        \/ owner'[s] \in live \ is_initializing /\ uuid[owner'[s]] \notin Pseudo

ServedStill == \A s \in Sessions : ts_ctx'[s] \in {ts_ctx[s], None}

\* The other threads sleep on or wake up.
SleepersStill(t) ==
    /\ \A u \in Threads \ {t} : waiting'[u] \in {waiting[u], None}
    /\ waiting'[t] = None \/ (stack'[t] # <<>> /\ Sleeping(waiting'[t], fr'[TopAt(t)']))

LEMMA StillStep ==
    ASSUME IInv, TypeOK', NEW t \in Threads, NEW z, StillAt(t, z), OwnersStill, ServedStill,
           SleepersStill(t), Shapes', Nested', SessionInv', RefsExact', CountExact',
           UNCHANGED ctxVars, UNCHANGED busyVars
    PROVE  IInv'
<1>u. /\ UNCHANGED <<tee_ctxes, live, uuid, ref_count, is_initializing, is_releasing, panicked, released>>
      /\ UNCHANGED <<busy, si_thread, si_count>>
  BY DEF ctxVars, busyVars
<1>1. ChangedIn({z})
  BY ChangedOne DEF StillAt
<1>2. IsFiniteSet(Places')
  <2>1. Places' = Places \/ Places' = Places \ {z} \/ Places' = Places \cup {z}
    BY DEF StillAt, Changed
  <2> QED
    BY <2>1, FiniteKept DEF IInv
<1>3. LiveOK'
  <2>1. (\A d \in live' : uuid'[d] \in Uuids) /\ live' \subseteq Ctxs
    BY <1>u DEF IInv, LiveOK, TypeOK
  <2>2. \A x \in {z} : x \in Places' =>
              (fr'[x]).c \in live' \cup {None} /\ (fr'[x]).list \in live' \cup {Nsec}
    BY <1>u DEF StillAt
  <2>3. \A s \in Sessions : \/ owner'[s] \in {owner[s], None, Nsec}
                            \/ owner'[s] \in live /\ uuid[owner'[s]] \notin Pseudo
    BY DEF OwnersStill
  <2>4. \A s \in Sessions : ts_ctx'[s] \in {ts_ctx[s], None} \cup live'
    BY DEF ServedStill
  <2>5. LiveOK /\ TypeOK
    BY DEF IInv
  <2> QED
    BY <1>u, <1>1, <2>1, <2>2, <2>3, <2>4, <2>5, LiveStep
<1>4. ListOK'
  BY <1>u, ListKept DEF IInv
<1>5. InitOK'
  <2>1. \A x \in {z} : /\ x \in Places => fr[x].pc # "load"
                       /\ x \in Places' => (fr'[x]).pc # "load" /\ (fr'[x]).c \notin is_initializing
    BY NoneOK DEF StillAt, IInv, TypeOK
  <2>2. /\ \A s \in Sessions : owner'[s] = owner[s] \/ owner'[s] \notin is_initializing
        /\ \A s \in Sessions : ts_ctx'[s] = ts_ctx[s] \/ ts_ctx'[s] \notin is_initializing
    <3>1. is_initializing \subseteq Ctxs
      BY DEF IInv, TypeOK
    <3>2. None \notin is_initializing /\ Nsec \notin is_initializing
      BY <3>1, NoneOK, NsecOK
    <3> QED
      BY <3>2 DEF OwnersStill, ServedStill
  <2>3. InitOK
    BY DEF IInv
  <2> QED
    BY <1>u, <1>1, <2>1, <2>2, <2>3, InitKept
<1>6. DyingOK'
  <2>1. \A x \in {z} : (x \in Places => ~Dying(fr[x])) /\ (x \in Places' => ~Dying(fr'[x]))
    BY DEF StillAt
  <2>2. DyingOK /\ TypeOK
    BY DEF IInv
  <2> QED
    BY <1>u, <1>1, <2>1, <2>2, DyingKept
<1>7. PanicOK'
  <2>1. \A x \in {z} : x \in Places' =>
              /\ (fr'[x]).pc = "rel" => (fr'[x]).c \in panicked'
              /\ (fr'[x]).op = "release" => (fr'[x]).c \in panicked' \cap is_releasing'
              /\ (fr'[x]).pc = "run" => (fr'[x]).c \notin released'
    BY DEF StillAt
  <2>2. PanicOK /\ \A d \in panicked : uuid'[d] \notin Pseudo
    BY <1>u DEF IInv, PanicOK
  <2> QED
    BY <1>u, <1>1, <2>1, <2>2, PanicStep
<1>8. RefCountsExact'
  <2>1. (RefCountsExact <=> RefsExact /\ CountExact)'
    BY CountParts, PTL
  <2> QED
    BY <2>1
<1>9. InstanceRules'
  <2>1. CountsFit
    BY <1>u DEF CountsFit, IInv, TypeOK
  <2>2. InstanceRules /\ ListOK /\ TypeOK
    BY DEF IInv
  <2> QED
    BY <1>u, <1>4, <2>1, <2>2, RulesKept
<1>10. InsideOK' /\ LockCountOK'
  <2>1. \A x \in {z}, c \in live \cup live' : (c \in live => ~Concurrent(c)) =>
              (InsideAt(x, c)' <=> InsideAt(x, c))
    BY <1>u DEF StillAt
  <2>2. InsideOK /\ LockCountOK /\ LiveOK
    BY DEF IInv
  <2> QED
    BY <1>u, <1>1, <2>1, <2>2, BusyKept DEF busyVars
<1>11. WaitOK'
  <2>1. WaitOK /\ TypeOK /\ Others(t) /\ \A x \in {z} : x[1] = t
    BY DEF IInv, StillAt
  <2> QED
    BY <1>1, <2>1, WaitStep DEF SleepersStill
<1> QED
  BY <1>2, <1>3, <1>4, <1>5, <1>6, <1>7, <1>8, <1>9, <1>10, <1>11 DEF IInv

\* The frames' part of StillAt where a call goes on, returns or begins.
LEMMA StillMoved ==
    ASSUME IInv, NEW t \in Threads, stack[t] # <<>>, NEW g, Replaced(t, g),
           Top(t).pc # "load", ~Dying(Top(t)), g.pc \notin {"load", "rel", "run"}, g.op # "release", ~Dying(g),
           g.c \in (live \ is_initializing) \cup {None}, g.list = Top(t).list,
           \A c \in live : Inside(g, c) <=> Inside(Top(t), c), NEW z, z = TopAt(t)
    PROVE  StillAt(t, z) /\ Moved(z, g) /\ Changed(z) /\ fr[z] = Top(t) /\ z \in Places /\ z \in Places'
           /\ fr'[z] = g /\ z[1] = t
<1>1. /\ Moved(z, g) /\ Changed(z) /\ Others(t) /\ z[1] = t /\ fr[z] = Top(t) /\ fr'[z] = g
      /\ z \in Places /\ z \in Places'
  BY ReplacedFacts DEF IInv
<1>2. g.list \in live \cup {Nsec}
  BY <1>1 DEF IInv, LiveOK
<1>3. \A c \in live : InsideAt(z, c)' <=> InsideAt(z, c)
  BY <1>1 DEF InsideAt, Inside
<1> QED
  BY <1>1, <1>2, <1>3 DEF StillAt

LEMMA StillGone ==
    ASSUME IInv, NEW t \in Threads, stack[t] # <<>>, Returned(t),
           Top(t).pc \in {"init", "fail", "put", "get", "lock"}, NEW z, z = TopAt(t)
    PROVE  StillAt(t, z) /\ Gone(z) /\ Changed(z) /\ fr[z] = Top(t) /\ z \in Places /\ z \notin Places'
           /\ z[1] = t
<1>1. /\ Gone(z) /\ Changed(z) /\ Others(t) /\ z[1] = t /\ fr[z] = Top(t)
      /\ z \in Places /\ z \notin Places'
  BY ReturnedFacts DEF IInv
<1>2. Shape(Top(t)) /\ Top(t) \in Frame
  BY <1>1, InvFacts
<1>3. Top(t).pc # "load" /\ ~Dying(Top(t)) /\ \A c : ~Inside(Top(t), c)
  BY <1>2 DEF Dying, Inside, Shape
<1>4. \A c \in live : InsideAt(z, c)' <=> InsideAt(z, c)
  BY <1>1, <1>3 DEF InsideAt, Inside
<1> QED
  BY <1>1, <1>3, <1>4 DEF StillAt

LEMMA StillCame ==
    ASSUME IInv, NEW t \in Threads, NEW g, Pushed(t, g),
           g.pc \in {"init", "get"}, g.op \notin {"release", "destroy"},
           g.c = None, g.list \in live \cup {Nsec}, NEW y, y = NewAt(t)
    PROVE  StillAt(t, y) /\ Came(y, g) /\ Changed(y) /\ y \notin Places /\ y \in Places'
           /\ fr'[y] = g /\ y[1] = t
<1>1. /\ Came(y, g) /\ Changed(y) /\ Others(t) /\ y[1] = t /\ fr'[y] = g
      /\ y \notin Places /\ y \in Places'
  BY PushedFacts DEF IInv
<1>2. ~Dying(g) /\ \A c : ~Inside(g, c)
  BY DEF Dying, Inside
<1>3. \A c \in live : InsideAt(y, c)' <=> InsideAt(y, c)
  BY <1>1, <1>2 DEF InsideAt, Inside
<1> QED
  BY <1>1, <1>2, <1>3 DEF StillAt

-----------------------------------------------------------------------------
(* Requests                                                                *)

\* A request is made by the normal world or in a TA that runs.
LEMMA CallerNested ==
    ASSUME IInv, NEW t \in Threads, NEW l, Caller(t, l), NEW g, Pushed(t, g), g.list = l,
           g.op \notin {"release", "destroy"}, uuid' = uuid
    PROVE  l \in live \cup {Nsec} /\ l \in Ctxs \cup {Nsec} /\ Nested'
<1>y. PICK y : y = NewAt(t)
  OBVIOUS
<1>1. /\ Came(y, g) /\ fr'[y] = g /\ Under(y) = TopAt(t) /\ y[2] = Len(stack[t]) + 1
  BY <1>y, PushedFacts DEF IInv, Pushed, NewAt
<1>2. CASE stack[t] = <<>>
  <2>1. y[2] = 1 /\ l = Nsec
    BY <1>1, <1>2, NsecOK DEF Caller
  <2>2. Nest(y)'
    BY <1>1, <2>1, NsecOK DEF Nest
  <2> QED
    BY <1>1, <2>1, <2>2, NestedCame DEF IInv, UuidKept
<1>3. CASE stack[t] # <<>>
  <2>1. /\ TopAt(t) \in Places /\ fr[TopAt(t)] = Top(t) /\ Top(t) \in Frame /\ Len(stack[t]) \in Nat
        /\ Len(stack[t]) > 0
    BY <1>3, TopFacts, FrFacts, EmptySeq DEF IInv
  <2>2. Top(t).pc = "run" /\ l = Top(t).c /\ uuid[l] \notin Pseudo
    BY <1>3 DEF Caller
  <2>3. Shape(Top(t))
    BY <2>1, InvFacts
  <2>4. l \in live /\ l \in Ctxs /\ l # Nsec
    <3>1. l # None
      BY <2>2, <2>3, <2>1 DEF Shape, Frame
    <3> QED
      BY <2>1, <2>2, <3>1, NsecOK DEF IInv, LiveOK, Frame
  <2>5. y[2] > 1
    BY <1>1, <2>1
  <2>6. fr'[Under(y)] = Top(t)
    BY <1>1, <2>1 DEF Came
  <2>7. Over(g, fr'[Under(y)])
    BY <2>2, <2>6 DEF Over
  <2>8. Nest(y)'
    BY <1>1, <2>2, <2>4, <2>5, <2>7 DEF Nest, Over, Under
  <2> QED
    BY <1>1, <2>4, <2>8, NestedCame DEF IInv, UuidKept
<1> QED
  BY <1>2, <1>3

\* What is common to the requests.
LEMMA RequestStep ==
    ASSUME IInv, NEW t \in Threads, NEW l, Caller(t, l), NEW g \in Frame, Request(t, g), g.list = l,
           g.op \notin {"release", "destroy"}, g.c = None, g.pc \in {"init", "get"}, Shape(g), ~UsesSession(g),
           UNCHANGED <<owner, ts_ctx, refs, lock_thread, unlink>>, known' \subseteq known, SessionInv'
    PROVE  IInv'
<1>1. Pushed(t, g) /\ stack' \in [Threads -> Seq(Frame)] /\ UNCHANGED ctxVars /\ UNCHANGED busyVars
      /\ waiting' = waiting /\ core_panic' = core_panic /\ calls' = calls + 1 /\ uuid' = uuid
  BY PushStep DEF Request, IInv, ctxVars
<1>2. l \in live \cup {Nsec} /\ Nested'
  BY <1>1, CallerNested
<1>y. PICK y : y = NewAt(t)
  OBVIOUS
<1>3. StillAt(t, y) /\ Came(y, g) /\ Changed(y) /\ y \notin Places /\ y \in Places' /\ fr'[y] = g
  BY <1>y, <1>1, <1>2, StillCame
<1>4. TypeOK'
  <2>1. calls' \in 0 .. MaxCalls
    BY <1>1, BoundsOK DEF IInv, TypeOK, Caller
  <2> QED
    BY <1>1, <2>1 DEF IInv, TypeOK, ctxVars, busyVars
<1>5. Shapes'
  BY <1>3, ShapesCame DEF IInv
<1>6. RefsExact'
  <2>1. \A r \in Sessions : UsesAt(y, r)' <=> UsesAt(y, r)
    BY <1>3 DEF UsesAt, UsesSession
  <2> QED
    BY <1>3, <2>1, RefsKept, InvFacts
<1>7. CountExact'
  <2>1. \A c \in Ctxs : LeavesAt(y, c)' <=> LeavesAt(y, c)
    BY <1>3 DEF LeavesAt, ClosesLast
  <2> QED
    BY <1>1, <1>3, <2>1, CountKept, InvFacts DEF ctxVars
<1>8. OwnersStill /\ ServedStill
  BY DEF OwnersStill, ServedStill
<1>9. SleepersStill(t)
  BY <1>1 DEF SleepersStill, Caller
<1> QED
  BY <1>1, <1>2, <1>3, <1>4, <1>5, <1>6, <1>7, <1>8, <1>9, StillStep

LEMMA CallOpenInv ==
    ASSUME IInv, NEW t \in Threads, NEW l \in Ctxs \cup {Nsec}, NEW u \in Uuids, CallOpen(t, l, u)
    PROVE  IInv'
<1>1. PICK g : g = [op |-> "open", pc |-> "init", list |-> l, u |-> u,
                    s |-> None, c |-> None, ok |-> TRUE]
  OBVIOUS
<1>2. /\ g \in Frame /\ g.op = "open" /\ g.pc = "init" /\ g.list = l /\ g.u = u /\ g.s = None /\ g.c = None
  BY <1>1 DEF Frame
<1>3. /\ Caller(t, l) /\ Request(t, g)
      /\ UNCHANGED <<owner, ts_ctx, refs, lock_thread, unlink, known>>
  BY <1>1 DEF CallOpen, sessVars
<1>4. Shape(g) /\ ~UsesSession(g) /\ NoRole(g)
  BY <1>2, NoneOK DEF Shape, NoRole, UsesSession, Opening, Closer, Asks
<1>5. SessionInv'
  <2>y. PICK y : y = NewAt(t)
    OBVIOUS
  <2>1. Came(y, g)
    BY <1>2, <1>3, <2>y, PushStep, PushedFacts DEF Request, IInv
  <2>2. SessionsKept /\ g.pc \notin {"find", "fail"}
    BY <1>2, <1>3 DEF SessionsKept
  <2> QED
    BY <1>4, <2>1, <2>2, CameNoRole, InvFacts DEF IInv
<1>6. /\ g.op \notin {"release", "destroy"} /\ g.pc \in {"init", "get"} /\ g.list = l /\ g.c = None
      /\ known' \subseteq known
  BY <1>2, <1>3
<1> QED
  BY <1>2, <1>3, <1>4, <1>5, <1>6, RequestStep

LEMMA CallSessionInv ==
    ASSUME IInv, NEW t \in Threads, NEW s \in Sessions, NEW op \in {"invoke", "cancel"},
           CallSession(t, owner[s], s, op)
    PROVE  IInv'
<1>0. PICK l : l = owner[s]
  OBVIOUS
<1>1. PICK g : g = [op |-> op, pc |-> "get", list |-> l, u |-> None,
                    s |-> s, c |-> None, ok |-> TRUE]
  OBVIOUS
<1>2. /\ g \in Frame /\ g.op = op /\ g.pc = "get" /\ g.list = l /\ g.s = s /\ g.c = None
  <2>1. l \in Ctxs \cup {Nsec, None}
    BY <1>0 DEF IInv, TypeOK
  <2> QED
    BY <1>1, <2>1 DEF Frame
<1>3. /\ Caller(t, l) /\ Request(t, g) /\ s \in known
      /\ UNCHANGED <<owner, ts_ctx, refs, lock_thread, unlink, known>>
  BY <1>0, <1>1 DEF CallSession, sessVars
<1>4. Shape(g) /\ ~UsesSession(g) /\ Asks(g)
  <2>1. l # None
    BY <1>0, <1>3, InvFacts DEF KnownOK
  <2> QED
    BY <1>2, <2>1, NoneOK DEF Shape, UsesSession, Asks
<1>5. SessionInv'
  <2>y. PICK y : y = NewAt(t)
    OBVIOUS
  <2>1. Came(y, g)
    BY <1>2, <1>3, <2>y, PushStep, PushedFacts DEF Request, IInv
  <2>2. SessionsKept /\ g.pc = "get" /\ g.s \in known
    BY <1>2, <1>3 DEF SessionsKept
  <2> QED
    BY <1>4, <2>1, <2>2, CameAsks, InvFacts DEF IInv
<1>6. /\ g.op \notin {"release", "destroy"} /\ g.pc \in {"init", "get"} /\ g.list = l /\ g.c = None
      /\ known' \subseteq known
  BY <1>2, <1>3
<1> QED
  BY <1>2, <1>3, <1>4, <1>5, <1>6, RequestStep

LEMMA CallCloseInv ==
    ASSUME IInv, NEW t \in Threads, NEW s \in Sessions, CallClose(t, owner[s], s)
    PROVE  IInv'
<1>0. PICK l : l = owner[s]
  OBVIOUS
<1>1. PICK g : g = [op |-> "close", pc |-> "get", list |-> l, u |-> None,
                    s |-> s, c |-> None, ok |-> FALSE]
  OBVIOUS
<1>2. /\ g \in Frame /\ g.op = "close" /\ g.pc = "get" /\ g.list = l /\ g.s = s /\ g.c = None
  <2>1. l \in Ctxs \cup {Nsec, None}
    BY <1>0 DEF IInv, TypeOK
  <2> QED
    BY <1>1, <2>1 DEF Frame
<1>3. /\ Caller(t, l) /\ Request(t, g) /\ s \in known /\ known' = known \ {s}
      /\ UNCHANGED <<owner, ts_ctx, refs, lock_thread, unlink>>
  BY <1>0, <1>1 DEF CallClose
<1>4. Shape(g) /\ ~UsesSession(g)
  <2>1. l # None
    BY <1>0, <1>3, InvFacts DEF KnownOK
  <2> QED
    BY <1>2, <2>1, NoneOK DEF Shape, UsesSession
<1>5. SessionInv'
  <2>y. PICK y : y = NewAt(t)
    OBVIOUS
  <2>1. Came(y, g)
    BY <1>2, <1>3, <2>y, PushStep, PushedFacts DEF Request, IInv
  <2>2. \A p \in Places : fr[p].s = g.s => ~Opening(fr[p]) /\ ~Closer(fr[p])
    BY <1>2, <1>3, InvFacts DEF KnownOK
  <2>3. /\ g.op = "close" /\ g.pc = "get" /\ g.c = None /\ owner[g.s] = g.list /\ known' = known \ {g.s}
    BY <1>0, <1>2, <1>3
  <2> QED
    BY <1>3, <2>1, <2>2, <2>3, CameCloser, InvFacts DEF IInv
<1>6. /\ g.op \notin {"release", "destroy"} /\ g.pc \in {"init", "get"} /\ g.list = l /\ g.c = None
      /\ known' \subseteq known
  BY <1>2, <1>3
<1> QED
  BY <1>2, <1>3, <1>4, <1>5, <1>6, RequestStep

\* release_utc_state() closes a session that the TA has left open.
LEMMA CloseOneInv ==
    ASSUME IInv, NEW t \in Threads, CloseOne(t)
    PROVE  IInv' /\ core_panic' = core_panic
<1>1. /\ At(t, "loop") /\ Top(t) \in Frame /\ Shape(Top(t)) /\ Top(t).pc = "loop" /\ stack[t] # <<>>
      /\ waiting[t] = None /\ TypeOK /\ TopAt(t) \in Places /\ fr[TopAt(t)] = Top(t)
  BY AtFacts DEF CloseOne
<1>c. PICK c : c = Top(t).c
  OBVIOUS
<1>2. PICK s \in LeftOpen(c) :
          /\ Push(t, [op |-> "close", pc |-> "get", list |-> c, u |-> None, s |-> s,
                      c |-> None, ok |-> FALSE])
          /\ known' = known \ {s}
  BY <1>c DEF CloseOne
<1>3. PICK g : g = [op |-> "close", pc |-> "get", list |-> c, u |-> None, s |-> s,
                    c |-> None, ok |-> FALSE]
  OBVIOUS
<1>4. c \in Ctxs /\ c \in live /\ c # Nsec /\ c # None /\ Top(t).op \in {"release", "destroy"}
  <2>1. Top(t).op \in {"release", "destroy"} /\ c # None
    BY <1>1, <1>c DEF Shape, Frame
  <2> QED
    BY <1>1, <1>c, <2>1, NsecOK DEF IInv, LiveOK, TypeOK
<1>5. s \in Sessions /\ owner[s] = c
  BY <1>2 DEF LeftOpen, SessionsOf
<1>6. g \in Frame /\ g.op = "close" /\ g.pc = "get" /\ g.list = c /\ g.s = s /\ g.c = None
  BY <1>3, <1>4, <1>5 DEF Frame
<1>7. /\ Push(t, g) /\ known' = known \ {s} /\ core_panic' = core_panic
      /\ UNCHANGED <<owner, ts_ctx, refs, lock_thread, unlink, waiting, calls>>
      /\ UNCHANGED ctxVars /\ UNCHANGED busyVars /\ UNCHANGED <<uuid, ref_count>>
  BY <1>2, <1>3 DEF CloseOne, ctxVars
<1>8. Pushed(t, g) /\ stack' \in [Threads -> Seq(Frame)]
  BY <1>1, <1>6, <1>7, PushStep
<1>y. PICK y : y = NewAt(t)
  OBVIOUS
<1>9. StillAt(t, y) /\ Came(y, g) /\ Changed(y) /\ y \notin Places /\ y \in Places' /\ fr'[y] = g
  BY <1>y, <1>4, <1>6, <1>8, StillCame
<1>10. Nested'
  <2>1. Under(y) = TopAt(t) /\ y[2] = Len(stack[t]) + 1 /\ Len(stack[t]) > 0 /\ Len(stack[t]) \in Nat
    BY <1>1, <1>8, <1>y, FrFacts, EmptySeq DEF Pushed, NewAt
  <2>2. y[2] > 1
    BY <2>1
  <2>3. fr'[Under(y)] = Top(t)
    BY <1>1, <1>9, <2>1 DEF Came
  <2>4. Over(g, fr'[Under(y)])
    BY <1>1, <1>c, <1>6, <2>3 DEF Over
  <2>5. uuid[c] \notin Pseudo
    BY <1>4, <1>5 DEF IInv, LiveOK
  <2>6. Nest(y)'
    BY <1>4, <1>6, <1>7, <1>9, <2>2, <2>4, <2>5 DEF Nest, Over, Under
  <2> QED
    BY <1>7, <1>9, <2>6, NestedCame DEF IInv, UuidKept
<1>11. TypeOK'
  BY <1>1, <1>7, <1>8 DEF TypeOK, ctxVars, busyVars
<1>12. Shape(g) /\ ~UsesSession(g)
  BY <1>4, <1>5, <1>6, NoneOK DEF Shape, UsesSession
<1>13. Shapes'
  BY <1>9, <1>12, ShapesCame DEF IInv
<1>14. SessionInv'
  <2>1. ASSUME NEW p \in Places, fr[p].s = g.s
        PROVE  ~Opening(fr[p]) /\ ~Closer(fr[p])
    <3>1. fr[p] \in Frame /\ Shape(fr[p])
      BY InvFacts
    <3>2. ASSUME Opening(fr[p]) \/ Closer(fr[p])
          PROVE  FALSE
      <4>1. UsesSession(fr[p]) \/ Closer(fr[p])
        BY <1>5, <1>6, <2>1, <3>1, <3>2, NoneOK DEF Opening, Closer, UsesSession, Shape
      <4>2. fr[p].list = c
        BY <1>5, <1>6, <2>1, <4>1, InvFacts DEF SessionOK
      <4>3. fr[p].op \notin {"release", "destroy"}
        BY <3>2 DEF Opening, Closer
      <4> QED
        BY <1>1, <1>c, <1>4, <4>2, <4>3, NoCallsFrom
    <3> QED
      BY <3>2
  <2>2. /\ g.op = "close" /\ g.pc = "get" /\ g.c = None /\ owner[g.s] = g.list /\ known' = known \ {g.s}
    BY <1>5, <1>6, <1>7
  <2> QED
    BY <1>7, <1>9, <2>1, <2>2, CameCloser, InvFacts DEF IInv
<1>15. RefsExact'
  <2>1. \A r \in Sessions : UsesAt(y, r)' <=> UsesAt(y, r)
    BY <1>9, <1>12 DEF UsesAt, UsesSession
  <2> QED
    BY <1>7, <1>9, <2>1, RefsKept, InvFacts
<1>16. CountExact'
  <2>1. \A d \in Ctxs : LeavesAt(y, d)' <=> LeavesAt(y, d)
    BY <1>6, <1>9 DEF LeavesAt, ClosesLast
  <2> QED
    BY <1>7, <1>9, <2>1, CountKept, InvFacts
<1>17. OwnersStill /\ ServedStill /\ SleepersStill(t)
  BY <1>1, <1>7 DEF OwnersStill, ServedStill, SleepersStill
<1> QED
  BY <1>7, <1>9, <1>10, <1>11, <1>13, <1>14, <1>15, <1>16, <1>17, StillStep

-----------------------------------------------------------------------------
(* Calls that return                                                       *)

\* A thread has no two calls from the same caller.
LEMMA OneOfThread ==
    ASSUME IInv, NEW p \in Places, NEW q \in Places, p[1] = q[1], fr[p].list = fr[q].list,
           fr[p].op \notin {"release", "destroy"}, fr[q].op \notin {"release", "destroy"}
    PROVE  p = q
<1>1. CASE fr[p].list # Nsec
  BY <1>1, OneCaller
<1>2. CASE fr[p].list = Nsec
  <2>1. p[2] = 1 /\ q[2] = 1
    BY <1>2 DEF IInv, Nested
  <2> QED
    BY <2>1, FrFacts DEF IInv
<1> QED
  BY <1>1, <1>2

\* What is common to the calls that return from the session code.
LEMMA ReturnsStep ==
    ASSUME IInv, NEW t \in Threads, NEW pc \in {"init", "fail", "put", "get", "lock"}, At(t, pc), Return(t),
           UNCHANGED ctxVars, UNCHANGED busyVars, calls' = calls, core_panic' \in BOOLEAN,
           \A u \in Threads : waiting'[u] \in {waiting[u], None}, waiting' \in [Threads -> Cvs \cup {None}],
           SessionTypes', refs' \in [Sessions -> Nat], SessionInv', RefsExact', CountExact',
           OwnersStill, ServedStill
    PROVE  IInv'
<1>1. /\ Top(t) \in Frame /\ Shape(Top(t)) /\ Top(t).pc = pc /\ stack[t] # <<>> /\ waiting[t] = None /\ TypeOK
  BY AtFacts
<1>2. Returned(t) /\ stack' \in [Threads -> Seq(Frame)]
  BY <1>1, ReturnStep
<1>z. PICK z : z = TopAt(t)
  OBVIOUS
<1>3. StillAt(t, z) /\ Gone(z)
  BY <1>z, <1>1, <1>2, StillGone
<1>4. TypeOK'
  BY <1>1, <1>2 DEF TypeOK, SessionTypes, ctxVars, busyVars
<1>5. Shapes'
  BY <1>3, ShapesGone DEF IInv
<1>6. Nested'
  BY <1>z, <1>1, <1>3, NestedGone DEF IInv, UuidKept, ctxVars
<1>7. SleepersStill(t)
  BY <1>1 DEF SleepersStill
<1> QED
  BY <1>3, <1>4, <1>5, <1>6, <1>7, StillStep

LEMMA OpenNoMemInv ==
    ASSUME IInv, NEW t \in Threads, OpenNoMem(t)
    PROVE  IInv' /\ core_panic' = core_panic
<1>1. /\ At(t, "init") /\ Return(t) /\ UNCHANGED ctxVars /\ UNCHANGED busyVars
      /\ UNCHANGED <<owner, ts_ctx, refs, lock_thread, unlink, known, waiting, calls, core_panic>>
      /\ UNCHANGED ref_count
  BY DEF OpenNoMem, sessVars, ctxVars
<1>2. /\ Top(t) \in Frame /\ Shape(Top(t)) /\ Top(t).pc = "init" /\ stack[t] # <<>> /\ TypeOK
  BY <1>1, AtFacts
<1>z. PICK z : z = TopAt(t)
  OBVIOUS
<1>3. Gone(z) /\ Changed(z) /\ fr[z] = Top(t) /\ z \in Places /\ z \notin Places'
  BY <1>z, <1>1, <1>2, ReturnStep, StillGone
<1>4. NoRole(fr[z]) /\ ~Holder(fr[z]) /\ \A c : ~ClosesLast(fr[z], c)
  BY <1>2, <1>3 DEF NoRole, Holder, UsesSession, Opening, Closer, Asks, Shape, ClosesLast
<1>5. SessionInv'
  BY <1>1, <1>3, <1>4, GoneNoUse, InvFacts DEF NoRole, IInv, SessionsKept
<1>6. RefsExact'
  <2>1. \A r \in Sessions : UsesAt(z, r)' <=> UsesAt(z, r)
    BY <1>3, <1>4 DEF UsesAt, NoRole
  <2> QED
    BY <1>1, <1>3, <2>1, RefsKept, InvFacts
<1>7. CountExact'
  <2>1. \A d \in Ctxs : LeavesAt(z, d)' <=> LeavesAt(z, d)
    BY <1>3, <1>4 DEF LeavesAt
  <2> QED
    BY <1>1, <1>3, <2>1, CountKept, InvFacts
<1>8. OwnersStill /\ ServedStill /\ SessionTypes' /\ refs' \in [Sessions -> Nat]
      /\ waiting' \in [Threads -> Cvs \cup {None}] /\ core_panic' \in BOOLEAN
      /\ \A u \in Threads : waiting'[u] \in {waiting[u], None}
  BY <1>1, <1>2 DEF OwnersStill, ServedStill, TypeOK, SessionTypes
<1> QED
  BY <1>1, <1>5, <1>6, <1>7, <1>8, ReturnsStep

LEMMA GetNoneInv ==
    ASSUME IInv, NEW t \in Threads, GetNone(t)
    PROVE  IInv' /\ core_panic' = core_panic
<1>1. /\ At(t, "get") /\ Return(t) /\ UNCHANGED ctxVars /\ UNCHANGED busyVars
      /\ UNCHANGED <<owner, ts_ctx, refs, lock_thread, unlink, known, waiting, calls, core_panic>>
      /\ UNCHANGED ref_count
      /\ owner[Top(t).s] # Top(t).list \/ Top(t).s \in unlink
  BY DEF GetNone, sessVars, ctxVars
<1>2. /\ Top(t) \in Frame /\ Shape(Top(t)) /\ Top(t).pc = "get" /\ stack[t] # <<>> /\ TypeOK
  BY <1>1, AtFacts
<1>z. PICK z : z = TopAt(t)
  OBVIOUS
<1>3. Gone(z) /\ Changed(z) /\ fr[z] = Top(t) /\ z \in Places /\ z \notin Places'
  BY <1>z, <1>1, <1>2, ReturnStep, StillGone
<1>4. ~Closer(fr[z])
  <2>1. ASSUME Closer(fr[z]) PROVE FALSE
    <3>1. owner[Top(t).s] = Top(t).list
      BY <1>3, <2>1, InvFacts DEF SessionOK
    <3>2. PICK p \in Places : fr[p].s = Top(t).s /\ Closer(fr[p]) /\ fr[p].pc = "drain"
      BY <1>1, <3>1, InvFacts DEF UnlinkOK
    <3> QED
      BY <1>2, <1>3, <2>1, <3>2, InvFacts DEF UniqueOK
  <2> QED
    BY <2>1
<1>5. ~UsesSession(fr[z]) /\ ~Opening(fr[z]) /\ ~Holder(fr[z]) /\ \A c : ~ClosesLast(fr[z], c)
  BY <1>2, <1>3 DEF Holder, UsesSession, Opening, Shape, ClosesLast
<1>6. SessionInv'
  BY <1>1, <1>3, <1>4, <1>5, GoneNoUse, InvFacts DEF IInv, SessionsKept
<1>7. RefsExact'
  <2>1. \A r \in Sessions : UsesAt(z, r)' <=> UsesAt(z, r)
    BY <1>3, <1>5 DEF UsesAt
  <2> QED
    BY <1>1, <1>3, <2>1, RefsKept, InvFacts
<1>8. CountExact'
  <2>1. \A d \in Ctxs : LeavesAt(z, d)' <=> LeavesAt(z, d)
    BY <1>3, <1>5 DEF LeavesAt
  <2> QED
    BY <1>1, <1>3, <2>1, CountKept, InvFacts
<1>9. OwnersStill /\ ServedStill /\ SessionTypes' /\ refs' \in [Sessions -> Nat]
      /\ waiting' \in [Threads -> Cvs \cup {None}] /\ core_panic' \in BOOLEAN
      /\ \A u \in Threads : waiting'[u] \in {waiting[u], None}
  BY <1>1, <1>2 DEF OwnersStill, ServedStill, TypeOK, SessionTypes
<1> QED
  BY <1>1, <1>6, <1>7, <1>8, <1>9, ReturnsStep

LEMMA OpenFailInv ==
    ASSUME IInv, NEW t \in Threads, OpenFail(t)
    PROVE  IInv' /\ core_panic' = core_panic
<1>s. PICK s : s = Top(t).s
  OBVIOUS
<1>1. /\ At(t, "fail") /\ Return(t) /\ UNCHANGED ctxVars /\ UNCHANGED busyVars
      /\ UNCHANGED <<known, waiting, calls, core_panic>> /\ UNCHANGED ref_count
      /\ owner' = [owner EXCEPT ![s] = None] /\ ts_ctx' = [ts_ctx EXCEPT ![s] = None]
      /\ refs' = [refs EXCEPT ![s] = 0] /\ lock_thread' = [lock_thread EXCEPT ![s] = None]
      /\ unlink' = unlink \ {s}
  BY <1>s DEF OpenFail, FreeSession, ctxVars
<1>2. /\ Top(t) \in Frame /\ Shape(Top(t)) /\ Top(t).pc = "fail" /\ stack[t] # <<>> /\ TypeOK
  BY <1>1, AtFacts
<1>z. PICK z : z = TopAt(t)
  OBVIOUS
<1>3. Gone(z) /\ Changed(z) /\ fr[z] = Top(t) /\ z \in Places /\ z \notin Places'
  BY <1>z, <1>1, <1>2, ReturnStep, StillGone
<1>4. /\ Opening(fr[z]) /\ UsesSession(fr[z]) /\ fr[z].s = s /\ s \in Sessions
      /\ \A c : ~ClosesLast(fr[z], c)
  <2>1. Top(t).op = "open" /\ s \in Sessions
    BY <1>s, <1>2 DEF Shape, Frame
  <2> QED
    BY <1>s, <1>2, <1>3, <2>1, NoneOK DEF Opening, UsesSession, ClosesLast
<1>t. SessionTypes /\ refs \in [Sessions -> Nat]
  BY <1>2, InvFacts DEF TypeOK
<1>5. ts_ctx[s] = None
  BY <1>2, <1>3, <1>4, InvFacts DEF SessionOK
<1>6. /\ owner'[s] = None /\ ts_ctx'[s] = None /\ lock_thread'[s] = None
      /\ \A r \in Sessions \ {s} : owner'[r] = owner[r] /\ ts_ctx'[r] = ts_ctx[r] /\ lock_thread'[r] = lock_thread[r]
  BY <1>1, <1>4, <1>t DEF SessionTypes
<1>7. SessionInv'
  BY <1>1, <1>3, <1>4, <1>6, GoneFree, InvFacts DEF IInv
<1>8. RefsExact'
  <2>1. UsesAt(z, s)
    BY <1>3, <1>4 DEF UsesAt
  <2>2. \A q \in Places \ {z} : ~UsesAt(q, s)
    BY <1>3, <1>4, InvFacts DEF UsesAt, UniqueOK
  <2>3. refs[s] = 1
    BY <1>3, <1>4, <2>1, <2>2, UserFacts, InvFacts DEF IInv
  <2>4. refs' = [refs EXCEPT ![s] = @ - 1]
    BY <1>1, <1>4, <1>t, <2>3
  <2>5. ~UsesAt(z, s)' /\ \A r \in Sessions \ {s} : UsesAt(z, r)' <=> UsesAt(z, r)
    BY <1>3, <1>4 DEF UsesAt
  <2> QED
    BY <1>3, <1>4, <1>t, <2>1, <2>4, <2>5, RefsLess, InvFacts DEF IInv
<1>9. CountExact'
  <2>1. \A d \in Ctxs : LeavesAt(z, d)' <=> LeavesAt(z, d)
    BY <1>3, <1>4 DEF LeavesAt
  <2>2. \A r \in Sessions : ts_ctx'[r] = ts_ctx[r]
    BY <1>5, <1>6
  <2> QED
    BY <1>1, <1>3, <2>1, <2>2, CountKept, InvFacts
<1>10. OwnersStill /\ ServedStill
  BY <1>6 DEF OwnersStill, ServedStill
<1>11. SessionTypes' /\ refs' \in [Sessions -> Nat]
  BY <1>1, <1>t DEF SessionTypes
<1>12. waiting' \in [Threads -> Cvs \cup {None}] /\ core_panic' \in BOOLEAN
       /\ \A u \in Threads : waiting'[u] \in {waiting[u], None}
  BY <1>1, <1>2 DEF TypeOK
<1> QED
  BY <1>1, <1>7, <1>8, <1>9, <1>10, <1>11, <1>12, ReturnsStep

\* What is common to the calls that go on in the session code.
LEMMA GoesOnStep ==
    ASSUME IInv, NEW t \in Threads, NEW pc, pc # "load", At(t, pc), NEW g \in Frame, Replace(t, g),
           UNCHANGED ctxVars, UNCHANGED busyVars, calls' = calls, core_panic' \in BOOLEAN,
           waiting' \in [Threads -> Cvs \cup {None}],
           \A u \in Threads \ {t} : waiting'[u] \in {waiting[u], None},
           waiting'[t] = None \/ Sleeping(waiting'[t], g),
           SessionTypes', refs' \in [Sessions -> Nat], SessionInv', RefsExact', CountExact',
           OwnersStill, ServedStill, Shape(g),
           ~Dying(Top(t)), g.pc \notin {"load", "rel", "run"}, g.op # "release", ~Dying(g),
           g.c \in (live \ is_initializing) \cup {None}, g.list = Top(t).list,
           g.op = Top(t).op \/ (g.op = "close" /\ Top(t).op = "open"),
           \A c \in live : Inside(g, c) <=> Inside(Top(t), c)
    PROVE  IInv'
<1>1. /\ Top(t) \in Frame /\ Top(t).pc = pc /\ stack[t] # <<>> /\ TypeOK
  BY AtFacts
<1>2. Replaced(t, g) /\ stack' \in [Threads -> Seq(Frame)]
  BY <1>1, ReplaceStep
<1>z. PICK z : z = TopAt(t)
  OBVIOUS
<1>3. StillAt(t, z) /\ Moved(z, g)
  BY <1>z, <1>1, <1>2, StillMoved
<1>4. TypeOK'
  BY <1>1, <1>2 DEF TypeOK, SessionTypes, ctxVars, busyVars
<1>5. Shapes'
  BY <1>3, ShapesMove DEF IInv
<1>6. Nested'
  <2>1. UuidKept
    BY DEF UuidKept, ctxVars
  <2>2. Moved(TopAt(t), g)
    BY <1>3, <1>z
  <2> QED
    BY <1>1, <2>1, <2>2, NestedMove DEF IInv
<1>7. SleepersStill(t)
  <2>1. TopAt(t)' = z /\ fr'[z] = g /\ stack'[t] # <<>>
    BY <1>z, <1>2 DEF Replaced
  <2>2. fr'[TopAt(t)'] = g
    BY <2>1
  <2> QED
    BY <2>1, <2>2 DEF SleepersStill
<1> QED
  BY <1>3, <1>4, <1>5, <1>6, <1>7, StillStep

\* A call that has its session and lets go of it.
LEMMA PutFacts ==
    ASSUME IInv, NEW t \in Threads, At(t, "put")
    PROVE  /\ Top(t).s \in Sessions /\ Top(t).op \in {"open", "invoke", "cancel"} /\ UsesSession(Top(t))
           /\ refs[Top(t).s] > 0 /\ refs[Top(t).s] \in Nat
           /\ Top(t).op \in {"open", "cancel"} => lock_thread[Top(t).s] # t
<1>1. /\ Top(t) \in Frame /\ Shape(Top(t)) /\ Top(t).pc = "put" /\ stack[t] # <<>> /\ TypeOK
      /\ TopAt(t) \in Places /\ fr[TopAt(t)] = Top(t) /\ TopAt(t)[1] = t
  BY AtFacts
<1>2. Top(t).s \in Sessions /\ Top(t).op \in {"open", "invoke", "cancel"} /\ UsesSession(Top(t))
  <2>1. Top(t).op \in {"open", "invoke", "cancel"} /\ Top(t).s # None
    BY <1>1 DEF Shape, Frame
  <2>2. Top(t).s \in Sessions
    BY <1>1, <2>1 DEF Frame
  <2> QED
    BY <1>1, <2>1, <2>2 DEF UsesSession
<1>3. refs[Top(t).s] > 0 /\ refs[Top(t).s] \in Nat
  BY <1>1, <1>2, UserFacts, InvFacts DEF UsesAt, IInv
<1>4. ASSUME Top(t).op \in {"open", "cancel"}, lock_thread[Top(t).s] = t
      PROVE  FALSE
  <2>1. t # None
    BY NoneOK
  <2>2. PICK p \in Places : p[1] = t /\ fr[p].s = Top(t).s /\ Holder(fr[p])
    BY <1>2, <1>4, <2>1, InvFacts DEF LockOK
  <2>3. fr[p].list = owner[Top(t).s] /\ Top(t).list = owner[Top(t).s] /\ p # TopAt(t)
    BY <1>1, <1>2, <1>4, <2>2, InvFacts, RolesApart DEF SessionOK, Holder
  <2>4. fr[p].op \notin {"release", "destroy"}
    BY <2>2 DEF Holder
  <2> QED
    BY <1>1, <1>2, <2>2, <2>3, <2>4, OneOfThread
<1> QED
  BY <1>2, <1>3, <1>4

\* The count of a session whose user at z leaves it.
LEMMA PutRefs ==
    ASSUME IInv, NEW z \in Places, NEW s \in Sessions, Changed(z), fr[z].s = s, UsesSession(fr[z]),
           z \in Places' => (fr'[z]).s = s /\ ~UsesSession(fr'[z]),
           refs' = [refs EXCEPT ![s] = @ - 1]
    PROVE  RefsExact' /\ refs' \in [Sessions -> Nat]
<1>1. UsesAt(z, s)
  BY DEF UsesAt
<1>2. ~UsesAt(z, s)' /\ \A r \in Sessions \ {s} : UsesAt(z, r)' <=> UsesAt(z, r)
  BY DEF UsesAt
<1>3. refs \in [Sessions -> Nat]
  BY DEF IInv, TypeOK
<1>4. RefsExact' /\ refs[s] > 0
  BY <1>1, <1>2, <1>3, RefsLess, InvFacts DEF IInv
<1> QED
  BY <1>3, <1>4

LEMMA PutInv ==
    ASSUME IInv, NEW t \in Threads, Put(t)
    PROVE  IInv' /\ core_panic' = core_panic
<1>s. PICK s : s = Top(t).s
  OBVIOUS
<1>z. PICK z : z = TopAt(t)
  OBVIOUS
<1>1. /\ At(t, "put") /\ Top(t) \in Frame /\ Shape(Top(t)) /\ Top(t).pc = "put" /\ stack[t] # <<>> /\ TypeOK
      /\ z \in Places /\ fr[z] = Top(t) /\ z[1] = t /\ waiting[t] = None
  BY <1>z, AtFacts DEF Put
<1>2. /\ s \in Sessions /\ Top(t).op \in {"open", "invoke", "cancel"} /\ UsesSession(Top(t))
      /\ refs[s] > 0 /\ refs[s] \in Nat
      /\ Top(t).op \in {"open", "cancel"} => lock_thread[s] # t
  BY <1>s, <1>1, PutFacts
<1>3. /\ UNCHANGED ctxVars /\ UNCHANGED busyVars /\ UNCHANGED <<owner, ts_ctx, unlink, calls>>
      /\ UNCHANGED <<ref_count, uuid>>
  BY DEF Put, ctxVars
<1>4. refs' = [refs EXCEPT ![s] = @ - 1] /\ core_panic' = core_panic
  BY <1>s, <1>2 DEF Put, Unreference
<1>5. PICK W : WakeUp(W)
  BY DEF Put
<1>6. lock_thread' = IF lock_thread[s] = t THEN [lock_thread EXCEPT ![s] = None] ELSE lock_thread
  BY <1>s DEF Put
<1>7. \E told \in BOOLEAN :
          /\ Top(t).list = Nsec => told
          /\ known' = IF Top(t).op = "open" /\ Top(t).ok /\ told THEN known \cup {s} ELSE known
  BY <1>s DEF Put
<1>8. IF Top(t).op = "open" /\ ~Top(t).ok
      THEN Replace(t, [Top(t) EXCEPT !.op = "close", !.pc = "get"])
      ELSE Return(t)
  BY DEF Put
<1>9. /\ waiting' \in [Threads -> Cvs \cup {None}] /\ waiting'[t] = None
      /\ \A u \in Threads : waiting'[u] \in {waiting[u], None}
  BY <1>1, <1>5, WakeFacts
<1>t. SessionTypes /\ HasSession /\ refs \in [Sessions -> Nat] /\ SessionInv /\ core_panic' \in BOOLEAN
  BY <1>1, <1>4, InvFacts DEF TypeOK, IInv
<1>10. SessionTypes' /\ OwnersStill /\ ServedStill
  <2>1. lock_thread' \in [Sessions -> Threads \cup {None}] /\ known' \subseteq Sessions
    BY <1>2, <1>6, <1>7, <1>t DEF SessionTypes
  <2> QED
    BY <1>3, <1>t, <2>1 DEF SessionTypes, OwnersStill, ServedStill
<1>11. \A c : ~ClosesLast(fr[z], c)
  BY <1>1, <1>2 DEF ClosesLast
<1>12. CASE Top(t).op = "open" /\ ~Top(t).ok
  <2>1. PICK g : g = [Top(t) EXCEPT !.op = "close", !.pc = "get"]
    OBVIOUS
  <2>2. /\ g \in Frame /\ g.op = "close" /\ g.pc = "get" /\ g.list = Top(t).list
        /\ g.s = Top(t).s /\ g.c = Top(t).c /\ g.ok = Top(t).ok
    BY <1>1, <2>1, FrameOpPc
  <2>3. Replace(t, g)
    BY <1>8, <1>12, <2>1
  <2>4. Moved(z, g) /\ Changed(z) /\ z \in Places' /\ fr'[z] = g
    <3>1. Replaced(t, g)
      BY <1>1, <2>2, <2>3, ReplaceStep
    <3> QED
      BY <1>1, <1>z, <3>1, ReplacedFacts
  <2>5. /\ Top(t).c # None /\ Shape(g) /\ Opening(fr[z]) /\ ~UsesSession(g) /\ ~Dying(Top(t)) /\ ~Dying(g)
        /\ \A c : ~ClosesLast(g, c)
        /\ \A c \in live : Inside(g, c) <=> Inside(Top(t), c)
    BY <1>1, <1>s, <1>2, <1>12, <2>2, NoneOK DEF Shape, Opening, UsesSession, Dying, ClosesLast, Inside
  <2>6. SessionInv'
    <3>1. SessionsKept
      BY <1>2, <1>3, <1>6, <1>7, <1>12 DEF SessionsKept
    <3>2. fr[z].c # None /\ g.s = fr[z].s /\ g.c = fr[z].c /\ g.list = fr[z].list /\ UsesSession(fr[z])
      BY <1>1, <1>2, <2>2, <2>5
    <3> QED
      BY <1>t, <2>2, <2>4, <2>5, <3>1, <3>2, OpenToClose
  <2>7. RefsExact' /\ refs' \in [Sessions -> Nat]
    BY <1>1, <1>s, <1>2, <1>4, <2>2, <2>4, <2>5, PutRefs
  <2>8. CountExact'
    <3>1. \A d \in Ctxs : LeavesAt(z, d)' <=> LeavesAt(z, d)
      BY <1>11, <2>4, <2>5 DEF LeavesAt
    <3> QED
      BY <1>3, <2>4, <3>1, CountKept, InvFacts
  <2>9. g.c \in live \ is_initializing
    BY <1>1, <2>2, <2>5, NotLoading DEF IInv, LiveOK
  <2>10. /\ g.pc \notin {"load", "rel", "run"} /\ g.op # "release"
         /\ (g.op = Top(t).op \/ (g.op = "close" /\ Top(t).op = "open"))
         /\ g.c \in (live \ is_initializing) \cup {None} /\ g.list = Top(t).list
    BY <1>12, <2>2, <2>9
  <2> QED
    BY <1>1, <1>3, <1>4, <1>9, <1>t, <1>10, <2>2, <2>3, <2>5, <2>6, <2>7, <2>8, <2>10, GoesOnStep
<1>13. CASE ~(Top(t).op = "open" /\ ~Top(t).ok)
  <2>1. Return(t)
    BY <1>8, <1>13
  <2>2. Gone(z) /\ Changed(z) /\ z \notin Places'
    BY <1>z, <1>1, <2>1, ReturnStep, StillGone
  <2>3. RefsExact' /\ refs' \in [Sessions -> Nat]
    BY <1>1, <1>s, <1>2, <1>4, <2>2, PutRefs
  <2>4. CountExact'
    <3>1. \A d \in Ctxs : LeavesAt(z, d)' <=> LeavesAt(z, d)
      BY <1>11, <2>2 DEF LeavesAt
    <3> QED
      BY <1>3, <2>2, <3>1, CountKept, InvFacts
  <2>5. SessionInv'
    <3>1. CASE Top(t).op = "open"
      <4>1. /\ Opening(fr[z]) /\ UsesSession(fr[z]) /\ fr[z].c # None /\ fr[z].s \in Sessions /\ fr[z].list # None
        BY <1>1, <1>2, <1>s, <3>1 DEF Opening, Shape
      <4>2. known' \in {known, known \cup {fr[z].s}} /\ (fr[z].list = Nsec => fr[z].s \in known')
        BY <1>1, <1>s, <1>7, <1>13, <3>1
      <4>3. UNCHANGED <<owner, ts_ctx, lock_thread, unlink>>
        BY <1>2, <1>3, <1>6, <3>1
      <4> QED
        BY <1>t, <2>2, <4>1, <4>2, <4>3, GonePut
    <3>2. CASE Top(t).op = "cancel"
      <4>1. SessionsKept
        BY <1>2, <1>3, <1>6, <1>7, <3>2 DEF SessionsKept
      <4>2. ~Opening(fr[z]) /\ ~Closer(fr[z]) /\ ~Holder(fr[z])
        BY <1>1, <3>2 DEF Opening, Closer, Holder
      <4> QED
        BY <1>t, <2>2, <4>1, <4>2, GoneNoUse
    <3>3. CASE Top(t).op = "invoke"
      <4>1. ~Opening(fr[z]) /\ ~Closer(fr[z]) /\ Holder(fr[z])
        BY <1>1, <1>2, <3>3 DEF Opening, Closer, Holder
      <4>2. lock_thread[s] = t
        BY <1>1, <1>s, <4>1, InvFacts DEF LockOK
      <4>3. /\ fr[z].s \in Sessions /\ lock_thread'[fr[z].s] = None
            /\ \A r \in Sessions \ {fr[z].s} : lock_thread'[r] = lock_thread[r]
        BY <1>1, <1>s, <1>2, <1>6, <1>t, <4>2 DEF SessionTypes
      <4>4. UNCHANGED <<owner, ts_ctx, unlink, known>>
        BY <1>3, <1>7, <3>3
      <4> QED
        BY <1>t, <2>2, <4>1, <4>3, <4>4, GoneHolder
    <3> QED
      BY <1>2, <3>1, <3>2, <3>3
  <2> QED
    BY <1>1, <1>3, <1>4, <1>9, <1>t, <1>10, <2>1, <2>3, <2>4, <2>5, ReturnsStep
<1> QED
  BY <1>4, <1>12, <1>13

-----------------------------------------------------------------------------
(* Getting a session                                                       *)

\* A request that waits for its session finds it open, with a loaded context.
LEMMA LockedFacts ==
    ASSUME IInv, NEW z \in Places, fr[z].pc \in {"get", "lock"}, fr[z].op \in {"invoke", "close"},
           owner[fr[z].s] = fr[z].list
    PROVE  /\ fr[z].s \in Sessions /\ owner[fr[z].s] # None
           /\ ts_ctx[fr[z].s] \in live \ is_initializing /\ ts_ctx[fr[z].s] \in Ctxs
<1>s. PICK s : s = fr[z].s
  OBVIOUS
<1>1. fr[z] \in Frame /\ Shape(fr[z])
  BY InvFacts
<1>2. s \in Sessions /\ owner[s] # None
  BY <1>s, <1>1 DEF Shape, Frame
<1>3. ~Opening(fr[z]) /\ (Asks(fr[z]) \/ Closer(fr[z]) \/ UsesSession(fr[z]))
  BY <1>s, <1>1, <1>2, NoneOK DEF Opening, Asks, Closer, UsesSession
<1>4. \A p \in Places : fr[p].s = s => ~Opening(fr[p])
  BY <1>s, <1>3, InvFacts DEF UniqueOK
<1>5. ts_ctx[s] # None
  BY <1>2, <1>4, InvFacts DEF OpenOK
<1>6. ts_ctx[s] \in live
  BY <1>2, <1>5 DEF IInv, LiveOK
<1>7. ts_ctx[s] \notin is_initializing
  <2>1. ASSUME ts_ctx[s] \in is_initializing PROVE FALSE
    <3>1. PICK p \in Places : fr[p].c = ts_ctx[s] /\ fr[p].pc = "load"
      BY <2>1 DEF IInv, InitOK
    <3>2. fr[p].s = s
      BY <1>2, <3>1 DEF IInv, InitOK
    <3>3. Opening(fr[p])
      BY <3>1, InvFacts DEF Opening, Shape, Frame
    <3> QED
      BY <1>4, <3>2, <3>3
  <2> QED
    BY <2>1
<1>8. ts_ctx[s] \in Ctxs
  BY <1>6 DEF IInv, TypeOK
<1> QED
  BY <1>s, <1>2, <1>6, <1>7, <1>8

\* Where the call goes with the lock.
LEMMA LockedFrame ==
    ASSUME NEW f \in Frame, Shape(f), f.pc \in {"get", "lock"}, f.op \in {"invoke", "close"},
           f.s \in Sessions, ts_ctx[f.s] \in Ctxs, NEW g, g = Locked(f)
    PROVE  /\ g \in Frame /\ g.op = f.op /\ g.list = f.list /\ g.s = f.s /\ g.c = ts_ctx[f.s]
           /\ g.pc \in {"closing", "busy", "copy"} /\ Shape(g)
           /\ ~Opening(g) /\ Holder(g) /\ UsesSession(g) /\ ~Asks(g) /\ (Closer(g) <=> Closer(f))
           /\ ~Dying(f) /\ ~Dying(g) /\ ~Opening(f)
           /\ (\A c : ~ClosesLast(f, c) /\ ~ClosesLast(g, c))
           /\ (\A c : Inside(g, c) <=> Inside(f, c))
<1> DEFINE pc == IF f.op = "close" THEN "closing" ELSE IF f.list = Nsec THEN "busy" ELSE "copy"
<1>1. pc \in Pcs /\ pc \in {"closing", "busy", "copy"} /\ (pc = "closing" <=> f.op = "close")
  BY DEF Pcs
<1>c. PICK c0 \in Ctxs \cup {None} : c0 = ts_ctx[f.s]
  OBVIOUS
<1>2. g = [f EXCEPT !.c = c0, !.pc = pc]
  BY <1>c DEF Locked
<1> HIDE DEF pc
<1>3. Onward(f, g, pc, f.s, c0, f.ok)
  <2>1. pc \in Pcs
    BY <1>1
  <2>2. Onward(f, [f EXCEPT !.c = c0, !.pc = pc], pc, f.s, c0, f.ok)
    BY ONLY f \in Frame, <2>1, FrameCPc, c0 \in Ctxs \cup {None}
  <2> QED
    BY <1>2, <2>2
<1>4. /\ g \in Frame /\ g.op = f.op /\ g.list = f.list /\ g.s = f.s /\ g.c = ts_ctx[f.s] /\ g.pc = pc
  BY <1>c, <1>3 DEF Onward
<1>5. Shape(g)
  BY <1>1, <1>4, NoneOK DEF Shape
<1>6. /\ ~Opening(g) /\ Holder(g) /\ UsesSession(g) /\ ~Asks(g) /\ (Closer(g) <=> Closer(f)) /\ ~Opening(f)
  BY <1>1, <1>4, NoneOK DEF Opening, Holder, UsesSession, Asks, Closer
<1>7. ~Dying(f) /\ ~Dying(g)
  BY <1>1, <1>4 DEF Dying
<1>8. (\A c : ~ClosesLast(f, c) /\ ~ClosesLast(g, c)) /\ (\A c : Inside(g, c) <=> Inside(f, c))
  BY <1>1, <1>4 DEF ClosesLast, Inside
<1> QED
  BY <1>1, <1>4, <1>5, <1>6, <1>7, <1>8

\* The count of a session that has a new user at z.
LEMMA GetRefs ==
    ASSUME IInv, NEW z \in Places, NEW s \in Sessions, Changed(z), fr[z].s = s, ~UsesSession(fr[z]),
           z \in Places', (fr'[z]).s = s, UsesSession(fr'[z]),
           refs' = [refs EXCEPT ![s] = @ + 1]
    PROVE  RefsExact' /\ refs' \in [Sessions -> Nat]
<1>1. UsesAt(z, s)'
  BY DEF UsesAt
<1>2. ~UsesAt(z, s) /\ \A r \in Sessions \ {s} : UsesAt(z, r)' <=> UsesAt(z, r)
  BY DEF UsesAt
<1>3. refs \in [Sessions -> Nat]
  BY DEF IInv, TypeOK
<1>4. RefsExact'
  BY <1>1, <1>2, <1>3, RefsMore, InvFacts DEF IInv
<1> QED
  BY <1>3, <1>4

\* Nothing changes in the counts of the contexts.
LEMMA CountsStill ==
    ASSUME IInv, NEW z \in Places, Changed(z), \A c : ~ClosesLast(fr[z], c),
           z \in Places' => \A c : ~ClosesLast(fr'[z], c), UNCHANGED <<ref_count, ts_ctx>>
    PROVE  CountExact'
<1>1. \A d \in Ctxs : LeavesAt(z, d)' <=> LeavesAt(z, d)
  BY DEF LeavesAt
<1> QED
  BY <1>1, CountKept, InvFacts

\* A call takes the lock of its session.
LEMMA LocksStep ==
    ASSUME IInv, NEW t \in Threads, NEW pc \in {"get", "lock"}, At(t, pc), Top(t).op \in {"invoke", "close"},
           NEW s, s = Top(t).s, owner[s] = Top(t).list, lock_thread[s] = None,
           Replace(t, Locked(Top(t))), lock_thread' = [lock_thread EXCEPT ![s] = t],
           refs' = IF pc = "get" THEN [refs EXCEPT ![s] = @ + 1] ELSE refs,
           UNCHANGED ctxVars, UNCHANGED busyVars, UNCHANGED <<owner, ts_ctx, unlink, known, waiting, calls>>,
           core_panic' \in BOOLEAN
    PROVE  IInv'
<1>z. PICK z : z = TopAt(t)
  OBVIOUS
<1>1. /\ Top(t) \in Frame /\ Shape(Top(t)) /\ Top(t).pc = pc /\ stack[t] # <<>> /\ TypeOK
      /\ z \in Places /\ fr[z] = Top(t) /\ z[1] = t /\ waiting[t] = None
  BY <1>z, AtFacts
<1>2. s \in Sessions /\ owner[s] # None /\ ts_ctx[s] \in live \ is_initializing /\ ts_ctx[s] \in Ctxs
  BY <1>1, LockedFacts
<1>3. PICK g : g = Locked(Top(t))
  OBVIOUS
<1>4. /\ g \in Frame /\ g.op = Top(t).op /\ g.list = Top(t).list /\ g.s = s /\ g.c = ts_ctx[s]
      /\ g.pc \in {"closing", "busy", "copy"} /\ Shape(g)
      /\ ~Opening(g) /\ Holder(g) /\ UsesSession(g) /\ ~Asks(g) /\ (Closer(g) <=> Closer(Top(t)))
      /\ ~Dying(Top(t)) /\ ~Dying(g) /\ ~Opening(Top(t))
      /\ (\A c : ~ClosesLast(Top(t), c) /\ ~ClosesLast(g, c))
      /\ (\A c : Inside(g, c) <=> Inside(Top(t), c))
  BY <1>1, <1>2, <1>3, LockedFrame
<1>5. Replace(t, g) /\ Replaced(t, g)
  BY <1>1, <1>3, <1>4, ReplaceStep
<1>6. Moved(z, g) /\ Changed(z) /\ z \in Places' /\ fr'[z] = g
  <2>1. TypeOK /\ stack[t] # <<>> /\ Replaced(t, g)
    BY <1>1, <1>5
  <2> QED
    BY <1>z, <2>1, ReplacedFacts
<1>t. SessionTypes /\ HasSession /\ refs \in [Sessions -> Nat] /\ SessionInv
      /\ UNCHANGED ref_count /\ waiting \in [Threads -> Cvs \cup {None}]
  BY <1>1, InvFacts DEF TypeOK, IInv, ctxVars
<1>7. SessionInv'
  <2>1. lock_thread'[s] = t /\ \A r \in Sessions \ {s} : lock_thread'[r] = lock_thread[r]
    BY <1>2, <1>t DEF SessionTypes
  <2>2. Asks(fr[z]) \/ Closer(fr[z]) \/ UsesSession(fr[z])
    BY <1>1, <1>2, NoneOK DEF Asks, Closer, UsesSession
  <2>3. /\ fr[z].pc \in {"get", "lock"} /\ ~Opening(fr[z]) /\ (Closer(g) <=> Closer(fr[z]))
        /\ g.pc \notin {"drain", "find", "fail"} /\ g.s = fr[z].s /\ g.c = ts_ctx[g.s] /\ g.list = fr[z].list
        /\ g.s \in Sessions /\ z[1] # None /\ owner[g.s] = g.list /\ owner[g.s] # None
        /\ lock_thread[g.s] = None
    BY <1>1, <1>2, <1>4, NoneOK
  <2>4. /\ lock_thread'[g.s] = z[1] /\ \A r \in Sessions \ {g.s} : lock_thread'[r] = lock_thread[r]
    BY <1>1, <1>4, <2>1
  <2> QED
    BY <1>t, <1>1, <1>4, <1>6, <2>2, <2>3, <2>4, MovedLocks
<1>8. RefsExact' /\ refs' \in [Sessions -> Nat]
  <2>1. CASE pc = "get"
    <3>1. ~UsesSession(fr[z]) /\ fr[z].s = s
      BY <1>1, <2>1 DEF UsesSession
    <3>2. (fr'[z]).s = s /\ UsesSession(fr'[z])
      BY <1>4, <1>6
    <3>3. refs' = [refs EXCEPT ![s] = @ + 1]
      BY <2>1
    <3> QED
      BY <1>1, <1>2, <1>6, <3>1, <3>2, <3>3, GetRefs
  <2>2. CASE pc = "lock"
    <3>1. UsesSession(fr[z]) /\ fr[z].s = s
      BY <1>1, <1>2, <2>2, NoneOK DEF UsesSession
    <3>2. \A r \in Sessions : UsesAt(z, r)' <=> UsesAt(z, r)
      BY <1>1, <1>4, <1>6, <3>1 DEF UsesAt
    <3>3. refs' = refs
      BY <2>2
    <3> QED
      BY <1>t, <1>6, <3>2, <3>3, RefsKept, InvFacts
  <2> QED
    BY <2>1, <2>2
<1>9. CountExact'
  BY <1>1, <1>4, <1>6, <1>t, CountsStill
<1>10. SessionTypes' /\ OwnersStill /\ ServedStill
  BY <1>t DEF SessionTypes, OwnersStill, ServedStill
<1>11. /\ g.pc \notin {"load", "rel", "run"} /\ g.op # "release" /\ pc # "load"
       /\ g.c \in (live \ is_initializing) \cup {None}
       /\ waiting' \in [Threads -> Cvs \cup {None}] /\ waiting'[t] = None
       /\ \A u \in Threads \ {t} : waiting'[u] \in {waiting[u], None}
  BY <1>1, <1>2, <1>4, <1>t
<1> QED
  BY <1>4, <1>5, <1>7, <1>8, <1>9, <1>10, <1>11, GoesOnStep

LEMMA GetInv ==
    ASSUME IInv, NEW t \in Threads, Get(t)
    PROVE  IInv' /\ core_panic' = core_panic
<1>s. PICK s : s = Top(t).s
  OBVIOUS
<1>z. PICK z : z = TopAt(t)
  OBVIOUS
<1>1. /\ At(t, "get") /\ Top(t) \in Frame /\ Shape(Top(t)) /\ Top(t).pc = "get" /\ stack[t] # <<>> /\ TypeOK
      /\ z \in Places /\ fr[z] = Top(t) /\ z[1] = t /\ waiting[t] = None /\ ~core_panic
  BY <1>z, AtFacts DEF Get
<1>2. /\ owner[s] = Top(t).list /\ s \notin unlink /\ refs' = [refs EXCEPT ![s] = @ + 1]
      /\ UNCHANGED ctxVars /\ UNCHANGED busyVars /\ UNCHANGED <<owner, ts_ctx, unlink, known, calls>>
      /\ UNCHANGED ref_count
  BY <1>s DEF Get, ctxVars
<1>3. core_panic' = FALSE /\ core_panic = FALSE
  <2>1. lock_thread[s] # t
    BY <1>s, <1>1, <1>2, NotMine
  <2>2. core_panic' = FALSE
    BY <1>s, <2>1 DEF Get
  <2>3. core_panic = FALSE
    BY <1>1 DEF TypeOK
  <2> QED
    BY <2>2, <2>3
<1>4. s \in Sessions /\ Top(t).op \in {"invoke", "cancel", "close"} /\ ~UsesSession(Top(t))
  BY <1>s, <1>1 DEF Shape, Frame, UsesSession
<1>t. SessionTypes /\ HasSession /\ refs \in [Sessions -> Nat] /\ SessionInv
      /\ waiting \in [Threads -> Cvs \cup {None}]
  BY <1>1, InvFacts DEF TypeOK, IInv
<1>5. CASE Top(t).op # "cancel" /\ lock_thread[s] = None
  <2>1. Replace(t, Locked(Top(t))) /\ lock_thread' = [lock_thread EXCEPT ![s] = t] /\ waiting' = waiting
    BY <1>s, <1>5 DEF Get
  <2>2. Top(t).op \in {"invoke", "close"} /\ core_panic' \in BOOLEAN
        /\ refs' = IF "get" = "get" THEN [refs EXCEPT ![s] = @ + 1] ELSE refs
    BY <1>2, <1>3, <1>4, <1>5
  <2> QED
    BY <1>s, <1>1, <1>2, <1>3, <1>5, <2>1, <2>2, LocksStep
<1>6. CASE Top(t).op = "cancel" \/ lock_thread[s] # None
  <2> DEFINE pc == IF Top(t).op = "cancel" THEN "put" ELSE "lock"
  <2>1. pc \in Pcs /\ pc \in {"put", "lock"} /\ (pc = "put" <=> Top(t).op = "cancel")
    BY DEF Pcs
  <2>2. PICK g : g = [Top(t) EXCEPT !.pc = pc]
    OBVIOUS
  <2>3. /\ Replace(t, g) /\ lock_thread' = lock_thread
        /\ IF pc = "put" THEN waiting' = waiting ELSE Wait(t, LockCv(s))
    BY <1>s, <1>6, <2>2 DEF Get, Goto
  <2> HIDE DEF pc
  <2>4. Onward(Top(t), g, pc, s, Top(t).c, Top(t).ok)
    BY <1>s, <1>1, <2>1, <2>2, FramePc
  <2>5. /\ g \in Frame /\ g.op = Top(t).op /\ g.list = Top(t).list /\ g.s = s /\ g.c = Top(t).c /\ g.pc = pc
    BY <2>4 DEF Onward
  <2>6. Moved(z, g) /\ Changed(z) /\ z \in Places' /\ fr'[z] = g
    <3>1. Replaced(t, g)
      BY <1>1, <2>3, <2>5, ReplaceStep
    <3> QED
      BY <1>1, <1>z, <3>1, ReplacedFacts
  <2>7. /\ Shape(g) /\ UsesSession(g) /\ ~Opening(g) /\ ~Holder(g) /\ ~Asks(g) /\ (Closer(g) <=> Closer(fr[z]))
        /\ Asks(fr[z]) \/ Closer(fr[z])
    <3>1. Shape(g)
      BY <1>1, <1>4, <1>s, <2>1, <2>5 DEF Shape
    <3>2. UsesSession(g)
      BY <1>4, <2>1, <2>5, NoneOK DEF UsesSession
    <3> QED
      BY <1>1, <1>4, <2>1, <2>5, <3>1, <3>2 DEF Opening, Holder, Asks, Closer
  <2>8. /\ ~Dying(Top(t)) /\ ~Dying(g) /\ (\A c : ~ClosesLast(Top(t), c) /\ ~ClosesLast(g, c))
        /\ (\A c \in live : Inside(g, c) <=> Inside(Top(t), c)) /\ (g.c = None \/ Closer(fr[z]))
    BY <1>1, <1>4, <2>1, <2>5 DEF Dying, ClosesLast, Inside, Shape, Closer
  <2>9. SessionInv'
    <3>1. SessionsKept
      BY <1>2, <2>3 DEF SessionsKept
    <3>2. /\ fr[z].pc = "get" /\ g.pc \notin {"drain", "find", "fail"} /\ g.s = fr[z].s /\ g.c = fr[z].c
          /\ g.list = fr[z].list /\ owner[g.s] = g.list
      BY <1>1, <1>s, <1>2, <2>1, <2>5
    <3> QED
      BY <1>t, <2>6, <2>7, <2>8, <3>1, <3>2, MovedJoins
  <2>10. RefsExact' /\ refs' \in [Sessions -> Nat]
    BY <1>1, <1>s, <1>2, <1>4, <2>5, <2>6, <2>7, GetRefs
  <2>11. CountExact'
    BY <1>1, <1>2, <2>6, <2>8, CountsStill
  <2>12. SessionTypes' /\ OwnersStill /\ ServedStill
    BY <1>2, <1>t, <2>3 DEF SessionTypes, OwnersStill, ServedStill
  <2>13. g.c \in (live \ is_initializing) \cup {None}
    BY <1>1, <2>5, NotLoading DEF IInv, LiveOK
  <2>14. /\ waiting' \in [Threads -> Cvs \cup {None}]
         /\ \A u \in Threads \ {t} : waiting'[u] \in {waiting[u], None}
         /\ waiting'[t] = None \/ Sleeping(waiting'[t], g)
    <3>1. CASE pc = "put"
      BY <1>1, <1>t, <2>3, <3>1
    <3>2. CASE pc = "lock"
      <4>1. LockCv(s) \in Cvs /\ Wait(t, LockCv(s))
        BY <1>4, <2>3, <3>2, CvFacts
      <4>2. waiting' \in [Threads -> Cvs \cup {None}] /\ waiting'[t] = LockCv(s)
            /\ \A u \in Threads \ {t} : waiting'[u] = waiting[u]
        BY <1>1, <4>1, WaitFacts
      <4>3. Sleeping(waiting'[t], g)
        BY <2>5, <3>2, <4>2 DEF Sleeping
      <4> QED
        BY <4>2, <4>3
    <3> QED
      BY <2>1, <3>1, <3>2
  <2>15. g.pc \notin {"load", "rel", "run"} /\ g.op # "release" /\ core_panic' \in BOOLEAN
    BY <1>3, <1>4, <2>1, <2>5
  <2>16. IInv'
    BY <1>1, <1>2, <2>3, <2>5, <2>7, <2>8, <2>9, <2>10, <2>11, <2>12, <2>13, <2>14, <2>15, GoesOnStep
  <2> QED
    BY <1>3, <2>16
<1> QED
  BY <1>3, <1>5, <1>6

\* A thread that goes to sleep and does nothing else.
LEMMA SleepStep ==
    ASSUME IInv, NEW t \in Threads, stack[t] # <<>>, NEW cv \in Cvs, Wait(t, cv), Sleeping(cv, Top(t)),
           UNCHANGED ctxVars, UNCHANGED busyVars, UNCHANGED <<owner, ts_ctx, refs, lock_thread, unlink, known>>,
           UNCHANGED <<stack, calls, core_panic>>
    PROVE  IInv'
<1>1. TypeOK /\ fr[TopAt(t)] = Top(t) /\ TypeOK
  BY TopFacts DEF IInv
<1>2. /\ waiting' \in [Threads -> Cvs \cup {None}] /\ waiting'[t] = cv
      /\ \A u \in Threads \ {t} : waiting'[u] = waiting[u]
  BY <1>1, WaitFacts
<1>3. /\ Others(t) /\ ChangedIn({}) /\ TopAt(t)' = TopAt(t) /\ fr' = fr /\ stack' = stack
  BY OthersSame
<1>4. Sleeping(waiting'[t], fr'[TopAt(t)'])
  BY <1>1, <1>2, <1>3
<1>5. WaitOK'
  BY <1>1, <1>2, <1>3, <1>4, WaitStep DEF IInv
<1>6. calls' \in 0 .. MaxCalls /\ core_panic' \in BOOLEAN
  BY <1>1 DEF TypeOK
<1> QED
  BY <1>2, <1>5, <1>6, SameInv DEF sessVars

LEMMA LockInv ==
    ASSUME IInv, NEW t \in Threads, Lock(t)
    PROVE  IInv' /\ core_panic' = core_panic
<1>s. PICK s : s = Top(t).s
  OBVIOUS
<1>z. PICK z : z = TopAt(t)
  OBVIOUS
<1>1. /\ At(t, "lock") /\ Top(t) \in Frame /\ Shape(Top(t)) /\ Top(t).pc = "lock" /\ stack[t] # <<>> /\ TypeOK
      /\ z \in Places /\ fr[z] = Top(t) /\ z[1] = t /\ waiting[t] = None /\ ~core_panic
  BY <1>z, AtFacts DEF Lock
<1>2. /\ UNCHANGED ctxVars /\ UNCHANGED busyVars /\ UNCHANGED <<owner, ts_ctx, unlink, known, calls, core_panic>>
      /\ UNCHANGED ref_count
  BY DEF Lock, ctxVars
<1>3. s \in Sessions /\ Top(t).op \in {"invoke", "close"} /\ UsesSession(Top(t)) /\ owner[s] = Top(t).list
  <2>1. s \in Sessions /\ Top(t).op \in {"invoke", "close"}
    BY <1>s, <1>1 DEF Shape, Frame
  <2>2. UsesSession(Top(t))
    BY <1>s, <1>1, <2>1, NoneOK DEF UsesSession
  <2> QED
    BY <1>s, <1>1, <2>1, <2>2, InvFacts DEF SessionOK
<1>t. SessionTypes /\ HasSession /\ refs \in [Sessions -> Nat] /\ SessionInv /\ core_panic' \in BOOLEAN
      /\ waiting \in [Threads -> Cvs \cup {None}]
  BY <1>1, <1>2, InvFacts DEF TypeOK, IInv
<1>4. CASE s \in unlink
  <2>1. /\ refs' = [refs EXCEPT ![s] = @ - 1] /\ Return(t) /\ lock_thread' = lock_thread
    BY <1>s, <1>4 DEF Lock, Unreference
  <2>2. PICK W : WakeUp(W)
    BY <1>s, <1>4 DEF Lock
  <2>3. /\ waiting' \in [Threads -> Cvs \cup {None}]
        /\ \A u \in Threads : waiting'[u] \in {waiting[u], None}
    BY <1>1, <2>2, WakeFacts
  <2>4. Gone(z) /\ Changed(z) /\ z \notin Places'
    BY <1>z, <1>1, <2>1, ReturnStep, StillGone
  <2>5. ~Opening(fr[z]) /\ ~Closer(fr[z]) /\ ~Holder(fr[z]) /\ \A c : ~ClosesLast(fr[z], c)
    <3>1. PICK p \in Places : fr[p].s = s /\ Closer(fr[p]) /\ fr[p].pc = "drain"
      BY <1>4, InvFacts DEF UnlinkOK
    <3>2. p # z
      BY <1>1, <3>1
    <3>3. ~Closer(fr[z])
      BY <1>s, <1>1, <3>1, <3>2, InvFacts DEF UniqueOK
    <3> QED
      BY <1>1, <1>3, <3>3 DEF Opening, Holder, ClosesLast
  <2>6. SessionInv'
    BY <1>2, <1>t, <2>1, <2>4, <2>5, GoneNoUse DEF SessionsKept
  <2>7. RefsExact' /\ refs' \in [Sessions -> Nat]
    BY <1>s, <1>1, <1>3, <2>1, <2>4, PutRefs
  <2>8. CountExact'
    BY <1>1, <1>2, <2>4, <2>5, CountsStill
  <2>9. SessionTypes' /\ OwnersStill /\ ServedStill
    BY <1>2, <1>t, <2>1 DEF SessionTypes, OwnersStill, ServedStill
  <2>10. IInv'
    BY <1>1, <1>2, <1>t, <2>1, <2>3, <2>6, <2>7, <2>8, <2>9, ReturnsStep
  <2> QED
    BY <1>2, <2>10
<1>5. CASE s \notin unlink /\ lock_thread[s] # None
  <2>1. Wait(t, LockCv(s)) /\ UNCHANGED <<refs, lock_thread, stack>>
    BY <1>s, <1>5 DEF Lock
  <2>2. LockCv(s) \in Cvs /\ Sleeping(LockCv(s), Top(t))
    BY <1>s, <1>1, <1>3, CvFacts DEF Sleeping
  <2> QED
    BY <1>1, <1>2, <2>1, <2>2, SleepStep
<1>6. CASE s \notin unlink /\ lock_thread[s] = None
  <2>1. /\ lock_thread' = [lock_thread EXCEPT ![s] = t] /\ Replace(t, Locked(Top(t)))
        /\ UNCHANGED <<refs, waiting>>
    BY <1>s, <1>6 DEF Lock
  <2>2. refs' = IF "lock" = "get" THEN [refs EXCEPT ![s] = @ + 1] ELSE refs
    BY <2>1
  <2> QED
    BY <1>s, <1>1, <1>2, <1>3, <1>t, <1>6, <2>1, <2>2, LocksStep
<1> QED
  BY <1>4, <1>5, <1>6

-----------------------------------------------------------------------------
(* Closing a session                                                       *)

\* A close that has its session for itself.
LEMMA ClosingFacts ==
    ASSUME IInv, NEW t \in Threads, NEW pc \in {"unlink", "drain"}, At(t, pc)
    PROVE  /\ Top(t).s \in Sessions /\ Top(t).op = "close" /\ UsesSession(Top(t)) /\ Closer(Top(t))
           /\ Holder(Top(t)) /\ ~Dying(Top(t)) /\ (\A c : ~ClosesLast(Top(t), c))
           /\ refs[Top(t).s] > 0 /\ refs[Top(t).s] \in Nat
           /\ owner[Top(t).s] = Top(t).list /\ owner[Top(t).s] # None /\ lock_thread[Top(t).s] = t
           /\ Top(t).c \in Ctxs /\ Top(t).c \in live \ is_initializing /\ ts_ctx[Top(t).s] = Top(t).c
           /\ pc = "unlink" => Top(t).s \notin unlink
<1>s. PICK s : s = Top(t).s
  OBVIOUS
<1>z. PICK z : z = TopAt(t)
  OBVIOUS
<1>1. /\ Top(t) \in Frame /\ Shape(Top(t)) /\ Top(t).pc = pc /\ stack[t] # <<>> /\ TypeOK
      /\ z \in Places /\ fr[z] = Top(t) /\ z[1] = t
  BY <1>z, AtFacts
<1>2. s \in Sessions /\ Top(t).op = "close" /\ Top(t).c # None /\ Top(t).c \in Ctxs /\ Top(t).list # None
  BY <1>s, <1>1 DEF Shape, Frame
<1>3. /\ UsesSession(Top(t)) /\ Closer(Top(t)) /\ Holder(Top(t)) /\ ~Dying(Top(t))
      /\ (\A c : ~ClosesLast(Top(t), c))
  <2>1. UsesSession(Top(t))
    BY <1>s, <1>1, <1>2, NoneOK DEF UsesSession
  <2> QED
    BY <1>1, <1>2, <2>1 DEF Closer, Holder, Dying, ClosesLast
<1>4. refs[s] > 0 /\ refs[s] \in Nat
  BY <1>s, <1>1, <1>2, <1>3, UserFacts, InvFacts DEF UsesAt, IInv
<1>5. owner[s] = Top(t).list /\ owner[s] # None /\ ts_ctx[s] = Top(t).c
  BY <1>s, <1>1, <1>2, <1>3, InvFacts DEF SessionOK
<1>6. lock_thread[s] = t
  BY <1>s, <1>1, <1>3, InvFacts DEF LockOK
<1>7. Top(t).c \in live \ is_initializing
  BY <1>1, <1>2, NotLoading DEF IInv, LiveOK
<1>8. ASSUME pc = "unlink", s \in unlink PROVE FALSE
  <2>1. PICK p \in Places : fr[p].s = s /\ Closer(fr[p]) /\ fr[p].pc = "drain"
    BY <1>8, InvFacts DEF UnlinkOK
  <2>2. p # z
    BY <1>1, <1>8, <2>1
  <2> QED
    BY <1>s, <1>1, <1>3, <2>1, <2>2, InvFacts DEF UniqueOK
<1> QED
  BY <1>s, <1>2, <1>3, <1>4, <1>5, <1>6, <1>7, <1>8

\* The last user frees the session.
LEMMA FreesStep ==
    ASSUME IInv, NEW t \in Threads, NEW pc \in {"unlink", "drain"}, At(t, pc), NEW s, s = Top(t).s,
           LastUser(s), FreeSession(s), Replace(t, AfterUnlink(Top(t))),
           UNCHANGED ctxVars, UNCHANGED busyVars, UNCHANGED <<known, calls>>, core_panic' \in BOOLEAN,
           waiting' \in [Threads -> Cvs \cup {None}], waiting'[t] = None,
           \A u \in Threads : waiting'[u] \in {waiting[u], None}
    PROVE  IInv'
<1>z. PICK z : z = TopAt(t)
  OBVIOUS
<1>1. /\ Top(t) \in Frame /\ Shape(Top(t)) /\ Top(t).pc = pc /\ stack[t] # <<>> /\ TypeOK
      /\ z \in Places /\ fr[z] = Top(t) /\ z[1] = t
  BY <1>z, AtFacts
<1>2. /\ s \in Sessions /\ Top(t).op = "close" /\ UsesSession(Top(t)) /\ Closer(Top(t))
      /\ Holder(Top(t)) /\ ~Dying(Top(t)) /\ (\A c : ~ClosesLast(Top(t), c))
      /\ Top(t).c \in Ctxs /\ Top(t).c \in live \ is_initializing /\ ts_ctx[s] = Top(t).c
  BY ClosingFacts
<1>3. /\ owner' = [owner EXCEPT ![s] = None] /\ ts_ctx' = [ts_ctx EXCEPT ![s] = None]
      /\ refs' = [refs EXCEPT ![s] = 0] /\ lock_thread' = [lock_thread EXCEPT ![s] = None]
      /\ unlink' = unlink \ {s} /\ UNCHANGED ref_count
  BY DEF FreeSession, ctxVars
<1>t. SessionTypes /\ HasSession /\ refs \in [Sessions -> Nat] /\ SessionInv /\ ref_count \in [Ctxs -> Nat]
  BY <1>1, InvFacts DEF TypeOK, IInv
<1> DEFINE to == IF Top(t).ok THEN "clear" ELSE "unref"
<1>4. to \in Pcs /\ to \in {"clear", "unref"} /\ (to = "clear" <=> Top(t).ok)
  BY <1>1 DEF Pcs, Frame
<1>5. PICK g : g = AfterUnlink(Top(t))
  OBVIOUS
<1>6. g = [Top(t) EXCEPT !.pc = to]
  BY <1>5 DEF AfterUnlink
<1> HIDE DEF to
<1>7. /\ g \in Frame /\ g.op = "close" /\ g.list = Top(t).list /\ g.s = s /\ g.c = Top(t).c /\ g.pc = to
      /\ g.ok = Top(t).ok
  <2>1. Onward(Top(t), g, to, s, Top(t).c, Top(t).ok)
    BY <1>1, <1>4, <1>6, FramePc
  <2> QED
    BY <1>2, <2>1 DEF Onward
<1>8. Moved(z, g) /\ Changed(z) /\ z \in Places' /\ fr'[z] = g /\ Replace(t, g)
  <2>1. Replace(t, g)
    BY <1>5
  <2>2. TypeOK /\ stack[t] # <<>> /\ Replaced(t, g)
    BY <1>1, <1>7, <2>1, ReplaceStep
  <2> QED
    BY <1>z, <2>1, <2>2, ReplacedFacts
<1>9. Shape(g) /\ ~Dying(g) /\ NoRole(g) /\ ClosesLast(g, Top(t).c)
  BY <1>1, <1>2, <1>4, <1>7, NoneOK DEF Shape, Dying, NoRole, UsesSession, Opening, Closer, Asks, ClosesLast
<1>10. \A c \in live : Inside(g, c) <=> Inside(Top(t), c)
  BY <1>1, <1>2, <1>4, <1>7 DEF Inside
<1>11. UsesAt(z, s) /\ \A q \in Places \ {z} : ~UsesAt(q, s)
  <2>1. UsesAt(z, s)
    BY <1>1, <1>2 DEF UsesAt
  <2> QED
    BY <1>1, <1>2, <2>1, UserFacts, InvFacts DEF IInv, LastUser
<1>12. SessionInv'
  <2>1. /\ owner'[s] = None /\ ts_ctx'[s] = None /\ lock_thread'[s] = None
        /\ \A r \in Sessions \ {s} : owner'[r] = owner[r] /\ ts_ctx'[r] = ts_ctx[r] /\ lock_thread'[r] = lock_thread[r]
    BY <1>2, <1>3, <1>t DEF SessionTypes
  <2>2. \A q \in Places \ {z} : fr[q].s = s => ~UsesSession(fr[q])
    BY <1>11 DEF UsesAt
  <2>3. fr[z].s = s /\ Closer(fr[z]) /\ Holder(fr[z]) /\ g.pc \notin {"find", "fail"} /\ s \in Sessions
    BY <1>1, <1>2, <1>4, <1>7
  <2> QED
    BY <1>3, <1>t, <1>8, <1>9, <2>1, <2>2, <2>3, MovedFrees
<1>13. RefsExact' /\ refs' \in [Sessions -> Nat]
  <2>1. refs' = [refs EXCEPT ![s] = @ - 1]
    BY <1>2, <1>3, <1>t DEF LastUser
  <2>2. fr[z].s = s /\ UsesSession(fr[z]) /\ (fr'[z]).s = s /\ ~UsesSession(fr'[z])
    BY <1>1, <1>2, <1>7, <1>8, <1>9 DEF NoRole
  <2> QED
    BY <1>1, <1>2, <1>8, <2>1, <2>2, PutRefs
<1>14. CountExact'
  <2>c. PICK c \in Ctxs : c = Top(t).c
    BY <1>2
  <2>1. LeavesAt(z, c)' /\ ~LeavesAt(z, c)
    BY <1>1, <1>2, <1>8, <1>9, <2>c DEF LeavesAt
  <2>2. \A d \in Ctxs \ {c} : LeavesAt(z, d)' <=> LeavesAt(z, d)
    BY <1>1, <1>2, <1>7, <1>8, <2>c DEF LeavesAt, ClosesLast
  <2>3. ref_count' = [ref_count EXCEPT ![c] = @ - (IF LeavesAt(z, c)' THEN 0 ELSE 1)]
    BY <1>3, <1>t, <2>1
  <2>4. ts_ctx[s] = c /\ ts_ctx \in [Sessions -> Ctxs \cup {None}]
    BY <1>2, <1>t, <2>c DEF SessionTypes
  <2> QED
    BY <1>2, <1>3, <1>t, <1>8, <2>1, <2>2, <2>3, <2>4, CountFreed, InvFacts DEF IInv
<1>15. SessionTypes' /\ OwnersStill /\ ServedStill
  BY <1>3, <1>t DEF SessionTypes, OwnersStill, ServedStill
<1>16. /\ g.pc \notin {"load", "rel", "run"} /\ g.op # "release" /\ pc # "load" /\ g.list = Top(t).list
       /\ g.op = Top(t).op /\ g.c \in (live \ is_initializing) \cup {None}
       /\ \A u \in Threads \ {t} : waiting'[u] \in {waiting[u], None}
  BY <1>2, <1>4, <1>7
<1> QED
  BY <1>2, <1>7, <1>8, <1>9, <1>10, <1>12, <1>13, <1>14, <1>15, <1>16, GoesOnStep

LEMMA UnlinkInv ==
    ASSUME IInv, NEW t \in Threads, Unlink(t)
    PROVE  IInv' /\ core_panic' = core_panic
<1>s. PICK s : s = Top(t).s
  OBVIOUS
<1>z. PICK z : z = TopAt(t)
  OBVIOUS
<1>1. /\ At(t, "unlink") /\ Top(t) \in Frame /\ Shape(Top(t)) /\ Top(t).pc = "unlink" /\ stack[t] # <<>> /\ TypeOK
      /\ z \in Places /\ fr[z] = Top(t) /\ z[1] = t /\ waiting[t] = None /\ ~core_panic
  BY <1>z, AtFacts DEF Unlink
<1>2. /\ s \in Sessions /\ Top(t).op = "close" /\ UsesSession(Top(t)) /\ Closer(Top(t))
      /\ Holder(Top(t)) /\ ~Dying(Top(t)) /\ (\A c : ~ClosesLast(Top(t), c))
      /\ refs[s] > 0 /\ refs[s] \in Nat /\ owner[s] # None
      /\ Top(t).c \in Ctxs /\ Top(t).c \in live \ is_initializing
      /\ lock_thread[s] = t /\ s \notin unlink
  BY <1>s, <1>1, ClosingFacts
<1>3. core_panic' = FALSE /\ core_panic = FALSE
  <2>1. core_panic' = FALSE
    <3>1. core_panic' = (refs[s] = 0 \/ lock_thread[s] # t \/ s \in unlink)
      BY <1>s DEF Unlink
    <3>2. refs[s] # 0
      BY <1>2
    <3> QED
      BY <1>2, <3>1, <3>2, Zenon
  <2>2. core_panic = FALSE
    BY <1>1 DEF TypeOK
  <2> QED
    BY <2>1, <2>2
<1>4. UNCHANGED ctxVars /\ UNCHANGED busyVars /\ UNCHANGED <<known, calls>> /\ UNCHANGED ref_count
  BY DEF Unlink, ctxVars
<1>t. SessionTypes /\ HasSession /\ refs \in [Sessions -> Nat] /\ SessionInv
      /\ waiting \in [Threads -> Cvs \cup {None}] /\ core_panic' \in BOOLEAN
  BY <1>1, <1>3, InvFacts DEF TypeOK, IInv
<1>5. CASE LastUser(s)
  <2>1. FreeSession(s) /\ Replace(t, AfterUnlink(Top(t))) /\ WakeUp(WaitersOn(LockCv(s)))
    BY <1>s, <1>5 DEF Unlink
  <2>2. /\ waiting' \in [Threads -> Cvs \cup {None}] /\ waiting'[t] = None
        /\ \A u \in Threads : waiting'[u] \in {waiting[u], None}
    BY <1>1, <2>1, WakeFacts
  <2>3. IInv'
    BY <1>s, <1>1, <1>4, <1>5, <1>t, <2>1, <2>2, FreesStep
  <2> QED
    BY <1>3, <2>3
<1>6. CASE ~LastUser(s)
  <2>1. /\ unlink' = unlink \cup {s} /\ Goto(t, "drain") /\ UNCHANGED <<owner, ts_ctx, refs, lock_thread>>
        /\ waiting' = [u \in Threads |-> IF u = t THEN RefcCv(s)
                                         ELSE IF waiting[u] = LockCv(s) THEN None ELSE waiting[u]]
    BY <1>s, <1>6 DEF Unlink
  <2>2. PICK g : g = [Top(t) EXCEPT !.pc = "drain"]
    OBVIOUS
  <2>3. /\ g \in Frame /\ g.op = "close" /\ g.list = Top(t).list /\ g.s = s /\ g.c = Top(t).c /\ g.pc = "drain"
        /\ g.ok = Top(t).ok
    <3>1. "drain" \in Pcs
      BY DEF Pcs
    <3>2. Onward(Top(t), g, "drain", s, Top(t).c, Top(t).ok)
      BY <1>s, <1>1, <2>2, <3>1, FramePc
    <3> QED
      BY <1>2, <3>2 DEF Onward
  <2>4. Moved(z, g) /\ Changed(z) /\ z \in Places' /\ fr'[z] = g /\ Replace(t, g)
    <3>1. Replace(t, g)
      BY <2>1, <2>2 DEF Goto
    <3>2. TypeOK /\ stack[t] # <<>> /\ Replaced(t, g)
      BY <1>1, <2>3, <3>1, ReplaceStep
    <3> QED
      BY <1>z, <3>1, <3>2, ReplacedFacts
  <2>5. /\ Shape(g) /\ ~Dying(g) /\ UsesSession(g) /\ Closer(g) /\ Holder(g) /\ ~Opening(g) /\ ~Asks(g)
        /\ (\A c : ~ClosesLast(g, c)) /\ (\A c \in live : Inside(g, c) <=> Inside(Top(t), c))
    <3>1. Shape(g)
      BY <1>1, <1>2, <1>s, <2>3 DEF Shape
    <3>2. UsesSession(g)
      BY <1>2, <2>3, NoneOK DEF UsesSession
    <3> QED
      BY <1>1, <1>2, <2>3, <3>1, <3>2 DEF Dying, Closer, Holder, Opening, Asks, ClosesLast, Inside
  <2>6. SessionInv'
    <3>1. /\ fr[z].pc # "drain" /\ Closer(fr[z]) /\ Holder(fr[z]) /\ g.s = fr[z].s /\ g.c = fr[z].c
          /\ g.list = fr[z].list /\ g.s \in Sessions /\ owner[g.s] # None /\ unlink' = unlink \cup {g.s}
          /\ g.pc = "drain"
      BY <1>s, <1>1, <1>2, <2>1, <2>3
    <3> QED
      BY <1>4, <1>t, <2>1, <2>4, <2>5, <3>1, MovedDrains
  <2>7. RefsExact' /\ refs' \in [Sessions -> Nat]
    <3>1. \A r \in Sessions : UsesAt(z, r)' <=> UsesAt(z, r)
      BY <1>s, <1>1, <1>2, <2>3, <2>4, <2>5 DEF UsesAt
    <3> QED
      BY <1>t, <2>1, <2>4, <3>1, RefsKept, InvFacts
  <2>8. CountExact'
    BY <1>1, <1>2, <1>4, <2>1, <2>4, <2>5, CountsStill
  <2>9. SessionTypes' /\ OwnersStill /\ ServedStill
    BY <1>2, <1>4, <1>t, <2>1 DEF SessionTypes, OwnersStill, ServedStill
  <2>10. /\ waiting' \in [Threads -> Cvs \cup {None}] /\ waiting'[t] = RefcCv(s)
         /\ \A u \in Threads \ {t} : waiting'[u] \in {waiting[u], None}
    BY <1>2, <1>t, <2>1, CvFacts
  <2>11. Sleeping(waiting'[t], g)
    BY <2>3, <2>10 DEF Sleeping
  <2>12. /\ g.pc \notin {"load", "rel", "run"} /\ g.op # "release" /\ "unlink" # "load" /\ g.list = Top(t).list
         /\ g.op = Top(t).op /\ g.c \in (live \ is_initializing) \cup {None}
    BY <1>2, <2>3
  <2>13. IInv'
    BY <1>1, <1>2, <1>4, <1>t, <2>3, <2>4, <2>5, <2>6, <2>7, <2>8, <2>9, <2>10, <2>11, <2>12, GoesOnStep
  <2> QED
    BY <1>3, <2>13
<1> QED
  BY <1>5, <1>6

LEMMA DrainInv ==
    ASSUME IInv, NEW t \in Threads, Drain(t)
    PROVE  IInv' /\ core_panic' = core_panic
<1>s. PICK s : s = Top(t).s
  OBVIOUS
<1>1. /\ At(t, "drain") /\ Top(t) \in Frame /\ Shape(Top(t)) /\ Top(t).pc = "drain" /\ stack[t] # <<>> /\ TypeOK
      /\ waiting[t] = None
  BY AtFacts DEF Drain
<1>2. s \in Sessions
  BY <1>s, <1>1, ClosingFacts
<1>3. UNCHANGED ctxVars /\ UNCHANGED busyVars /\ UNCHANGED <<known, calls, core_panic>> /\ core_panic' \in BOOLEAN
  BY <1>1 DEF Drain, TypeOK
<1>4. CASE LastUser(s)
  <2>1. FreeSession(s) /\ Replace(t, AfterUnlink(Top(t))) /\ waiting' = waiting
    BY <1>s, <1>4 DEF Drain
  <2>2. /\ waiting' \in [Threads -> Cvs \cup {None}] /\ waiting'[t] = None
        /\ \A u \in Threads : waiting'[u] \in {waiting[u], None}
    BY <1>1, <2>1 DEF TypeOK
  <2>3. IInv'
    BY <1>s, <1>1, <1>3, <1>4, <2>1, <2>2, FreesStep
  <2> QED
    BY <1>3, <2>3
<1>5. CASE ~LastUser(s)
  <2>1. Wait(t, RefcCv(s)) /\ UNCHANGED <<owner, ts_ctx, refs, lock_thread, unlink, stack>>
    BY <1>s, <1>5 DEF Drain
  <2>2. RefcCv(s) \in Cvs /\ Sleeping(RefcCv(s), Top(t))
    BY <1>s, <1>1, <1>2, CvFacts DEF Sleeping
  <2>3. IInv'
    BY <1>1, <1>3, <2>1, <2>2, SleepStep
  <2> QED
    BY <1>3, <2>3
<1> QED
  BY <1>4, <1>5

-----------------------------------------------------------------------------
(* Opening a session                                                       *)

\* Thread t looks for a context for session s, with or without having slept before.
Looking(t, f, s) ==
    /\ f \in Frame /\ f.op = "open" /\ f.list = Top(t).list /\ f.u = Top(t).u /\ f.s = s /\ f.c = None
    /\ Top(t).op = "open" /\ Top(t).c = None /\ f.u \in Uuids /\ f.list # None
    /\ s \in Sessions /\ ts_ctx[s] = None
    /\ \/ Top(t).pc = "find" /\ Top(t).s = s /\ owner' = owner /\ refs' = refs
       \/ /\ Top(t).pc = "init" /\ Top(t).s = None /\ owner[s] = None
          /\ owner' = [owner EXCEPT ![s] = Top(t).list] /\ refs' = [refs EXCEPT ![s] = 1]
          /\ \A p \in Places : ~(fr[p].pc = "get" /\ fr[p].s = s)
    /\ UNCHANGED busyVars /\ UNCHANGED <<lock_thread, unlink, known, calls, core_panic>>

\* g is f where the search has led it, with context c or none.
Led(f, g, c) ==
    /\ g \in Frame /\ g.op = "open" /\ g.list = f.list /\ g.u = f.u /\ g.s = f.s /\ g.c = c
    /\ g.pc \in {"find", "fail", "busy", "load"} /\ (c = None <=> g.pc \in {"find", "fail"})

LEMMA LedFacts ==
    ASSUME NEW t, NEW f, NEW s, Looking(t, f, s), NEW c, NEW g, Led(f, g, c)
    PROVE  /\ Shape(g) /\ Opening(g) /\ UsesSession(g) /\ ~Dying(g) /\ ~Dying(Top(t))
           /\ (\A d : ~ClosesLast(g, d) /\ ~ClosesLast(Top(t), d))
           /\ (\A d : ~Inside(g, d) /\ ~Inside(Top(t), d))
           /\ Top(t).pc = "init" => NoRole(Top(t))
           /\ Top(t).pc = "find" => Opening(Top(t)) /\ UsesSession(Top(t))
           /\ Top(t).pc # "load"
<1>1. s # None
  BY NoneOK DEF Looking
<1>2. f.u # None
  BY NoneOK DEF Looking
<1>3. Shape(g)
  BY <1>1, <1>2 DEF Shape, Looking, Led
<1>4. Opening(g) /\ UsesSession(g) /\ ~Dying(g) /\ ~Dying(Top(t))
  BY <1>1 DEF Looking, Led, Opening, UsesSession, Dying
<1>5. /\ (\A d : ~ClosesLast(g, d) /\ ~ClosesLast(Top(t), d))
      /\ (\A d : ~Inside(g, d) /\ ~Inside(Top(t), d))
  BY DEF Looking, Led, ClosesLast, Inside
<1>6. Top(t).pc = "init" => NoRole(Top(t))
  BY DEF Looking, NoRole, UsesSession, Opening, Closer, Asks
<1>7. Top(t).pc = "find" => Opening(Top(t)) /\ UsesSession(Top(t))
  BY <1>1 DEF Looking, UsesSession, Opening
<1> QED
  BY <1>3, <1>4, <1>5, <1>6, <1>7 DEF Looking

\* What the search does to the sessions, whatever it finds.
LEMMA OpenSessions ==
    ASSUME IInv, NEW t \in Threads, NEW pc, At(t, pc), NEW f, NEW s, Looking(t, f, s),
           NEW c \in Ctxs \cup {None}, NEW g, Led(f, g, c), Replace(t, g),
           ts_ctx' = [ts_ctx EXCEPT ![s] = c]
    PROVE  /\ Replaced(t, g) /\ stack' \in [Threads -> Seq(Frame)]
           /\ SessionInv' /\ SessionTypes' /\ RefsExact' /\ refs' \in [Sessions -> Nat]
           /\ OwnersStill /\ Shapes'
<1>z. PICK z : z = TopAt(t)
  OBVIOUS
<1>1. /\ Top(t) \in Frame /\ Shape(Top(t)) /\ stack[t] # <<>> /\ TypeOK
      /\ z \in Places /\ fr[z] = Top(t) /\ z[1] = t
  BY <1>z, AtFacts
<1>2. g \in Frame /\ g.list = Top(t).list /\ g.s = s /\ s \in Sessions /\ g.list # None /\ g.c = c
  BY DEF Led, Looking
<1>3. Replaced(t, g) /\ stack' \in [Threads -> Seq(Frame)]
  BY <1>1, <1>2, ReplaceStep
<1>4. Moved(z, g) /\ Changed(z) /\ z \in Places' /\ fr'[z] = g
  BY <1>1, <1>z, <1>3, ReplacedFacts
<1>5. /\ Shape(g) /\ Opening(g) /\ UsesSession(g)
      /\ Top(t).pc = "init" => NoRole(Top(t))
      /\ Top(t).pc = "find" => Opening(Top(t)) /\ UsesSession(Top(t))
  BY LedFacts
<1>t. SessionTypes /\ HasSession /\ refs \in [Sessions -> Nat] /\ SessionInv
  BY <1>1, InvFacts DEF TypeOK, IInv
<1>6. /\ ts_ctx'[s] = c /\ \A r \in Sessions \ {s} : ts_ctx'[r] = ts_ctx[r]
  BY <1>2, <1>t DEF SessionTypes
<1>7. UNCHANGED <<lock_thread, unlink, known>> /\ (g.pc \in {"find", "fail"} => g.c = None) /\ g.pc # "drain"
  BY DEF Looking, Led
<1>8. Shapes'
  BY <1>4, <1>5, ShapesMove DEF IInv
<1>9. (Top(t).list \in live \ is_initializing /\ uuid[Top(t).list] \notin Pseudo) \/ Top(t).list = Nsec
  <2>1. CASE Top(t).list # Nsec
    <3>1. fr[z].op \notin {"release", "destroy"} /\ fr[z].list # Nsec
      BY <1>1, <2>1 DEF Looking
    <3>2. /\ Under(z) \in Places /\ fr[Under(z)].c = fr[z].list
          /\ fr[Under(z)].pc \in {"run", "loop"} /\ uuid[fr[z].list] \notin Pseudo
      BY <1>1, <3>1, CallerUnder
    <3>3. fr[Under(z)].c \notin is_initializing
      BY <3>2, NotLoading DEF IInv
    <3>4. fr[z].list \in live
      BY <1>1, <3>1 DEF IInv, LiveOK
    <3> QED
      BY <1>1, <3>2, <3>3, <3>4
  <2> QED
    BY <2>1
<1>10. CASE Top(t).pc = "find"
  <2>1. Top(t).s = s /\ owner' = owner /\ refs' = refs
    BY <1>10 DEF Looking
  <2>2. SessionInv'
    <3>1. /\ Opening(fr[z]) /\ UsesSession(fr[z]) /\ g.s = fr[z].s /\ g.list = fr[z].list /\ g.s \in Sessions
          /\ ts_ctx'[g.s] = g.c /\ (\A r \in Sessions \ {g.s} : ts_ctx'[r] = ts_ctx[r]) /\ fr[z].pc # "drain"
      BY <1>1, <1>2, <1>5, <1>6, <1>10, <2>1
    <3> QED
      BY <1>2, <1>4, <1>5, <1>7, <1>t, <2>1, <3>1, MovedOpening
  <2>3. RefsExact'
    <3>1. \A r \in Sessions : UsesAt(z, r)' <=> UsesAt(z, r)
      BY <1>1, <1>2, <1>4, <1>5, <1>10, <2>1 DEF UsesAt
    <3> QED
      BY <1>4, <2>1, <3>1, RefsKept, InvFacts
  <2>4. SessionTypes' /\ OwnersStill
    BY <1>7, <1>t, <2>1 DEF SessionTypes, OwnersStill
  <2> QED
    BY <1>3, <1>8, <1>t, <2>1, <2>2, <2>3, <2>4
<1>11. CASE Top(t).pc = "init"
  <2>1. /\ owner[s] = None /\ owner' = [owner EXCEPT ![s] = Top(t).list] /\ refs' = [refs EXCEPT ![s] = 1]
        /\ (\A p \in Places : ~(fr[p].pc = "get" /\ fr[p].s = s)) /\ Top(t).s = None
    BY <1>11 DEF Looking
  <2>2. owner'[s] = g.list /\ \A r \in Sessions \ {s} : owner'[r] = owner[r]
    BY <1>2, <1>t, <2>1 DEF SessionTypes
  <2>3. SessionInv'
    <3>1. /\ NoRole(fr[z]) /\ g.s \in Sessions /\ owner[g.s] = None
          /\ (\A p \in Places : ~(fr[p].pc = "get" /\ fr[p].s = g.s))
          /\ owner'[g.s] = g.list /\ (\A r \in Sessions \ {g.s} : owner'[r] = owner[r])
          /\ ts_ctx'[g.s] = g.c /\ (\A r \in Sessions \ {g.s} : ts_ctx'[r] = ts_ctx[r])
      BY <1>1, <1>2, <1>5, <1>6, <1>11, <2>1, <2>2
    <3>2. Shapes
      BY DEF IInv
    <3> QED
      BY <1>2, <1>4, <1>5, <1>7, <1>t, <3>1, <3>2, MovedOpens
  <2>4. RefsExact' /\ refs' \in [Sessions -> Nat]
    <3>1. \A p \in Places : ~UsesAt(p, s)
      BY <2>1, InvFacts DEF UsesAt, SessionOK, Shape
    <3>2. refs[s] = 0
      BY <1>2, <3>1, UserFacts, InvFacts DEF IInv
    <3>3. refs' = [refs EXCEPT ![s] = @ + 1] /\ refs' \in [Sessions -> Nat]
      BY <1>2, <1>t, <2>1, <3>2
    <3>4. UsesAt(z, s)'
      BY <1>2, <1>4, <1>5 DEF UsesAt
    <3>5. \A r \in Sessions \ {s} : UsesAt(z, r)' <=> UsesAt(z, r)
      BY <1>1, <1>2, <1>4, <2>1, NoneOK DEF UsesAt
    <3> QED
      BY <1>1, <1>2, <1>4, <1>t, <3>1, <3>3, <3>4, <3>5, RefsMore, InvFacts DEF IInv
  <2>5. SessionTypes'
    <3>1. Top(t).list \in Ctxs \cup {Nsec, None}
      BY <1>1 DEF Frame
    <3> QED
      BY <1>7, <1>t, <2>1, <3>1 DEF SessionTypes
  <2>6. OwnersStill
    <3>1. g.list = Top(t).list
      BY <1>2
    <3> QED
      BY <1>9, <2>2, <3>1 DEF OwnersStill
  <2> QED
    BY <1>3, <1>8, <2>3, <2>4, <2>5, <2>6
<1> QED
  BY <1>10, <1>11 DEF Looking

\* No context is had: the call sleeps or fails.
LEMMA LooksInVain ==
    ASSUME IInv, NEW t \in Threads, NEW pc, At(t, pc), NEW f, NEW s, Looking(t, f, s),
           NEW g, Led(f, g, None), Replace(t, g), ts_ctx' = ts_ctx, UNCHANGED ctxVars,
           waiting' = waiting \/ (Wait(t, InitCv) /\ g.pc = "find")
    PROVE  IInv'
<1>z. PICK z : z = TopAt(t)
  OBVIOUS
<1>1. /\ Top(t) \in Frame /\ stack[t] # <<>> /\ TypeOK /\ waiting[t] = None /\ Top(t).pc = pc
      /\ z \in Places /\ fr[z] = Top(t) /\ z[1] = t
  BY <1>z, AtFacts
<1>2. /\ g \in Frame /\ g.list = Top(t).list /\ g.op = Top(t).op /\ g.c = None /\ g.op # "release"
      /\ g.pc \notin {"load", "rel", "run"} /\ s \in Sessions /\ ts_ctx[s] = None /\ UNCHANGED busyVars
      /\ calls' = calls /\ core_panic' = core_panic
  BY DEF Led, Looking
<1>3. ts_ctx' = [ts_ctx EXCEPT ![s] = None]
  BY <1>1, <1>2 DEF TypeOK
<1>4. /\ Replaced(t, g) /\ SessionInv' /\ SessionTypes' /\ RefsExact' /\ refs' \in [Sessions -> Nat]
      /\ OwnersStill
  BY <1>3, OpenSessions
<1>5. Moved(z, g) /\ Changed(z) /\ z \in Places' /\ fr'[z] = g
  <2>1. TypeOK /\ stack[t] # <<>> /\ Replaced(t, g)
    BY <1>1, <1>4
  <2> QED
    BY ONLY <1>z, <2>1, ReplacedFacts
<1>6. /\ Shape(g) /\ ~Dying(g) /\ ~Dying(Top(t)) /\ (\A d : ~ClosesLast(g, d) /\ ~ClosesLast(Top(t), d))
      /\ (\A d : ~Inside(g, d) /\ ~Inside(Top(t), d)) /\ Top(t).pc # "load"
  BY LedFacts
<1>7. CountExact'
  BY <1>1, <1>5, <1>6, CountsStill DEF ctxVars
<1>8. ServedStill
  BY DEF ServedStill
<1>9. /\ waiting' \in [Threads -> Cvs \cup {None}]
      /\ \A u \in Threads \ {t} : waiting'[u] \in {waiting[u], None}
      /\ waiting'[t] = None \/ Sleeping(waiting'[t], g)
  <2>1. CASE waiting' = waiting
    BY <1>1, <2>1 DEF TypeOK
  <2>2. CASE Wait(t, InitCv) /\ g.pc = "find"
    <3>1. InitCv \in Cvs
      BY CvFacts
    <3>2. waiting' \in [Threads -> Cvs \cup {None}] /\ waiting'[t] = InitCv
          /\ \A u \in Threads \ {t} : waiting'[u] = waiting[u]
      BY <1>1, <2>2, <3>1, WaitFacts
    <3>3. Sleeping(waiting'[t], g)
      BY <2>2, <3>2 DEF Sleeping
    <3> QED
      BY <3>2, <3>3
  <2> QED
    BY <2>1, <2>2
<1>10. /\ pc # "load" /\ core_panic' \in BOOLEAN /\ g.c \in (live \ is_initializing) \cup {None}
       /\ \A d \in live : Inside(g, d) <=> Inside(Top(t), d)
  BY <1>1, <1>2, <1>6 DEF TypeOK
<1> QED
  BY <1>2, <1>4, <1>6, <1>7, <1>8, <1>9, <1>10, GoesOnStep

\* What the search does to the calls, where it ends with a context.
LedTo(t, z, g, c) ==
    /\ Moved(z, g) /\ Changed(z) /\ ChangedIn({z}) /\ Others(t) /\ z[1] = t /\ fr[z] = Top(t)
    /\ z \in Places /\ z \in Places' /\ fr'[z] = g /\ Places' = Places /\ Nested'
    /\ (\A x \in {z} : x \in Places' =>
          (fr'[x]).c \in live' \cup {None} /\ (fr'[x]).list \in live' \cup {Nsec})
    /\ (\A x \in {z} : (x \in Places => ~Dying(fr[x])) /\ (x \in Places' => ~Dying(fr'[x])))
    /\ (\A d : InsideAt(z, d)' <=> InsideAt(z, d))
    /\ (\A d \in Ctxs : LeavesAt(z, d)' <=> LeavesAt(z, d))
    /\ fr[z].pc # "load" /\ g.c = c /\ g.pc \notin {"rel", "run"} /\ g.op # "release"

LEMMA LookFrames ==
    ASSUME IInv, NEW t \in Threads, NEW pc, At(t, pc), NEW f, NEW s, Looking(t, f, s),
           NEW c \in Ctxs, c \in live', NEW g, Led(f, g, c), Replaced(t, g), NEW z, z = TopAt(t),
           UuidKept, live \subseteq live'
    PROVE  LedTo(t, z, g, c)
<1>1. /\ stack[t] # <<>> /\ TypeOK
  BY AtFacts
<1>2. /\ Moved(z, g) /\ Changed(z) /\ ChangedIn({z}) /\ Others(t) /\ z[1] = t /\ fr[z] = Top(t)
      /\ z \in Places /\ z \in Places' /\ fr'[z] = g /\ Places' = Places
  BY <1>1, ReplacedFacts DEF Moved
<1>3. /\ ~Dying(g) /\ ~Dying(Top(t)) /\ (\A d : ~ClosesLast(g, d) /\ ~ClosesLast(Top(t), d))
      /\ (\A d : ~Inside(g, d) /\ ~Inside(Top(t), d)) /\ Top(t).pc # "load"
  BY LedFacts
<1>4. /\ g.list = Top(t).list /\ g.op = Top(t).op /\ g.c = c /\ g.s = s /\ g.pc \notin {"rel", "run"}
      /\ g.op # "release"
  BY DEF Led, Looking
<1>5. Nested'
  BY <1>1, <1>2, <1>4, NestedMove DEF IInv
<1>6. \A x \in {z} : x \in Places' =>
                 (fr'[x]).c \in live' \cup {None} /\ (fr'[x]).list \in live' \cup {Nsec}
  <2>1. Top(t).list \in live \cup {Nsec}
    BY <1>2 DEF IInv, LiveOK
  <2> QED
    BY <1>2, <1>4, <2>1
<1>7. \A d : InsideAt(z, d)' <=> InsideAt(z, d)
  BY <1>2, <1>3 DEF InsideAt
<1>8. \A d \in Ctxs : LeavesAt(z, d)' <=> LeavesAt(z, d)
  BY <1>2, <1>3 DEF LeavesAt
<1> QED
  BY <1>2, <1>3, <1>4, <1>5, <1>6, <1>7, <1>8 DEF LedTo

LEMMA JoinInv ==
    ASSUME IInv, NEW t \in Threads, NEW pc, At(t, pc), NEW f, NEW s, Looking(t, f, s), Join(t, f)
    PROVE  IInv'
<1>c. PICK c : c = Found(f.u)
  OBVIOUS
<1>z. PICK z : z = TopAt(t)
  OBVIOUS
<1>1. /\ stack[t] # <<>> /\ TypeOK /\ waiting[t] = None
  BY AtFacts
<1>2. /\ f \in Frame /\ f.op = "open" /\ f.u \in Uuids /\ f.s = s /\ s \in Sessions /\ ts_ctx[s] = None
      /\ UNCHANGED busyVars /\ UNCHANGED <<busy, calls, core_panic>>
  BY DEF Looking, busyVars
<1>3. /\ c # None /\ c \notin is_initializing /\ "single" \in Flags[f.u] /\ HasRoom(c)
      /\ ref_count' = [ref_count EXCEPT ![c] = @ + 1] /\ ts_ctx' = [ts_ctx EXCEPT ![s] = c]
      /\ Replace(t, [f EXCEPT !.pc = "busy", !.c = c])
      /\ UNCHANGED <<tee_ctxes, live, uuid, is_initializing, is_releasing, panicked, released, waiting>>
  BY <1>c, <1>2 DEF Join, Shareable
<1>4. c \in Range(tee_ctxes) /\ uuid[c] = f.u /\ c \in Ctxs /\ c \in live \ is_releasing
  BY <1>1, <1>2, <1>3, <1>c, FoundFacts DEF IInv, ListOK
<1>5. PICK g : g = [f EXCEPT !.pc = "busy", !.c = c]
  OBVIOUS
<1>6. Led(f, g, c)
  <2>1. "busy" \in Pcs /\ c \in Ctxs \cup {None}
    BY <1>4 DEF Pcs
  <2>2. Onward(f, g, "busy", f.s, c, f.ok)
    BY <1>2, <1>5, <2>1, FramePcC
  <2> QED
    BY <1>2, <1>3, <2>2 DEF Onward, Led
<1>7. Replace(t, g)
  BY <1>3, <1>5
<1>8. /\ Replaced(t, g) /\ stack' \in [Threads -> Seq(Frame)]
      /\ SessionInv' /\ SessionTypes' /\ RefsExact' /\ refs' \in [Sessions -> Nat]
      /\ OwnersStill /\ Shapes'
  BY <1>3, <1>4, <1>6, <1>7, OpenSessions
<1>9. UuidKept /\ c \in live' /\ live \subseteq live'
  BY <1>3, <1>4 DEF UuidKept
<1>10. /\ Moved(z, g) /\ Changed(z) /\ ChangedIn({z}) /\ Others(t) /\ z[1] = t /\ fr[z] = Top(t)
       /\ z \in Places /\ z \in Places' /\ fr'[z] = g /\ Places' = Places /\ Nested'
       /\ (\A x \in {z} : x \in Places' =>
             (fr'[x]).c \in live' \cup {None} /\ (fr'[x]).list \in live' \cup {Nsec})
       /\ (\A x \in {z} : (x \in Places => ~Dying(fr[x])) /\ (x \in Places' => ~Dying(fr'[x])))
       /\ (\A d : InsideAt(z, d)' <=> InsideAt(z, d))
       /\ (\A d \in Ctxs : LeavesAt(z, d)' <=> LeavesAt(z, d))
       /\ fr[z].pc # "load" /\ g.c = c /\ g.pc \notin {"rel", "run"} /\ g.op # "release"
  <2>1. LedTo(t, z, g, c)
    BY <1>z, <1>4, <1>6, <1>8, <1>9, LookFrames
  <2> QED
    BY <2>1 DEF LedTo
<1>t. ref_count \in [Ctxs -> Nat] /\ ts_ctx \in [Sessions -> Ctxs \cup {None}]
  BY <1>1 DEF TypeOK
<1>11. TypeOK'
  <2>1. ref_count' \in [Ctxs -> Nat]
    BY <1>3, <1>4, <1>t
  <2> QED
    <3>1. CtxTypes /\ CallTypes
      BY <1>1, TypeParts
    <3>2. CtxTypes'
      BY <1>2, <1>3, <2>1, <3>1 DEF CtxTypes
    <3>3. CallTypes'
      BY <1>2, <1>3, <1>8, <3>1 DEF CallTypes, busyVars
    <3> QED
      BY <1>8, <3>2, <3>3, TypePartsNext
<1>12. IsFiniteSet(Places')
  BY <1>10 DEF IInv
<1>13. LiveOK'
  <2>1. \A d \in live' : uuid'[d] \in Uuids
    BY <1>3 DEF IInv, LiveOK
  <2>2. live' \subseteq Ctxs
    BY <1>1, <1>3 DEF TypeOK
  <2>3. \A r \in Sessions : \/ owner'[r] \in {owner[r], None, Nsec}
                            \/ owner'[r] \in live /\ uuid[owner'[r]] \notin Pseudo
    BY <1>8 DEF OwnersStill
  <2>4. \A r \in Sessions : ts_ctx'[r] \in {ts_ctx[r], None} \cup live'
    BY <1>2, <1>3, <1>9, <1>t
  <2>5. \A d \in Ctxs \ live' : ref_count'[d] = ref_count[d]
    BY <1>3, <1>4, <1>t
  <2>6. LiveOK /\ TypeOK
    BY DEF IInv
  <2> QED
    BY <1>2, <1>3, <1>10, <2>1, <2>2, <2>3, <2>4, <2>5, <2>6, LiveStep
<1>14. ListOK'
  BY <1>3, ListKept DEF IInv
<1>15. InitOK'
  <2>1. \A x \in {z} : /\ x \in Places => fr[x].pc # "load"
                       /\ x \in Places' => (fr'[x]).pc # "load" /\ (fr'[x]).c \notin is_initializing
    <3>1. g.pc = "busy"
      BY <1>2, <1>5 DEF Frame
    <3> QED
      BY <1>3, <1>10, <3>1
  <2>2. /\ \A r \in Sessions : owner'[r] = owner[r] \/ owner'[r] \notin is_initializing
        /\ \A r \in Sessions : ts_ctx'[r] = ts_ctx[r] \/ ts_ctx'[r] \notin is_initializing
    BY <1>2, <1>3, <1>8, <1>t, <1>1, NoneOK, NsecOK DEF OwnersStill, TypeOK
  <2>3. InitOK
    BY DEF IInv
  <2> QED
    BY <1>2, <1>3, <1>10, <2>1, <2>2, <2>3, InitKept
<1>16. DyingOK'
  <2>1. \A d \in Ctxs : d \in is_releasing /\ ref_count[d] = 0 => ref_count'[d] = 0
    BY <1>3, <1>4, <1>t
  <2>2. ASSUME NEW d \in live', ref_count'[d] = 0
        PROVE  d \in live /\ ref_count[d] = 0
    BY <1>1, <1>3, <1>4, <1>t, <2>2 DEF TypeOK
  <2>3. DyingOK /\ TypeOK
    BY DEF IInv
  <2> QED
    BY <1>3, <1>10, <2>1, <2>2, <2>3, DyingKept
<1>17. PanicOK'
  <2>1. \A x \in {z} : x \in Places' =>
              /\ (fr'[x]).pc = "rel" => (fr'[x]).c \in panicked'
              /\ (fr'[x]).op = "release" => (fr'[x]).c \in panicked' \cap is_releasing'
              /\ (fr'[x]).pc = "run" => (fr'[x]).c \notin released'
    BY <1>10
  <2>2. PanicOK /\ \A d \in panicked : uuid'[d] \notin Pseudo
    BY <1>3 DEF IInv, PanicOK
  <2> QED
    BY <1>3, <1>10, <2>1, <2>2, PanicStep
<1>18. RefCountsExact'
  <2>1. CountExact'
    BY <1>2, <1>3, <1>4, <1>10, <1>t, CountMore, InvFacts DEF IInv
  <2>2. (RefCountsExact <=> RefsExact /\ CountExact)'
    BY CountParts, PTL
  <2> QED
    BY <1>8, <2>1, <2>2
<1>19. InstanceRules'
  <2>1. CountsFit
    <3>1. ASSUME NEW d \in live'
          PROVE  \/ ref_count'[d] <= ref_count[d] \/ ref_count'[d] <= 1
                 \/ Single(d) /\ HasFlag(d, "multi")
      <4>1. CASE d = c
        <5>1. Single(c)
          BY <1>3, <1>4 DEF Single, HasFlag
        <5>2. CASE HasFlag(c, "multi")
          BY <4>1, <5>1, <5>2
        <5>3. CASE ref_count[c] = 0
          BY <1>3, <1>4, <1>t, <4>1, <5>3
        <5> QED
          BY <1>3, <5>2, <5>3 DEF HasRoom
      <4>2. CASE d # c
        <5>1. d \in Ctxs
          BY <1>1, <1>3 DEF TypeOK
        <5>2. ref_count'[d] = ref_count[d] /\ ref_count[d] \in Nat
          BY <1>3, <1>t, <4>2, <5>1
        <5> QED
          BY <5>2
      <4> QED
        BY <4>1, <4>2
    <3> QED
      BY <3>1 DEF CountsFit
  <2>2. InstanceRules /\ ListOK /\ TypeOK
    BY DEF IInv
  <2>3. /\ live' \subseteq live /\ (\A d \in live' : uuid'[d] = uuid[d])
        /\ live' \ is_releasing' \subseteq live \ is_releasing
    BY <1>3
  <2> QED
    BY <1>11, <1>14, <2>1, <2>2, <2>3, RulesKept
<1>20. InsideOK' /\ LockCountOK'
  <2>1. \A x \in {z}, d \in live \cup live' : (d \in live => ~Concurrent(d)) =>
              (InsideAt(x, d)' <=> InsideAt(x, d))
    BY <1>10
  <2>2. InsideOK /\ LockCountOK /\ LiveOK
    BY DEF IInv
  <2> QED
    BY <1>2, <1>3, <1>10, <2>1, <2>2, BusyKept
<1>21. WaitOK'
  <2>1. WaitOK /\ TypeOK /\ \A x \in {z} : x[1] = t
    BY <1>10 DEF IInv
  <2> QED
    BY <1>1, <1>3, <1>10, <2>1, WaitStep
<1> QED
  BY <1>8, <1>10, <1>11, <1>12, <1>13, <1>14, <1>15, <1>16, <1>17, <1>18, <1>19, <1>20, <1>21 DEF IInv

\* A new context.
LEMMA CreateInv ==
    ASSUME IInv, NEW t \in Threads, NEW pc, At(t, pc), NEW f, NEW s, Looking(t, f, s),
           Found(f.u) = None \/ "single" \notin Flags[f.u], NEW c \in Ctxs \ live,
           live' = live \cup {c}, uuid' = [uuid EXCEPT ![c] = f.u],
           ref_count' = [ref_count EXCEPT ![c] = 1], tee_ctxes' = Append(tee_ctxes, c),
           is_initializing' = IF f.u \in Pseudo THEN is_initializing ELSE is_initializing \cup {c},
           ts_ctx' = [ts_ctx EXCEPT ![s] = c],
           Replace(t, [f EXCEPT !.c = c, !.pc = IF f.u \in Pseudo THEN "busy" ELSE "load"]),
           UNCHANGED <<is_releasing, panicked, released, waiting>>
    PROVE  IInv'
<1>z. PICK z : z = TopAt(t)
  OBVIOUS
<1>1. /\ stack[t] # <<>> /\ TypeOK /\ waiting[t] = None
  BY AtFacts
<1>2. /\ f \in Frame /\ f.op = "open" /\ f.u \in Uuids /\ f.s = s /\ s \in Sessions /\ ts_ctx[s] = None
      /\ UNCHANGED busyVars /\ UNCHANGED <<busy, calls, core_panic>>
  BY DEF Looking, busyVars
<1> DEFINE to == IF f.u \in Pseudo THEN "busy" ELSE "load"
<1>3. to \in Pcs /\ to \in {"busy", "load"} /\ (to = "busy" <=> f.u \in Pseudo)
  BY DEF Pcs
<1>4. PICK g : g = [f EXCEPT !.c = c, !.pc = to]
  OBVIOUS
<1>5. Replace(t, g)
  BY <1>4
<1> HIDE DEF to
<1>6. Led(f, g, c) /\ g.pc = to
  <2>1. to \in Pcs /\ c \in Ctxs \cup {None} /\ f \in Frame
    BY <1>2, <1>3
  <2>2. Onward(f, g, to, f.s, c, f.ok)
    BY ONLY <1>4, <2>1, FrameCPc
  <2>3. c # None
    BY NoneOK
  <2> QED
    BY <1>2, <1>3, <2>2, <2>3 DEF Onward, Led
<1>8. /\ Replaced(t, g) /\ stack' \in [Threads -> Seq(Frame)]
      /\ SessionInv' /\ SessionTypes' /\ RefsExact' /\ refs' \in [Sessions -> Nat]
      /\ OwnersStill /\ Shapes'
  BY <1>5, <1>6, OpenSessions
<1>t. /\ ref_count \in [Ctxs -> Nat] /\ ts_ctx \in [Sessions -> Ctxs \cup {None}]
      /\ uuid \in [Ctxs -> Uuids \cup {None}] /\ live \subseteq Ctxs /\ is_initializing \subseteq Ctxs
      /\ tee_ctxes \in Seq(Ctxs)
  BY <1>1 DEF TypeOK
<1>9. UuidKept /\ c \in live' /\ live \subseteq live' /\ (\A d \in live : uuid'[d] = uuid[d]) /\ uuid'[c] = f.u
  BY <1>t DEF UuidKept
<1>10. /\ Moved(z, g) /\ Changed(z) /\ ChangedIn({z}) /\ Others(t) /\ z[1] = t /\ fr[z] = Top(t)
       /\ z \in Places /\ z \in Places' /\ fr'[z] = g /\ Places' = Places /\ Nested'
       /\ (\A x \in {z} : x \in Places' =>
             (fr'[x]).c \in live' \cup {None} /\ (fr'[x]).list \in live' \cup {Nsec})
       /\ (\A x \in {z} : (x \in Places => ~Dying(fr[x])) /\ (x \in Places' => ~Dying(fr'[x])))
       /\ (\A d : InsideAt(z, d)' <=> InsideAt(z, d))
       /\ (\A d \in Ctxs : LeavesAt(z, d)' <=> LeavesAt(z, d))
       /\ fr[z].pc # "load" /\ g.c = c /\ g.pc \notin {"rel", "run"} /\ g.op # "release"
  <2>1. LedTo(t, z, g, c)
    BY <1>z, <1>6, <1>8, <1>9, LookFrames
  <2> QED
    BY <2>1 DEF LedTo
<1>f. /\ c \notin busy /\ c \notin is_initializing /\ c \notin is_releasing /\ c \notin panicked /\ c \notin released
      /\ ref_count[c] = 0
  BY DEF IInv, LiveOK
<1>11. TypeOK'
  <2>1. ref_count' \in [Ctxs -> Nat]
    BY <1>t
  <2>2. uuid' \in [Ctxs -> Uuids \cup {None}]
    BY <1>2, <1>t
  <2>3. tee_ctxes' \in Seq(Ctxs)
    BY <1>t
  <2>4. live' \subseteq Ctxs /\ is_initializing' \subseteq Ctxs
    BY <1>t
  <2>5. CtxTypes /\ CallTypes
    BY <1>1, TypeParts
  <2>6. CtxTypes'
    BY <1>2, <2>1, <2>2, <2>3, <2>4, <2>5 DEF CtxTypes
  <2>7. CallTypes'
    BY <1>2, <1>8, <2>5 DEF CallTypes, busyVars
  <2> QED
    BY <1>8, <2>6, <2>7, TypePartsNext
<1>12. IsFiniteSet(Places')
  BY <1>10 DEF IInv
<1>13. LiveOK'
  <2>1. \A d \in live' : uuid'[d] \in Uuids
    BY <1>2, <1>9 DEF IInv, LiveOK
  <2>2. live' \subseteq Ctxs
    BY <1>t
  <2>3. \A r \in Sessions : \/ owner'[r] \in {owner[r], None, Nsec}
                            \/ owner'[r] \in live /\ uuid[owner'[r]] \notin Pseudo
    BY <1>8 DEF OwnersStill
  <2>4. \A r \in Sessions : ts_ctx'[r] \in {ts_ctx[r], None} \cup live'
    BY <1>2, <1>9, <1>t
  <2>5. \A d \in Ctxs \ live' : ref_count'[d] = ref_count[d]
    BY <1>t
  <2>6. LiveOK /\ TypeOK /\ is_initializing' \subseteq is_initializing \cup live'
    BY DEF IInv
  <2> QED
    BY <1>2, <1>9, <1>10, <2>1, <2>2, <2>3, <2>4, <2>5, <2>6, LiveStep
<1>14. ListOK'
  BY <1>1, <1>f, ListMore DEF IInv
<1>15. InitOK'
  <2>1. CASE f.u \in Pseudo
    <3>1. \A x \in {z} : /\ x \in Places => fr[x].pc # "load"
                         /\ x \in Places' => (fr'[x]).pc # "load" /\ (fr'[x]).c \notin is_initializing
      BY <1>3, <1>6, <1>10, <1>f, <2>1
    <3>2. /\ \A r \in Sessions : owner'[r] = owner[r] \/ owner'[r] \notin is_initializing
          /\ \A r \in Sessions : ts_ctx'[r] = ts_ctx[r] \/ ts_ctx'[r] \notin is_initializing
      BY <1>2, <1>8, <1>t, <1>f, NoneOK, NsecOK DEF OwnersStill
    <3>3. InitOK /\ is_initializing' = is_initializing
      BY <2>1 DEF IInv
    <3> QED
      BY <1>2, <1>10, <3>1, <3>2, <3>3, InitKept
  <2>2. CASE f.u \notin Pseudo
    <3>1. g.pc = "load" /\ g.s = s /\ is_initializing' = is_initializing \cup {c}
      BY <1>2, <1>3, <1>6, <2>2 DEF Led
    <3>2. \A r \in Sessions : owner'[r] = owner[r] \/ owner'[r] \in ({Nsec} \cup live) \ is_initializing
      <4>1. ASSUME NEW r \in Sessions, owner'[r] = None, owner[r] # None PROVE FALSE
        BY <4>1, <1>2, <1>1 DEF Looking, TypeOK
      <4> QED
        BY <1>8, <4>1, <1>f, NsecOK, <1>t DEF OwnersStill
    <3>3. InitOK /\ LiveOK /\ TypeOK
      BY DEF IInv
    <3> QED
      BY <1>2, <1>10, <3>1, <3>2, <3>3, InitMore
  <2> QED
    BY <2>1, <2>2
<1>16. DyingOK'
  <2>1. \A d \in Ctxs : d \in is_releasing /\ ref_count[d] = 0 => ref_count'[d] = 0
    BY <1>t, <1>f
  <2>2. ASSUME NEW d \in live', ref_count'[d] = 0
        PROVE  d \in live /\ ref_count[d] = 0 /\ uuid'[d] = uuid[d]
    BY <1>t, <1>9, <2>2
  <2>3. DyingOK /\ TypeOK
    BY DEF IInv
  <2> QED
    BY <1>10, <2>1, <2>2, <2>3, DyingKept
<1>17. PanicOK'
  <2>1. \A x \in {z} : x \in Places' =>
              /\ (fr'[x]).pc = "rel" => (fr'[x]).c \in panicked'
              /\ (fr'[x]).op = "release" => (fr'[x]).c \in panicked' \cap is_releasing'
              /\ (fr'[x]).pc = "run" => (fr'[x]).c \notin released'
    BY <1>10
  <2>2. PanicOK /\ \A d \in panicked : uuid'[d] \notin Pseudo
    <3>1. panicked \subseteq live
      BY <1>1 DEF IInv, LiveOK, TypeOK
    <3> QED
      BY <1>9, <3>1 DEF IInv, PanicOK
  <2> QED
    BY <1>10, <2>1, <2>2, PanicStep
<1>18. RefCountsExact'
  <2>1. CountExact'
    <3>1. ref_count' = [ref_count EXCEPT ![c] = @ + 1]
      BY <1>t, <1>f
    <3> QED
      BY <1>2, <1>10, <1>t, <3>1, CountMore, InvFacts DEF IInv
  <2>2. (RefCountsExact <=> RefsExact /\ CountExact)'
    BY CountParts, PTL
  <2> QED
    BY <1>8, <2>1, <2>2
<1>19. InstanceRules'
  <2>1. InstanceRules /\ ListOK /\ TypeOK /\ LiveOK
    BY DEF IInv
  <2>2. "single" \in Flags[f.u] => \A d \in Range(tee_ctxes) : uuid[d] # f.u
    BY <1>1, <1>2, FoundFacts
  <2>3. PICK u \in Uuids : u = f.u
    BY <1>2
  <2> QED
    BY <1>11, <1>14, <2>1, <2>2, <2>3, RulesMore
<1>20. InsideOK' /\ LockCountOK'
  <2>1. \A x \in {z}, d \in live \cup live' : (d \in live => ~Concurrent(d)) =>
              (InsideAt(x, d)' <=> InsideAt(x, d))
    BY <1>10
  <2>2. InsideOK /\ LockCountOK /\ LiveOK
    BY DEF IInv
  <2>3. (\A d \in live \cap live' : uuid'[d] = uuid[d]) /\ (\A d \in live' \ live : d \in Ctxs)
        /\ (\A d \in live \ live', p \in Places : ~Inside(fr[p], d))
    BY <1>9
  <2> QED
    BY <1>2, <1>10, <2>1, <2>2, <2>3, BusyKept
<1>21. WaitOK'
  <2>1. WaitOK /\ TypeOK /\ \A x \in {z} : x[1] = t
    BY <1>10 DEF IInv
  <2> QED
    BY <1>1, <1>10, <2>1, WaitStep
<1> QED
  BY <1>8, <1>10, <1>11, <1>12, <1>13, <1>14, <1>15, <1>16, <1>17, <1>18, <1>19, <1>20, <1>21 DEF IInv

\* tee_ta_init_session() from the look-up on.
LEMMA LookUpInv ==
    ASSUME IInv, NEW t \in Threads, NEW pc, At(t, pc), NEW f, NEW s, Looking(t, f, s), LookUp(t, f)
    PROVE  IInv'
<1>1. f \in Frame /\ f.op = "open" /\ f.c = None /\ f.s = s
  BY DEF Looking
<1>2. ASSUME NEW to \in {"find", "fail"}, NEW g, g = [f EXCEPT !.pc = to]
      PROVE  Led(f, g, None) /\ g.pc = to
  <2>1. to \in Pcs
    BY <1>2 DEF Pcs
  <2>2. Onward(f, g, to, f.s, f.c, f.ok)
    BY ONLY <1>1, <1>2, <2>1, FramePc
  <2> QED
    BY <1>1, <1>2, <2>2 DEF Led, Onward
<1>3. CASE AwaitInit(t, f)
  <2>1. PICK g : g = [f EXCEPT !.pc = "find"]
    OBVIOUS
  <2>2. Replace(t, g) /\ Wait(t, InitCv) /\ UNCHANGED ctxVars /\ ts_ctx' = ts_ctx
    BY <1>3, <2>1 DEF AwaitInit
  <2>3. Led(f, g, None) /\ g.pc = "find"
    BY <1>2, <2>1
  <2> QED
    BY <2>2, <2>3, LooksInVain
<1>4. CASE Join(t, f)
  BY <1>4, JoinInv
<1>5. CASE Refuse(t, f)
  <2>1. PICK g : g = [f EXCEPT !.pc = "fail"]
    OBVIOUS
  <2>2. Replace(t, g) /\ UNCHANGED ctxVars /\ ts_ctx' = ts_ctx /\ waiting' = waiting
    BY <1>5, <2>1 DEF Refuse
  <2>3. Led(f, g, None) /\ g.pc = "fail"
    BY <1>2, <2>1
  <2> QED
    BY <2>2, <2>3, LooksInVain
<1>6. CASE Create(t, f)
  <2>1. CASE Replace(t, [f EXCEPT !.pc = "fail"]) /\ UNCHANGED <<ctxVars, ts_ctx>>
    <3>1. PICK g : g = [f EXCEPT !.pc = "fail"]
      OBVIOUS
    <3>2. Replace(t, g) /\ UNCHANGED ctxVars /\ ts_ctx' = ts_ctx /\ waiting' = waiting
      BY <1>6, <2>1, <3>1 DEF Create
    <3>3. Led(f, g, None) /\ g.pc = "fail"
      BY <1>2, <3>1
    <3> QED
      BY <3>2, <3>3, LooksInVain
  <2>2. ASSUME NEW c \in Ctxs \ live,
             /\ live' = live \cup {c}
             /\ uuid' = [uuid EXCEPT ![c] = f.u]
             /\ ref_count' = [ref_count EXCEPT ![c] = 1]
             /\ tee_ctxes' = Append(tee_ctxes, c)
             /\ is_initializing' = IF f.u \in Pseudo THEN is_initializing
                                 ELSE is_initializing \cup {c}
             /\ ts_ctx' = [ts_ctx EXCEPT ![f.s] = c]
             /\ Replace(t, [f EXCEPT !.c = c, !.pc = IF f.u \in Pseudo THEN "busy" ELSE "load"])
             /\ UNCHANGED <<is_releasing, panicked, released>>
        PROVE  IInv'
    <3>1. Found(f.u) = None \/ "single" \notin Flags[f.u]
      BY <1>6 DEF Create
    <3>2. ts_ctx' = [ts_ctx EXCEPT ![s] = c] /\ UNCHANGED <<is_releasing, panicked, released, waiting>>
      BY <1>1, <1>6, <2>2 DEF Create
    <3> QED
      BY <2>2, <3>1, <3>2, CreateInv
  <2> QED
    BY <1>6, <2>1, <2>2 DEF Create
<1> QED
  BY <1>3, <1>4, <1>5, <1>6 DEF LookUp

LEMMA FindLooks ==
    ASSUME IInv, NEW t \in Threads, OpenFind(t)
    PROVE  \E f, s : Looking(t, f, s) /\ LookUp(t, f)
<1>1. /\ At(t, "find") /\ LookUp(t, Top(t)) /\ UNCHANGED busyVars
      /\ UNCHANGED <<owner, refs, lock_thread, unlink, known, calls, core_panic>>
  BY DEF OpenFind
<1>2. /\ Top(t) \in Frame /\ Shape(Top(t)) /\ Top(t).pc = "find" /\ TopAt(t) \in Places /\ fr[TopAt(t)] = Top(t)
  BY <1>1, AtFacts
<1>s. PICK s : s = Top(t).s
  OBVIOUS
<1>3. Top(t).op = "open" /\ Top(t).c = None /\ Top(t).u \in Uuids /\ Top(t).list # None /\ s \in Sessions
  BY <1>s, <1>2 DEF Shape, Frame
<1>4. ts_ctx[s] = None
  BY <1>s, <1>2, InvFacts DEF SessionOK
<1>5. Looking(t, Top(t), s)
  BY <1>1, <1>2, <1>s, <1>3, <1>4 DEF Looking
<1> QED
  BY <1>1, <1>5

LEMMA OpenFindInv ==
    ASSUME IInv, NEW t \in Threads, OpenFind(t)
    PROVE  IInv' /\ core_panic' = core_panic
<1>1. At(t, "find") /\ core_panic' = core_panic
  BY DEF OpenFind
<1> QED
  BY <1>1, FindLooks, LookUpInv

LEMMA InitLooks ==
    ASSUME IInv, NEW t \in Threads, OpenInit(t)
    PROVE  \E f, s : Looking(t, f, s) /\ LookUp(t, f)
<1>1. /\ At(t, "init") /\ UNCHANGED busyVars
      /\ UNCHANGED <<lock_thread, unlink, known, calls, core_panic>>
  BY DEF OpenInit
<1>2. /\ Top(t) \in Frame /\ Shape(Top(t)) /\ Top(t).pc = "init" /\ TypeOK
  BY <1>1, AtFacts
<1>3. PICK s \in FreeIds :
          /\ owner' = [owner EXCEPT ![s] = Top(t).list]
          /\ refs' = [refs EXCEPT ![s] = 1]
          /\ LookUp(t, [Top(t) EXCEPT !.s = s])
  BY DEF OpenInit
<1>4. s \in Sessions /\ owner[s] = None /\ (\A p \in Places : ~(fr[p].pc = "get" /\ fr[p].s = s))
  <2>1. s \in Sessions /\ owner[s] = None
    BY <1>3 DEF FreeIds, SessionsOf
  <2>2. ASSUME NEW p \in Places PROVE ~(fr[p].pc = "get" /\ fr[p].s = s)
    <3>1. p[1] \in Threads /\ p[2] \in 1 .. Len(stack[p[1]]) /\ fr[p] = stack[p[1]][p[2]]
      BY <1>2, FrFacts
    <3> QED
      BY <1>3, <3>1 DEF FreeIds
  <2> QED
    BY <2>1, <2>2
<1>5. /\ Top(t).op = "open" /\ Top(t).c = None /\ Top(t).u \in Uuids /\ Top(t).list # None /\ Top(t).s = None
  BY <1>2 DEF Shape, Frame
<1>6. ts_ctx[s] = None
  BY <1>4, InvFacts DEF OpenOK
<1>7. PICK f : f = [Top(t) EXCEPT !.s = s]
  OBVIOUS
<1>8. Onward(Top(t), f, Top(t).pc, s, Top(t).c, Top(t).ok)
  BY <1>2, <1>4, <1>7, FrameS
<1>9. Looking(t, f, s)
  BY <1>1, <1>2, <1>3, <1>4, <1>5, <1>6, <1>8 DEF Looking, Onward
<1> QED
  BY <1>3, <1>7, <1>9

LEMMA OpenInitInv ==
    ASSUME IInv, NEW t \in Threads, OpenInit(t)
    PROVE  IInv' /\ core_panic' = core_panic
<1>1. At(t, "init") /\ core_panic' = core_panic
  BY DEF OpenInit
<1> QED
  BY <1>1, InitLooks, LookUpInv

-----------------------------------------------------------------------------
(* Loading a TA                                                            *)

\* The context that is being loaded belongs to the call that loads it.
LEMMA LoadFacts ==
    ASSUME IInv, NEW t \in Threads, At(t, "load"), NEW z, z = TopAt(t)
    PROVE  /\ Top(t) \in Frame /\ Top(t).op = "open" /\ Top(t).pc = "load" /\ Top(t).s \in Sessions
           /\ Top(t).c \in Ctxs /\ Top(t).c \in live /\ ts_ctx[Top(t).s] = Top(t).c /\ Top(t).u # None
           /\ Top(t).list # None /\ Top(t).list # Top(t).c
           /\ Top(t).c \notin busy /\ Top(t).c \notin is_releasing /\ Top(t).c \notin panicked
           /\ Top(t).c \notin released /\ Opening(Top(t)) /\ UsesSession(Top(t))
           /\ (\A q \in Places \ {z} : fr[q].c # Top(t).c /\ fr[q].list # Top(t).c)
           /\ (\A r \in Sessions : owner[r] # Top(t).c /\ (ts_ctx[r] = Top(t).c => r = Top(t).s))
           /\ ref_count[Top(t).c] = 1
<1>c. PICK c : c = Top(t).c
  OBVIOUS
<1>1. /\ Top(t) \in Frame /\ Shape(Top(t)) /\ Top(t).pc = "load" /\ stack[t] # <<>> /\ TypeOK
      /\ z \in Places /\ fr[z] = Top(t)
  BY AtFacts
<1>2. /\ Top(t).op = "open" /\ Top(t).s \in Sessions /\ c \in Ctxs /\ c # None /\ Top(t).u # None
      /\ Top(t).list # None
  BY <1>1, <1>c DEF Shape, Frame
<1>3. Opening(Top(t)) /\ UsesSession(Top(t))
  BY <1>1, <1>2, NoneOK DEF Opening, UsesSession
<1>4. c \in live /\ ts_ctx[Top(t).s] = c
  BY <1>1, <1>c, <1>2, <1>3, InvFacts DEF SessionOK, IInv, LiveOK
<1>5. /\ c \notin busy /\ c \notin is_releasing /\ c \notin panicked /\ c \notin released
      /\ (\A q \in Places \ {z} : fr[q].c # c)
      /\ (\A r \in Sessions : owner[r] # c /\ (ts_ctx[r] = c => r = Top(t).s))
  BY <1>1, <1>c DEF IInv, InitOK
<1>6. ASSUME NEW q \in Places, fr[q].list = c
      PROVE  FALSE
  <2>1. fr[q] \in Frame /\ Shape(fr[q]) /\ c # Nsec
    BY <1>2, InvFacts, NsecOK
  <2>2. CASE fr[q].op \in {"release", "destroy"}
    <3>1. fr[q].c = c
      BY <1>6, <2>1, <2>2 DEF Shape
    <3>2. q # z
      BY <1>1, <1>2, <2>2
    <3> QED
      BY <1>5, <3>1, <3>2
  <2>3. CASE fr[q].op \notin {"release", "destroy"}
    <3>1. Under(q) \in Places /\ fr[Under(q)].c = c /\ fr[Under(q)].pc \in {"run", "loop"}
      BY <1>6, <2>1, <2>3, CallerUnder
    <3>2. Under(q) # z
      BY <1>1, <3>1
    <3> QED
      BY <1>5, <3>1, <3>2
  <2> QED
    BY <2>2, <2>3
<1>7. ref_count[c] = 1
  <2>1. Served(c) = {Top(t).s}
    BY <1>2, <1>4, <1>5 DEF Served
  <2>2. Leaving(c) = {}
    BY <1>1, <1>2, <1>5 DEF Leaving, ClosesLast
  <2>3. Cardinality(Served(c)) = 1 /\ Cardinality(Leaving(c)) = 0
    BY <2>1, <2>2, FS_Singleton, FS_EmptySet
  <2> QED
    BY <1>2, <2>3, InvFacts DEF CountExact
<1> QED
  BY <1>c, <1>1, <1>2, <1>3, <1>4, <1>5, <1>6, <1>7

LEMMA LoadedInv ==
    ASSUME IInv, NEW t \in Threads, At(t, "load"), Goto(t, "busy"),
           is_initializing' = is_initializing \ {Top(t).c}, NEW W, WakeUp(W),
           UNCHANGED <<tee_ctxes, live, ts_ctx, ref_count, uuid, is_releasing, panicked, released, owner,
                       refs, lock_thread, unlink, known, calls, core_panic>>, UNCHANGED busyVars
    PROVE  IInv'
<1>z. PICK z : z = TopAt(t)
  OBVIOUS
<1>c. PICK c : c = Top(t).c
  OBVIOUS
<1>1. /\ Top(t) \in Frame /\ Shape(Top(t)) /\ Top(t).pc = "load" /\ stack[t] # <<>> /\ TypeOK
      /\ z \in Places /\ fr[z] = Top(t) /\ waiting[t] = None
  BY <1>z, AtFacts
<1>2. Top(t).op = "open" /\ c \in Ctxs /\ c \in live
  BY <1>z, <1>c, LoadFacts
<1>3. PICK g : g = [Top(t) EXCEPT !.pc = "busy"]
  OBVIOUS
<1>4. /\ g \in Frame /\ g.op = Top(t).op /\ g.list = Top(t).list /\ g.u = Top(t).u /\ g.s = Top(t).s
      /\ g.c = c /\ g.pc = "busy"
  <2>1. "busy" \in Pcs
    BY DEF Pcs
  <2>2. Onward(Top(t), g, "busy", Top(t).s, Top(t).c, Top(t).ok)
    BY <1>1, <1>3, <2>1, FramePc
  <2> QED
    BY <1>c, <2>2 DEF Onward
<1>5. /\ Replace(t, g) /\ Replaced(t, g) /\ stack' \in [Threads -> Seq(Frame)]
  BY <1>1, <1>3, <1>4, ReplaceStep DEF Goto
<1>6. /\ Moved(z, g) /\ Changed(z) /\ ChangedIn({z}) /\ Others(t) /\ z[1] = t
      /\ z \in Places' /\ fr'[z] = g /\ Places' = Places
  BY <1>1, <1>z, <1>5, ReplacedFacts DEF Moved
<1>7. /\ waiting' \in [Threads -> Cvs \cup {None}] /\ waiting'[t] = None
      /\ \A u \in Threads : waiting'[u] \in {waiting[u], None}
  BY <1>1, WakeFacts
<1>8. /\ Shape(g) /\ SameRole(fr[z], g) /\ ~Dying(fr[z]) /\ ~Dying(g)
      /\ (\A d : ~ClosesLast(fr[z], d) /\ ~ClosesLast(g, d)) /\ (\A d : ~Inside(fr[z], d) /\ ~Inside(g, d))
  <2>1. Shape(g)
    BY <1>1, <1>c, <1>2, <1>4 DEF Shape
  <2>2. SameRole(fr[z], g)
    BY <1>1, <1>c, <1>2, <1>4 DEF SameRole, UsesSession, Opening, Closer, Holder, Asks
  <2> QED
    BY <1>1, <1>2, <1>4, <2>1, <2>2 DEF Dying, ClosesLast, Inside
<1>9. TypeOK'
  BY <1>1, <1>5, <1>7 DEF TypeOK, busyVars
<1>10. Shapes'
  BY <1>6, <1>8, ShapesMove DEF IInv
<1>11. Nested'
  <2>1. UuidKept
    BY DEF UuidKept
  <2> QED
    BY <1>1, <1>z, <1>4, <1>6, <2>1, NestedMove DEF IInv
<1>12. IsFiniteSet(Places')
  BY <1>6 DEF IInv
<1>13. SessionInv'
  BY <1>6, <1>8, MovedSame DEF IInv, SessionsKept
<1>14. LiveOK'
  <2>1. \A x \in {z} : x \in Places' =>
              (fr'[x]).c \in live' \cup {None} /\ (fr'[x]).list \in live' \cup {Nsec}
    BY <1>1, <1>2, <1>4, <1>6 DEF IInv, LiveOK
  <2>2. (\A d \in live' : uuid'[d] \in Uuids) /\ live' \subseteq Ctxs
    BY DEF IInv, LiveOK, TypeOK
  <2>3. LiveOK /\ TypeOK /\ busy' = busy
    BY DEF IInv, busyVars
  <2> QED
    BY <1>6, <2>1, <2>2, <2>3, LiveStep
<1>15. ListOK'
  BY ListKept DEF IInv
<1>16. InitOK'
  <2>1. InitOK /\ TypeOK /\ UNCHANGED busy
    BY DEF IInv, busyVars
  <2>2. fr[z].pc = "load" /\ g.pc # "load" /\ g.c \in {fr[z].c, None} /\ is_initializing' = is_initializing \ {fr[z].c}
    BY <1>1, <1>c, <1>4
  <2> QED
    BY <1>6, <2>1, <2>2, InitLess
<1>17. DyingOK'
  <2>1. \A x \in {z} : (x \in Places => ~Dying(fr[x])) /\ (x \in Places' => ~Dying(fr'[x]))
    BY <1>6, <1>8
  <2>2. DyingOK /\ TypeOK
    BY DEF IInv
  <2> QED
    BY <1>6, <2>1, <2>2, DyingKept
<1>18. PanicOK'
  <2>1. \A x \in {z} : x \in Places' =>
              /\ (fr'[x]).pc = "rel" => (fr'[x]).c \in panicked'
              /\ (fr'[x]).op = "release" => (fr'[x]).c \in panicked' \cap is_releasing'
              /\ (fr'[x]).pc = "run" => (fr'[x]).c \notin released'
    BY <1>2, <1>4, <1>6
  <2>2. PanicOK /\ \A d \in panicked : uuid'[d] \notin Pseudo
    BY DEF IInv, PanicOK
  <2> QED
    BY <1>6, <2>1, <2>2, PanicStep
<1>19. RefCountsExact'
  <2>1. \A r \in Sessions : UsesAt(z, r)' <=> UsesAt(z, r)
    BY <1>1, <1>6, <1>8 DEF UsesAt, SameRole
  <2>2. RefsExact'
    BY <1>6, <2>1, RefsKept, InvFacts
  <2>3. CountExact'
    BY <1>1, <1>6, <1>8, CountsStill
  <2>4. (RefCountsExact <=> RefsExact /\ CountExact)'
    BY CountParts, PTL
  <2> QED
    BY <2>2, <2>3, <2>4
<1>20. InstanceRules'
  <2>1. CountsFit
    BY DEF CountsFit, IInv, TypeOK
  <2>2. InstanceRules /\ ListOK /\ TypeOK
    BY DEF IInv
  <2> QED
    BY <1>9, <1>15, <2>1, <2>2, RulesKept
<1>21. InsideOK' /\ LockCountOK'
  <2>1. \A x \in {z}, d \in live \cup live' : (d \in live => ~Concurrent(d)) =>
              (InsideAt(x, d)' <=> InsideAt(x, d))
    BY <1>6, <1>8 DEF InsideAt
  <2>2. InsideOK /\ LockCountOK /\ LiveOK
    BY DEF IInv
  <2> QED
    BY <1>6, <2>1, <2>2, BusyKept
<1>22. WaitOK'
  <2>1. WaitOK /\ TypeOK /\ \A x \in {z} : x[1] = t
    BY <1>6 DEF IInv
  <2> QED
    BY <1>6, <1>7, <2>1, WaitStep
<1> QED
  BY <1>9, <1>10, <1>11, <1>12, <1>13, <1>14, <1>15, <1>16, <1>17, <1>18, <1>19, <1>20, <1>21, <1>22 DEF IInv

LEMMA LoadFailsInv ==
    ASSUME IInv, NEW t \in Threads, At(t, "load"), NEW c, c = Top(t).c,
           is_initializing' = is_initializing \ {c}, NEW W, WakeUp(W),
           ts_ctx' = [ts_ctx EXCEPT ![Top(t).s] = None], tee_ctxes' = RemoveFirst(tee_ctxes, c),
           live' = live \ {c}, ref_count' = [ref_count EXCEPT ![c] = 0], uuid' = [uuid EXCEPT ![c] = None],
           Replace(t, [Top(t) EXCEPT !.pc = "fail", !.c = None]),
           UNCHANGED <<is_releasing, panicked, released, owner,
                       refs, lock_thread, unlink, known, calls, core_panic>>, UNCHANGED busyVars
    PROVE  IInv'
<1>z. PICK z : z = TopAt(t)
  OBVIOUS
<1>s. PICK s : s = Top(t).s
  OBVIOUS
<1>1. /\ Top(t) \in Frame /\ Shape(Top(t)) /\ Top(t).pc = "load" /\ stack[t] # <<>> /\ TypeOK
      /\ z \in Places /\ fr[z] = Top(t) /\ waiting[t] = None
  BY <1>z, AtFacts
<1>2. /\ Top(t).op = "open" /\ s \in Sessions /\ c \in Ctxs /\ c \in live /\ ts_ctx[s] = c
      /\ c \notin busy /\ c \notin is_releasing /\ c \notin panicked /\ c \notin released
      /\ Opening(Top(t)) /\ UsesSession(Top(t)) /\ Top(t).list # c /\ Top(t).list # None /\ Top(t).u # None
      /\ (\A q \in Places \ {z} : fr[q].c # c /\ fr[q].list # c)
      /\ (\A r \in Sessions : owner[r] # c /\ (ts_ctx[r] = c => r = s))
      /\ ref_count[c] = 1
  BY <1>z, <1>s, LoadFacts
<1>3. PICK g : g = [Top(t) EXCEPT !.pc = "fail", !.c = None]
  OBVIOUS
<1>4. /\ g \in Frame /\ g.op = Top(t).op /\ g.list = Top(t).list /\ g.u = Top(t).u /\ g.s = Top(t).s
      /\ g.c = None /\ g.pc = "fail"
  <2>1. "fail" \in Pcs /\ None \in Ctxs \cup {None} /\ Top(t) \in Frame
    BY <1>1 DEF Pcs
  <2>2. Onward(Top(t), g, "fail", Top(t).s, None, Top(t).ok)
    BY ONLY <1>3, <2>1, FramePcC
  <2> QED
    BY <2>2 DEF Onward
<1>5. /\ Replace(t, g) /\ Replaced(t, g) /\ stack' \in [Threads -> Seq(Frame)]
  BY <1>1, <1>3, <1>4, ReplaceStep
<1>6. /\ Moved(z, g) /\ Changed(z) /\ ChangedIn({z}) /\ Others(t) /\ z[1] = t
      /\ z \in Places' /\ fr'[z] = g /\ Places' = Places
  BY <1>1, <1>z, <1>5, ReplacedFacts DEF Moved
<1>7. /\ waiting' \in [Threads -> Cvs \cup {None}] /\ waiting'[t] = None
      /\ \A u \in Threads : waiting'[u] \in {waiting[u], None}
  BY <1>1, WakeFacts
<1>8. /\ Shape(g) /\ Opening(g) /\ UsesSession(g) /\ ~Dying(fr[z]) /\ ~Dying(g)
      /\ (\A d : ~ClosesLast(fr[z], d) /\ ~ClosesLast(g, d)) /\ (\A d : ~Inside(fr[z], d) /\ ~Inside(g, d))
  <2>1. Shape(g)
    BY <1>s, <1>2, <1>4, NoneOK DEF Shape
  <2>2. Opening(g) /\ UsesSession(g)
    BY <1>s, <1>2, <1>4, NoneOK DEF UsesSession, Opening
  <2> QED
    BY <1>1, <1>2, <1>4, <2>1, <2>2 DEF Dying, ClosesLast, Inside
<1>t. /\ ref_count \in [Ctxs -> Nat] /\ ts_ctx \in [Sessions -> Ctxs \cup {None}] /\ SessionTypes /\ HasSession
      /\ uuid \in [Ctxs -> Uuids \cup {None}] /\ live \subseteq Ctxs /\ is_initializing \subseteq Ctxs
      /\ tee_ctxes \in Seq(Ctxs) /\ SessionInv
  BY <1>1, InvFacts DEF TypeOK, IInv
<1>e. /\ \A d \in Ctxs \ {c} : ref_count'[d] = ref_count[d] /\ uuid'[d] = uuid[d]
      /\ ref_count'[c] = 0 /\ uuid'[c] = None
      /\ ts_ctx'[s] = None /\ \A r \in Sessions \ {s} : ts_ctx'[r] = ts_ctx[r]
  BY <1>s, <1>2, <1>t
<1>9. TypeOK'
  <2>1. tee_ctxes' \in Seq(Ctxs)
    BY <1>1, RemoveFirstFacts DEF TypeOK, IInv, ListOK
  <2>2. CtxTypes /\ SessionTypes /\ CallTypes
    BY <1>1, TypeParts
  <2>3. ref_count' \in [Ctxs -> Nat] /\ uuid' \in [Ctxs -> Uuids \cup {None}]
    BY <2>2 DEF CtxTypes
  <2>4. CtxTypes'
    BY <2>1, <2>2, <2>3 DEF CtxTypes, busyVars
  <2>5. ts_ctx' \in [Sessions -> Ctxs \cup {None}]
    BY <2>2 DEF SessionTypes
  <2>6. SessionTypes'
    BY <2>2, <2>5 DEF SessionTypes
  <2>7. CallTypes'
    BY <1>5, <1>7, <2>2 DEF CallTypes, busyVars
  <2> QED
    BY <2>4, <2>6, <2>7, TypePartsNext
<1>10. Shapes'
  BY <1>6, <1>8, ShapesMove DEF IInv
<1>11. Nested'
  <2>1. UuidKept
    BY <1>e, <1>t DEF UuidKept
  <2> QED
    BY <1>1, <1>z, <1>4, <1>6, <2>1, NestedMove DEF IInv
<1>12. IsFiniteSet(Places')
  BY <1>6 DEF IInv
<1>13. SessionInv'
  <2>1. /\ Opening(fr[z]) /\ UsesSession(fr[z]) /\ g.s = fr[z].s /\ g.list = fr[z].list /\ g.s \in Sessions
        /\ g.list # None /\ (g.pc \in {"find", "fail"} => g.c = None)
        /\ ts_ctx'[g.s] = g.c /\ (\A r \in Sessions \ {g.s} : ts_ctx'[r] = ts_ctx[r])
        /\ g.pc # "drain" /\ fr[z].pc # "drain"
    BY <1>1, <1>s, <1>2, <1>4, <1>e
  <2> QED
    BY <1>6, <1>8, <1>t, <2>1, MovedOpening
<1>14. LiveOK'
  <2>1. \A p \in Places' : (fr'[p]).c # c /\ (fr'[p]).list # c
    <3>1. g.c # c /\ g.list # c
      BY <1>2, <1>4, NoneOK
    <3> QED
      BY <1>2, <1>6, <3>1 DEF Moved
  <2>2. \A x \in {z} : x \in Places' =>
              (fr'[x]).c \in live \cup {None} /\ (fr'[x]).list \in live \cup {Nsec}
    BY <1>1, <1>4, <1>6 DEF IInv, LiveOK
  <2>3. /\ \A d \in live \ {c} : uuid'[d] = uuid[d]
        /\ \A r \in Sessions : owner'[r] = owner[r] /\ owner[r] # c
        /\ \A r \in Sessions : ts_ctx'[r] \in {ts_ctx[r], None} /\ ts_ctx'[r] # c
    BY <1>2, <1>e, <1>t, NoneOK
  <2>4. /\ busy' \subseteq busy \ {c} /\ is_initializing' \subseteq is_initializing \ {c}
        /\ is_releasing' \subseteq is_releasing \ {c} /\ panicked' \subseteq panicked \ {c}
        /\ released' \subseteq released \ {c}
    BY <1>2 DEF busyVars
  <2>5. LiveOK /\ TypeOK
    BY DEF IInv
  <2> QED
    BY <1>2, <1>6, <1>e, <2>1, <2>2, <2>3, <2>4, <2>5, LiveLess
<1>15. ListOK'
  <2>1. live' \ is_releasing' = (live \ is_releasing) \ {c}
    OBVIOUS
  <2> QED
    BY <2>1, ListLess DEF IInv
<1>16. InitOK'
  <2>1. InitOK /\ TypeOK /\ UNCHANGED busy
    BY DEF IInv, busyVars
  <2>2. fr[z].pc = "load" /\ g.pc # "load" /\ g.c \in {fr[z].c, None} /\ is_initializing' = is_initializing \ {fr[z].c}
    BY <1>1, <1>4
  <2>3. \A r \in Sessions : ts_ctx'[r] \in {ts_ctx[r], None}
    BY <1>e
  <2> QED
    BY <1>6, <2>1, <2>2, <2>3, InitLess
<1>17. DyingOK'
  <2>1. \A x \in {z} : (x \in Places => ~Dying(fr[x])) /\ (x \in Places' => ~Dying(fr'[x]))
    BY <1>6, <1>8
  <2>2. DyingOK /\ TypeOK
    BY DEF IInv
  <2>3. \A d \in Ctxs : d \in is_releasing /\ ref_count[d] = 0 => ref_count'[d] = 0
    BY <1>e
  <2>4. \A d \in live' : uuid'[d] = uuid[d] /\ d \in live /\ ref_count'[d] = ref_count[d]
    BY <1>e, <1>t
  <2> QED
    BY <1>6, <2>1, <2>2, <2>3, <2>4, DyingKept
<1>18. PanicOK'
  <2>1. \A x \in {z} : x \in Places' =>
              /\ (fr'[x]).pc = "rel" => (fr'[x]).c \in panicked'
              /\ (fr'[x]).op = "release" => (fr'[x]).c \in panicked' \cap is_releasing'
              /\ (fr'[x]).pc = "run" => (fr'[x]).c \notin released'
    BY <1>2, <1>4, <1>6
  <2>2. PanicOK /\ \A d \in panicked : uuid'[d] \notin Pseudo
    BY <1>1, <1>2, <1>e DEF IInv, PanicOK, TypeOK
  <2> QED
    BY <1>6, <2>1, <2>2, PanicStep
<1>19. RefCountsExact'
  <2>1. \A r \in Sessions : UsesAt(z, r)' <=> UsesAt(z, r)
    BY <1>1, <1>2, <1>4, <1>6, <1>8 DEF UsesAt
  <2>2. RefsExact'
    BY <1>6, <2>1, RefsKept, InvFacts
  <2>3. CountExact'
    <3>1. \A d : ~LeavesAt(z, d)' /\ ~LeavesAt(z, d)
      BY <1>1, <1>6, <1>8 DEF LeavesAt
    <3>2. ref_count' = [ref_count EXCEPT ![c] = @ - (IF LeavesAt(z, c)' THEN 0 ELSE 1)]
      <4>1. ref_count' = [ref_count EXCEPT ![c] = @ - 1]
        BY <1>2, <1>t
      <4>2. ~LeavesAt(z, c)'
        BY <3>1
      <4> HIDE DEF LeavesAt
      <4> QED
        BY ONLY <4>1, <4>2
    <3> QED
      BY <1>s, <1>2, <1>6, <1>t, <3>1, <3>2, CountFreed, InvFacts DEF IInv
  <2>4. (RefCountsExact <=> RefsExact /\ CountExact)'
    BY CountParts, PTL
  <2> QED
    BY <2>2, <2>3, <2>4
<1>20. InstanceRules'
  <2>1. CountsFit
    BY <1>e, <1>t DEF CountsFit
  <2>2. InstanceRules /\ ListOK /\ TypeOK
    BY DEF IInv
  <2>3. /\ live' \subseteq live /\ (\A d \in live' : uuid'[d] = uuid[d])
        /\ live' \ is_releasing' \subseteq live \ is_releasing
    BY <1>e, <1>t
  <2> QED
    BY <1>9, <1>15, <2>1, <2>2, <2>3, RulesKept
<1>21. InsideOK' /\ LockCountOK'
  <2>1. \A x \in {z}, d \in live \cup live' : (d \in live => ~Concurrent(d)) =>
              (InsideAt(x, d)' <=> InsideAt(x, d))
    BY <1>6, <1>8 DEF InsideAt
  <2>2. InsideOK /\ LockCountOK /\ LiveOK
    BY DEF IInv
  <2>3. \A d \in live \ live', p \in Places : ~Inside(fr[p], d)
    BY <1>2, <1>8 DEF Inside
  <2>4. (\A d \in live \cap live' : uuid'[d] = uuid[d]) /\ (\A d \in live' \ live : d \in Ctxs)
    BY <1>e, <1>t
  <2> QED
    BY <1>6, <2>1, <2>2, <2>3, <2>4, BusyKept
<1>22. WaitOK'
  <2>1. WaitOK /\ TypeOK /\ \A x \in {z} : x[1] = t
    BY <1>6 DEF IInv
  <2> QED
    BY <1>6, <1>7, <2>1, WaitStep
<1> QED
  BY <1>9, <1>10, <1>11, <1>12, <1>13, <1>14, <1>15, <1>16, <1>17, <1>18, <1>19, <1>20, <1>21, <1>22 DEF IInv

LEMMA LoadInv ==
    ASSUME IInv, NEW t \in Threads, Load(t)
    PROVE  IInv' /\ core_panic' = core_panic
<1>c. PICK c : c = Top(t).c
  OBVIOUS
<1>1. /\ At(t, "load") /\ is_initializing' = is_initializing \ {c} /\ WakeUp(WaitersOn(InitCv))
      /\ UNCHANGED <<is_releasing, panicked, released, owner, refs, lock_thread, unlink, known, calls, core_panic>>
      /\ UNCHANGED busyVars
  BY <1>c DEF Load
<1>2. CASE Goto(t, "busy") /\ UNCHANGED <<tee_ctxes, live, ts_ctx, ref_count, uuid>>
  BY <1>c, <1>1, <1>2, LoadedInv
<1>3. CASE /\ ts_ctx' = [ts_ctx EXCEPT ![Top(t).s] = None]
           /\ tee_ctxes' = RemoveFirst(tee_ctxes, c)
           /\ live' = live \ {c}
           /\ ref_count' = [ref_count EXCEPT ![c] = 0]
           /\ uuid' = [uuid EXCEPT ![c] = None]
           /\ Replace(t, [Top(t) EXCEPT !.pc = "fail", !.c = None])
  BY <1>c, <1>1, <1>3, LoadFailsInv
<1> QED
  BY <1>c, <1>2, <1>3 DEF Load

-----------------------------------------------------------------------------
(* The last reference to a context                                         *)

LEMMA UnrefFacts ==
    ASSUME IInv, NEW t \in Threads, At(t, "unref"), NEW c, c = Top(t).c, NEW z, z = TopAt(t)
    PROVE  /\ Top(t) \in Frame /\ Shape(Top(t)) /\ Top(t).pc = "unref" /\ Top(t).op = "close"
           /\ stack[t] # <<>> /\ TypeOK /\ waiting[t] = None /\ ~core_panic
           /\ z \in Places /\ fr[z] = Top(t)
           /\ c \in Ctxs /\ c \in live /\ c \notin is_initializing /\ ref_count[c] > 0
           /\ NoRole(fr[z]) /\ ~Dying(fr[z]) /\ LeavesAt(z, c)
           /\ (\A d : ~Inside(fr[z], d)) /\ (\A r : ~UsesAt(z, r))
           /\ (\A d : d # c => ~LeavesAt(z, d))
           /\ (MustDelist(c) => Contains(tee_ctxes, c))
<1>1. /\ Top(t) \in Frame /\ Shape(Top(t)) /\ Top(t).pc = "unref" /\ stack[t] # <<>> /\ TypeOK
      /\ z \in Places /\ fr[z] = Top(t) /\ waiting[t] = None /\ ~core_panic
  BY AtFacts
<1>2. Top(t).op = "close" /\ c \in Ctxs /\ c # None
  BY <1>1 DEF Shape, Frame
<1>3. c \in live /\ c \notin is_initializing
  BY <1>1, <1>2, NotLoading DEF IInv, LiveOK
<1>4. NoRole(fr[z]) /\ ~Dying(fr[z])
  BY <1>1, <1>2 DEF NoRole, UsesSession, Opening, Closer, Asks, Dying
<1>5. LeavesAt(z, c) /\ (\A d : d # c => ~LeavesAt(z, d))
  BY <1>1, <1>2 DEF LeavesAt, ClosesLast
<1>6. (\A d : ~Inside(fr[z], d)) /\ (\A r : ~UsesAt(z, r))
  BY <1>1, <1>2, <1>4 DEF Inside, UsesAt, NoRole
<1>7. ref_count[c] > 0
  BY <1>1, <1>2, <1>4, Referenced
<1>8. MustDelist(c) => Contains(tee_ctxes, c)
  BY <1>1, <1>3, ListFacts DEF MustDelist, IInv
<1> QED
  BY <1>1, <1>2, <1>3, <1>4, <1>5, <1>6, <1>7, <1>8

\* What both outcomes have in common.
UnrefStep(c) ==
    /\ ref_count' = [ref_count EXCEPT ![c] = IF @ = 0 THEN 0 ELSE @ - 1]
    /\ tee_ctxes' = IF MustDelist(c) THEN Delisted(c) ELSE tee_ctxes
    /\ is_releasing' = IF MustDelist(c) THEN is_releasing \cup {c} ELSE is_releasing
    /\ UNCHANGED <<live, uuid, is_initializing, panicked, released>>
    /\ UNCHANGED busyVars /\ UNCHANGED sessVars /\ UNCHANGED <<waiting, calls, core_panic>>

LEMMA UnrefLists ==
    ASSUME IInv, NEW c \in live, UnrefStep(c)
    PROVE  ListOK' /\ tee_ctxes' \in Seq(Ctxs)
<1>t. TypeOK /\ ListOK
  BY DEF IInv
<1>1. CASE MustDelist(c)
  <2>1. tee_ctxes' = RemoveFirst(tee_ctxes, c) /\ live' \ is_releasing' = (live \ is_releasing) \ {c}
    BY <1>1 DEF UnrefStep, Delisted
  <2>2. ListOK'
    BY <1>t, <2>1, ListLess
  <2>3. tee_ctxes' \in Seq(Ctxs)
    BY <1>t, <2>1, RemoveFirstFacts DEF TypeOK, ListOK
  <2> QED
    BY <2>2, <2>3
<1>2. CASE ~MustDelist(c)
  <2>1. tee_ctxes' = tee_ctxes /\ live' \ is_releasing' = live \ is_releasing
    BY <1>2 DEF UnrefStep
  <2> QED
    BY <1>t, <2>1, ListKept DEF TypeOK
<1> QED
  BY <1>1, <1>2

\* What does not depend on where the call goes.
LEMMA UnrefCommon ==
    ASSUME IInv, NEW t \in Threads, At(t, "unref"), NEW c, c = Top(t).c, NEW z, z = TopAt(t), UnrefStep(c),
           stack' \in [Threads -> Seq(Frame)], Changed(z), ChangedIn({z}), Others(t), z[1] = t,
           z \in Places' => /\ (fr'[z]).pc \notin {"load", "run", "rel", "clear", "unref", "enter", "unlink", "drain"}
                            /\ (fr'[z]).op = "close" /\ (fr'[z]).c = c
                            /\ (fr'[z]).list = Top(t).list /\ NoRole(fr'[z]),
           Places' \subseteq Places
    PROVE  /\ TypeOK' /\ LiveOK' /\ ListOK' /\ InitOK' /\ PanicOK' /\ RefCountsExact' /\ InstanceRules'
           /\ InsideOK' /\ LockCountOK' /\ WaitOK' /\ IsFiniteSet(Places')
<1>1. /\ Top(t) \in Frame /\ Top(t).pc = "unref" /\ Top(t).op = "close" /\ TypeOK /\ waiting[t] = None
      /\ z \in Places /\ fr[z] = Top(t) /\ c \in Ctxs /\ c \in live /\ c \notin is_initializing
      /\ ref_count[c] > 0 /\ LeavesAt(z, c) /\ (\A d : ~Inside(fr[z], d)) /\ (\A r : ~UsesAt(z, r))
      /\ (\A d : d # c => ~LeavesAt(z, d))
  BY UnrefFacts
<1>2. /\ UNCHANGED <<live, uuid, is_initializing, panicked, released>>
      /\ UNCHANGED <<waiting, calls, core_panic, owner, ts_ctx, refs, lock_thread, unlink, known>>
      /\ UNCHANGED busyVars /\ UNCHANGED <<busy, si_thread, si_count>>
      /\ is_releasing \subseteq is_releasing' /\ is_releasing' \subseteq is_releasing \cup {c}
  BY DEF UnrefStep, busyVars, sessVars
<1>t. /\ ref_count \in [Ctxs -> Nat] /\ live \subseteq Ctxs /\ is_releasing \subseteq Ctxs
      /\ LiveOK /\ InitOK /\ PanicOK /\ InstanceRules /\ ListOK /\ InsideOK /\ LockCountOK /\ WaitOK
      /\ IsFiniteSet(Places)
  BY <1>1 DEF TypeOK, IInv
<1>e. /\ ref_count' \in [Ctxs -> Nat] /\ ref_count' = [ref_count EXCEPT ![c] = IF @ = 0 THEN 0 ELSE @ - 1]
      /\ (\A d \in Ctxs : ref_count'[d] <= ref_count[d]) /\ (\A d \in Ctxs \ {c} : ref_count'[d] = ref_count[d])
  BY <1>1, <1>t DEF UnrefStep
<1>3. ListOK' /\ tee_ctxes' \in Seq(Ctxs)
  BY <1>1, UnrefLists
<1>4. TypeOK'
  BY <1>1, <1>2, <1>3, <1>t, <1>e DEF TypeOK
<1>5. LiveOK'
  <2>1. \A x \in {z} : x \in Places' =>
              (fr'[x]).c \in live' \cup {None} /\ (fr'[x]).list \in live' \cup {Nsec}
    BY <1>1, <1>2, <1>t DEF LiveOK
  <2>2. (\A d \in live' : uuid'[d] \in Uuids) /\ live' \subseteq Ctxs
    BY <1>2, <1>t DEF LiveOK
  <2>3. \A d \in Ctxs \ live' : ref_count'[d] = ref_count[d]
    BY <1>1, <1>2, <1>e
  <2> QED
    BY <1>1, <1>2, <1>t, <2>1, <2>2, <2>3, LiveStep
<1>6. InitOK'
  <2>1. \A x \in {z} : /\ x \in Places => fr[x].pc # "load"
                       /\ x \in Places' => (fr'[x]).pc # "load" /\ (fr'[x]).c \notin is_initializing
    BY <1>1
  <2>2. is_releasing' \cap is_initializing \subseteq is_releasing
    BY <1>1, <1>2
  <2> QED
    BY <1>2, <1>t, <2>1, <2>2, InitKept
<1>7. PanicOK'
  <2>1. \A x \in {z} : x \in Places' =>
              /\ (fr'[x]).pc = "rel" => (fr'[x]).c \in panicked'
              /\ (fr'[x]).op = "release" => (fr'[x]).c \in panicked' \cap is_releasing'
              /\ (fr'[x]).pc = "run" => (fr'[x]).c \notin released'
    OBVIOUS
  <2>2. \A d \in panicked : uuid'[d] \notin Pseudo
    BY <1>2, <1>t DEF PanicOK
  <2> QED
    BY <1>2, <1>t, <2>1, <2>2, PanicStep
<1>8. RefCountsExact'
  <2>1. \A r \in Sessions : UsesAt(z, r)' <=> UsesAt(z, r)
    BY <1>1 DEF UsesAt, NoRole
  <2>2. RefsExact'
    BY <1>2, <2>1, RefsKept, InvFacts
  <2>3. ~LeavesAt(z, c)' /\ \A d \in Ctxs \ {c} : LeavesAt(z, d)' <=> LeavesAt(z, d)
    BY <1>1 DEF LeavesAt, ClosesLast
  <2>4. CountExact'
    BY <1>1, <1>2, <1>t, <1>e, <2>3, CountLess, InvFacts
  <2>5. (RefCountsExact <=> RefsExact /\ CountExact)'
    BY CountParts, PTL
  <2> QED
    BY <2>2, <2>4, <2>5
<1>9. InstanceRules'
  <2>1. CountsFit
    BY <1>2, <1>t, <1>e DEF CountsFit
  <2> QED
    BY <1>1, <1>2, <1>3, <1>4, <1>t, <2>1, RulesKept
<1>10. InsideOK' /\ LockCountOK'
  <2>1. \A x \in {z}, d \in live \cup live' : (d \in live => ~Concurrent(d)) =>
              (InsideAt(x, d)' <=> InsideAt(x, d))
    BY <1>1 DEF InsideAt, Inside
  <2> QED
    BY <1>2, <1>t, <2>1, BusyKept
<1>11. WaitOK'
  <2>1. \A x \in {z} : x[1] = t
    OBVIOUS
  <2> QED
    BY <1>1, <1>2, <1>t, <2>1, WaitStep
<1>12. IsFiniteSet(Places')
  BY <1>t, FS_Subset
<1> QED
  BY <1>3, <1>4, <1>5, <1>6, <1>7, <1>8, <1>9, <1>10, <1>11, <1>12

LEMMA UnrefDoomedInv ==
    ASSUME IInv, NEW t \in Threads, At(t, "unref"), NEW c, c = Top(t).c, UnrefStep(c), Doomed(c),
           Goto(t, "destroy")
    PROVE  IInv'
<1>z. PICK z : z = TopAt(t)
  OBVIOUS
<1>1. /\ Top(t) \in Frame /\ Shape(Top(t)) /\ Top(t).pc = "unref" /\ Top(t).op = "close" /\ stack[t] # <<>>
      /\ TypeOK /\ z \in Places /\ fr[z] = Top(t) /\ c \in Ctxs /\ c \in live
      /\ NoRole(fr[z]) /\ ~Dying(fr[z]) /\ ref_count[c] > 0
  BY <1>z, UnrefFacts
<1>3. PICK g : g = [Top(t) EXCEPT !.pc = "destroy"]
  OBVIOUS
<1>4. /\ g \in Frame /\ g.op = "close" /\ g.list = Top(t).list /\ g.u = Top(t).u /\ g.s = Top(t).s
      /\ g.c = c /\ g.pc = "destroy"
  <2>1. "destroy" \in Pcs
    BY DEF Pcs
  <2>2. Onward(Top(t), g, "destroy", Top(t).s, Top(t).c, Top(t).ok)
    BY <1>1, <1>3, <2>1, FramePc
  <2> QED
    BY <1>1, <2>2 DEF Onward
<1>5. /\ Replace(t, g) /\ Replaced(t, g) /\ stack' \in [Threads -> Seq(Frame)]
  BY <1>1, <1>3, <1>4, ReplaceStep DEF Goto
<1>6. /\ Moved(z, g) /\ Changed(z) /\ ChangedIn({z}) /\ Others(t) /\ z[1] = t
      /\ z \in Places' /\ fr'[z] = g /\ Places' = Places
  BY <1>1, <1>z, <1>5, ReplacedFacts DEF Moved
<1>8. Shape(g) /\ NoRole(g) /\ Dying(g)
  <2>1. Shape(g)
    BY <1>1, <1>4, NoneOK DEF Shape
  <2>2. NoRole(g) /\ Dying(g)
    BY <1>4 DEF NoRole, UsesSession, Opening, Closer, Asks, Dying
  <2> QED
    BY <2>1, <2>2
<1>9. /\ TypeOK' /\ LiveOK' /\ ListOK' /\ InitOK' /\ PanicOK' /\ RefCountsExact' /\ InstanceRules'
      /\ InsideOK' /\ LockCountOK' /\ WaitOK' /\ IsFiniteSet(Places')
  BY <1>z, <1>4, <1>5, <1>6, <1>8, UnrefCommon
<1>10. Shapes'
  BY <1>6, <1>8, ShapesMove DEF IInv
<1>11. Nested'
  <2>1. UuidKept
    BY DEF UuidKept, UnrefStep
  <2> QED
    BY <1>1, <1>z, <1>4, <1>6, <2>1, NestedMove DEF IInv
<1>12. SessionInv'
  <2>1. SessionsKept /\ g.pc \notin {"find", "fail"}
    BY <1>4 DEF UnrefStep, SessionsKept, sessVars
  <2> QED
    BY <1>1, <1>6, <1>8, <2>1, MovedNoRole, InvFacts DEF IInv
<1>13. DyingOK'
  <2>1. ref_count[c] = 1
    BY DEF Doomed
  <2>2. ref_count[g.c] # 0 /\ g.c \in Ctxs
    BY <1>1, <1>4, <2>1
  <2>3. ref_count' = [ref_count EXCEPT ![g.c] = 0]
    BY <1>1, <1>4, <2>1 DEF UnrefStep, TypeOK
  <2>4. is_releasing' = is_releasing \cup {g.c}
    BY <1>4 DEF UnrefStep, MustDelist
  <2>5. UNCHANGED <<panicked, live, uuid>> /\ DyingOK
    BY DEF UnrefStep, IInv
  <2> QED
    BY <1>1, <1>6, <1>8, <2>2, <2>3, <2>4, <2>5, DyingMore
<1> QED
  BY <1>9, <1>10, <1>11, <1>12, <1>13 DEF IInv

LEMMA UnrefKeptInv ==
    ASSUME IInv, NEW t \in Threads, At(t, "unref"), NEW c, c = Top(t).c, UnrefStep(c), ~Doomed(c), Return(t)
    PROVE  IInv'
<1>z. PICK z : z = TopAt(t)
  OBVIOUS
<1>1. /\ Top(t) \in Frame /\ Top(t).pc = "unref" /\ Top(t).op = "close" /\ stack[t] # <<>>
      /\ TypeOK /\ z \in Places /\ fr[z] = Top(t) /\ c \in Ctxs /\ c \in live
      /\ NoRole(fr[z]) /\ ~Dying(fr[z]) /\ ref_count[c] > 0
  BY <1>z, UnrefFacts
<1>5. Returned(t) /\ stack' \in [Threads -> Seq(Frame)]
  BY <1>1, ReturnStep
<1>6. /\ Gone(z) /\ Changed(z) /\ ChangedIn({z}) /\ Others(t) /\ z[1] = t
      /\ z \notin Places' /\ Places' \subseteq Places
  BY <1>1, <1>z, <1>5, ReturnedFacts DEF Gone
<1>9. /\ TypeOK' /\ LiveOK' /\ ListOK' /\ InitOK' /\ PanicOK' /\ RefCountsExact' /\ InstanceRules'
      /\ InsideOK' /\ LockCountOK' /\ WaitOK' /\ IsFiniteSet(Places')
  BY <1>z, <1>5, <1>6, UnrefCommon
<1>10. Shapes'
  BY <1>6, ShapesGone DEF IInv
<1>11. Nested'
  <2>1. UuidKept
    BY DEF UuidKept, UnrefStep
  <2> QED
    BY <1>1, <1>z, <1>6, <2>1, NestedGone DEF IInv
<1>12. SessionInv'
  <2>1. SessionsKept
    BY DEF UnrefStep, SessionsKept, sessVars
  <2>2. ~Opening(fr[z]) /\ ~Closer(fr[z]) /\ ~Holder(fr[z])
    BY <1>1, RolesApart DEF NoRole
  <2> QED
    BY <1>6, <2>1, <2>2, GoneNoUse, InvFacts DEF IInv
<1>13. DyingOK'
  <2>1. \A x \in {z} : (x \in Places => ~Dying(fr[x])) /\ (x \in Places' => ~Dying(fr'[x]))
    BY <1>1, <1>6
  <2>2. DyingOK /\ TypeOK
    BY DEF IInv
  <2>3. is_releasing' = is_releasing /\ UNCHANGED <<panicked, live, uuid>>
    BY DEF UnrefStep, MustDelist
  <2>4. /\ \A d \in Ctxs \ {c} : ref_count'[d] = ref_count[d]
        /\ ref_count[c] # 0 /\ (ref_count'[c] = 0 => ref_count[c] = 1)
    BY <1>1 DEF UnrefStep, TypeOK
  <2>5. \A d \in Ctxs : d \in is_releasing /\ ref_count[d] = 0 => ref_count'[d] = 0
    BY <2>4
  <2>6. ASSUME NEW d \in live', ref_count'[d] = 0
        PROVE  /\ uuid'[d] = uuid[d]
               /\ \/ d \in live /\ ref_count[d] = 0 /\ (d \in panicked' => d \in panicked)
                  \/ HasFlag(d, "keep") /\ Single(d) /\ d \notin panicked'
    <3>0. d \in live /\ d \in Ctxs
      BY <1>1, <2>3 DEF TypeOK
    <3>1. CASE d = c
      <4>1. ref_count[c] = 1
        BY <2>4, <2>6, <3>1
      <4>2. HasFlag(c, "keep") /\ Single(c) /\ c \notin panicked
        BY <4>1 DEF Doomed
      <4> QED
        BY <2>3, <3>1, <4>2
    <3>2. CASE d # c
      <4>1. ref_count[d] = 0
        BY <2>4, <2>6, <3>0, <3>2
      <4> QED
        BY <2>3, <3>0, <4>1
    <3> QED
      BY <3>1, <3>2
  <2> QED
    BY <1>6, <2>1, <2>2, <2>3, <2>5, <2>6, DyingKept
<1> QED
  BY <1>9, <1>10, <1>11, <1>12, <1>13 DEF IInv

LEMMA UnrefInv ==
    ASSUME IInv, NEW t \in Threads, Unref(t)
    PROVE  IInv' /\ core_panic' = core_panic
<1>c. PICK c : c = Top(t).c
  OBVIOUS
<1>z. PICK z : z = TopAt(t)
  OBVIOUS
<1>1. At(t, "unref")
  BY DEF Unref
<1>2. ~core_panic /\ TypeOK /\ ref_count[c] > 0 /\ c \in Ctxs /\ (MustDelist(c) => Contains(tee_ctxes, c))
  BY <1>c, <1>z, <1>1, UnrefFacts
<1>3. ref_count[c] # 0
  BY <1>2
<1>4. core_panic' = (ref_count[c] = 0 \/ (MustDelist(c) /\ ~Contains(tee_ctxes, c)))
  BY <1>c DEF Unref
<1>5. core_panic' = core_panic
  <2>1. core_panic' = FALSE
    BY <1>2, <1>3, <1>4, Zenon
  <2>2. core_panic = FALSE
    BY <1>2 DEF TypeOK
  <2> QED
    BY <2>1, <2>2
<1>6. UnrefStep(c)
  BY <1>c, <1>5 DEF Unref, UnrefStep
<1>7. IF Doomed(c) THEN Goto(t, "destroy") ELSE Return(t)
  BY <1>c DEF Unref
<1>8. IInv'
  BY <1>c, <1>1, <1>6, <1>7, UnrefDoomedInv, UnrefKeptInv
<1> QED
  BY <1>5, <1>8

-----------------------------------------------------------------------------
(* The end of a context                                                    *)

LEMMA DestroyFacts ==
    ASSUME IInv, NEW t \in Threads, At(t, "destroy"), NEW c, c = Top(t).c, NEW z, z = TopAt(t)
    PROVE  /\ Top(t) \in Frame /\ Top(t).pc = "destroy" /\ Top(t).op = "close"
           /\ stack[t] # <<>> /\ TypeOK /\ waiting[t] = None /\ ~core_panic
           /\ z \in Places /\ fr[z] = Top(t) /\ Dying(fr[z]) /\ NoRole(fr[z])
           /\ c \in Ctxs /\ c \in live /\ c \notin is_initializing
           /\ WaitersOn(BusyCv(c)) = {}
<1>1. /\ Top(t) \in Frame /\ Shape(Top(t)) /\ Top(t).pc = "destroy" /\ stack[t] # <<>> /\ TypeOK
      /\ z \in Places /\ fr[z] = Top(t) /\ waiting[t] = None /\ ~core_panic
  BY AtFacts
<1>2. Top(t).op = "close" /\ c \in Ctxs /\ c # None
  BY <1>1 DEF Shape, Frame
<1>3. c \in live /\ c \notin is_initializing
  BY <1>1, <1>2, NotLoading DEF IInv, LiveOK
<1>4. NoRole(fr[z]) /\ Dying(fr[z])
  BY <1>1, <1>2 DEF NoRole, UsesSession, Opening, Closer, Asks, Dying
<1>5. ASSUME NEW u \in Threads, waiting[u] = BusyCv(c)
      PROVE  FALSE
  <2>1. stack[u] # <<>> /\ waiting[u] # None
    <3>1. waiting[u] # None
      BY <1>2, <1>5, CvFacts, NoneOK
    <3> QED
      BY <3>1 DEF IInv, WaitOK
  <2>2. PICK y : y = TopAt(u)
    OBVIOUS
  <2>3. y \in Places
    BY <1>1, <2>1, <2>2, TopFacts
  <2>4. fr[y].pc = "busy" /\ fr[y].c = c
    <3>1. Sleeping(waiting[u], fr[y])
      BY <2>1, <2>2 DEF IInv, WaitOK, Sleeping
    <3>2. \A v : <<"lock", v>> # <<"busy", c>> /\ <<"refc", v>> # <<"busy", c>>
      OBVIOUS
    <3>3. <<"init">> # <<"busy", c>> /\ <<"single">> # <<"busy", c>>
      OBVIOUS
    <3>4. \A v : <<"busy", v>> = <<"busy", c>> => v = c
      OBVIOUS
    <3> QED
      BY <1>5, <3>1, <3>2, <3>3, <3>4 DEF Sleeping, InitCv, SingleCv, BusyCv, LockCv, RefcCv
  <2> QED
    BY <1>1, <1>4, <2>3, <2>4, DyingAlone
<1> QED
  BY <1>1, <1>2, <1>3, <1>4, <1>5 DEF WaitersOn

LEMMA DestroyInv ==
    ASSUME IInv, NEW t \in Threads, DestroyCtx(t)
    PROVE  IInv' /\ core_panic' = core_panic
<1>c. PICK c : c = Top(t).c
  OBVIOUS
<1>z. PICK z : z = TopAt(t)
  OBVIOUS
<1>1. /\ Top(t) \in Frame /\ Top(t).pc = "destroy" /\ Top(t).op = "close"
      /\ stack[t] # <<>> /\ TypeOK /\ waiting[t] = None /\ ~core_panic
      /\ z \in Places /\ fr[z] = Top(t) /\ Dying(fr[z]) /\ NoRole(fr[z])
      /\ c \in Ctxs /\ c \in live /\ c \notin is_initializing
      /\ WaitersOn(BusyCv(c)) = {}
  BY <1>c, <1>z, DestroyFacts DEF DestroyCtx
<1>2. /\ UNCHANGED ctxVars /\ UNCHANGED busyVars /\ UNCHANGED sessVars /\ UNCHANGED <<waiting, calls>>
      /\ UNCHANGED <<tee_ctxes, live, uuid, ref_count, is_initializing, is_releasing, panicked, released>>
      /\ UNCHANGED <<owner, ts_ctx, refs, lock_thread, unlink, known, busy>>
  BY DEF DestroyCtx, ctxVars, sessVars, busyVars
<1>p. core_panic' = core_panic
  <2>1. core_panic' = (WaitersOn(BusyCv(c)) # {})
    BY <1>c DEF DestroyCtx
  <2>2. core_panic = FALSE
    BY <1>1 DEF TypeOK
  <2> QED
    BY <1>1, <2>1, <2>2, Zenon
<1>3. PICK g : g = [op |-> "destroy", pc |-> "loop", list |-> c, u |-> None, s |-> None, c |-> c, ok |-> TRUE]
  OBVIOUS
<1>4. /\ g \in Frame /\ g.op = "destroy" /\ g.list = c /\ g.s = None /\ g.c = c /\ g.pc = "loop"
  BY <1>1, <1>3 DEF Frame
<1>5. /\ Replace(t, g) /\ Replaced(t, g) /\ stack' \in [Threads -> Seq(Frame)]
  <2>1. Replace(t, g)
    BY <1>c, <1>3 DEF DestroyCtx
  <2> QED
    BY <1>1, <1>4, <2>1, ReplaceStep
<1>6. /\ Moved(z, g) /\ Changed(z) /\ ChangedIn({z}) /\ Others(t) /\ z[1] = t
      /\ z \in Places' /\ fr'[z] = g /\ Places' = Places
  BY <1>1, <1>z, <1>5, ReplacedFacts DEF Moved
<1>8. Shape(g) /\ NoRole(g) /\ Dying(g)
  <2>1. Shape(g)
    BY <1>1, <1>4, NoneOK DEF Shape
  <2>2. NoRole(g) /\ Dying(g)
    BY <1>4 DEF NoRole, UsesSession, Opening, Closer, Asks, Dying
  <2> QED
    BY <2>1, <2>2
<1>9. TypeOK'
  BY <1>1, <1>2, <1>p, <1>5 DEF TypeOK, busyVars
<1>10. Shapes'
  BY <1>6, <1>8, ShapesMove DEF IInv
<1>11. Nested'
  <2>1. UuidKept
    BY <1>2 DEF UuidKept
  <2>2. \A p \in Places : Under(p) # z
    BY <1>1, <1>z, TopFacts
  <2>3. \A p \in Places : p[2] > 1 => Under(p) \in Places
    BY <1>1, UnderFacts
  <2>4. \A p \in Places : p[2] > 1 => fr'[Under(p)] = fr[Under(p)]
    BY <1>6, <2>2, <2>3 DEF Moved
  <2>5. \A p \in Places \ {z} : Nest(p)'
    BY <1>6, <2>1, <2>4, NestKept DEF Moved, IInv
  <2>6. Nest(z)'
    <3>1. z[2] > 1 => Over(fr[z], fr[Under(z)])
      BY <1>1 DEF IInv, Nested
    <3>2. z[2] > 1 => Over(g, fr[Under(z)])
      BY <1>1, <1>4, <3>1 DEF Over
    <3>3. z[2] > 1 => Over(fr'[z], fr'[Under(z)])
      BY <1>1, <1>6, <2>4, <3>2
    <3>4. (fr'[z]).list # Nsec /\ (fr'[z]).op = "destroy"
      BY <1>1, <1>4, <1>6, NsecOK
    <3>5. (Over(fr[z], fr[Under(z)]))' <=> Over(fr'[z], fr'[Under(z)])
      BY DEF Over, Under
    <3> QED
      BY <3>3, <3>4, <3>5 DEF Nest
  <2> QED
    BY <1>6, <2>5, <2>6 DEF Nested, Nest
<1>12. IsFiniteSet(Places')
  BY <1>6 DEF IInv
<1>13. SessionInv'
  <2>1. SessionsKept /\ g.pc \notin {"find", "fail"}
    BY <1>2, <1>4 DEF SessionsKept
  <2> QED
    BY <1>1, <1>6, <1>8, <2>1, MovedNoRole, InvFacts DEF IInv
<1>14. LiveOK'
  <2>1. \A x \in {z} : x \in Places' =>
              (fr'[x]).c \in live' \cup {None} /\ (fr'[x]).list \in live' \cup {Nsec}
    BY <1>1, <1>2, <1>4, <1>6
  <2>2. (\A d \in live' : uuid'[d] \in Uuids) /\ live' \subseteq Ctxs
    BY <1>1, <1>2 DEF IInv, LiveOK, TypeOK
  <2>3. LiveOK
    BY DEF IInv
  <2> QED
    BY <1>1, <1>2, <1>6, <2>1, <2>2, <2>3, LiveStep
<1>15. ListOK'
  BY <1>2, ListKept DEF IInv
<1>16. InitOK'
  <2>1. \A x \in {z} : /\ x \in Places => fr[x].pc # "load"
                       /\ x \in Places' => (fr'[x]).pc # "load" /\ (fr'[x]).c \notin is_initializing
    BY <1>1, <1>4, <1>6
  <2>2. InitOK
    BY DEF IInv
  <2> QED
    BY <1>2, <1>6, <2>1, <2>2, InitKept
<1>17. DyingOK'
  <2>1. g.c = fr[z].c
    BY <1>c, <1>1, <1>4
  <2> QED
    BY <1>1, <1>2, <1>6, <1>8, <2>1, DyingMoved DEF IInv
<1>18. PanicOK'
  <2>1. \A x \in {z} : x \in Places' =>
              /\ (fr'[x]).pc = "rel" => (fr'[x]).c \in panicked'
              /\ (fr'[x]).op = "release" => (fr'[x]).c \in panicked' \cap is_releasing'
              /\ (fr'[x]).pc = "run" => (fr'[x]).c \notin released'
    BY <1>4, <1>6
  <2>2. PanicOK /\ \A d \in panicked : uuid'[d] \notin Pseudo
    BY <1>2 DEF IInv, PanicOK
  <2> QED
    BY <1>2, <1>6, <2>1, <2>2, PanicStep
<1>19. RefCountsExact'
  <2>1. \A r \in Sessions : UsesAt(z, r)' <=> UsesAt(z, r)
    BY <1>1, <1>6, <1>8 DEF UsesAt, NoRole
  <2>2. RefsExact'
    BY <1>2, <1>6, <2>1, RefsKept, InvFacts
  <2>3. \A d : ~LeavesAt(z, d)' /\ ~LeavesAt(z, d)
    BY <1>1, <1>4, <1>6 DEF LeavesAt, ClosesLast
  <2>4. CountExact'
    BY <1>2, <1>6, <2>3, CountKept, InvFacts
  <2>5. (RefCountsExact <=> RefsExact /\ CountExact)'
    BY CountParts, PTL
  <2> QED
    BY <2>2, <2>4, <2>5
<1>20. InstanceRules'
  <2>1. CountsFit
    BY <1>1, <1>2 DEF CountsFit, TypeOK
  <2>2. InstanceRules /\ ListOK /\ TypeOK
    BY DEF IInv
  <2> QED
    BY <1>2, <1>9, <1>15, <2>1, <2>2, RulesKept
<1>21. InsideOK' /\ LockCountOK'
  <2>1. \A x \in {z}, d \in live \cup live' : (d \in live => ~Concurrent(d)) =>
              (InsideAt(x, d)' <=> InsideAt(x, d))
    BY <1>1, <1>4, <1>6 DEF InsideAt, Inside
  <2>2. InsideOK /\ LockCountOK /\ LiveOK
    BY DEF IInv
  <2> QED
    BY <1>2, <1>6, <2>1, <2>2, BusyKept
<1>22. WaitOK'
  <2>1. WaitOK /\ TypeOK /\ \A x \in {z} : x[1] = t
    BY <1>6 DEF IInv
  <2> QED
    BY <1>1, <1>2, <1>6, <2>1, WaitStep
<1> QED
  BY <1>p, <1>9, <1>10, <1>11, <1>12, <1>13, <1>14, <1>15, <1>16, <1>17, <1>18, <1>19, <1>20, <1>21, <1>22 DEF IInv

LEMMA LoopFacts ==
    ASSUME IInv, NEW t \in Threads, At(t, "loop"), NEW c, c = Top(t).c, NEW z, z = TopAt(t)
    PROVE  /\ Top(t) \in Frame /\ Shape(Top(t)) /\ Top(t).pc = "loop" /\ Top(t).op \in {"release", "destroy"}
           /\ stack[t] # <<>> /\ TypeOK /\ waiting[t] = None
           /\ z \in Places /\ fr[z] = Top(t) /\ c \in Ctxs /\ c \in live /\ c \notin is_initializing
           /\ ~Opening(fr[z]) /\ ~Closer(fr[z]) /\ ~Holder(fr[z])
           /\ (\A d : ~Inside(fr[z], d) /\ ~LeavesAt(z, d)) /\ (\A r : ~UsesAt(z, r))
<1>1. /\ Top(t) \in Frame /\ Shape(Top(t)) /\ Top(t).pc = "loop" /\ stack[t] # <<>> /\ TypeOK
      /\ z \in Places /\ fr[z] = Top(t) /\ waiting[t] = None
  BY AtFacts
<1>2. Top(t).op \in {"release", "destroy"} /\ c \in Ctxs /\ c # None /\ Top(t).s = None
  BY <1>1 DEF Shape, Frame
<1>3. c \in live /\ c \notin is_initializing
  BY <1>1, <1>2, NotLoading DEF IInv, LiveOK
<1>4. ~Opening(fr[z]) /\ ~Closer(fr[z]) /\ ~Holder(fr[z]) /\ ~UsesSession(fr[z])
  BY <1>1, <1>2 DEF UsesSession, Opening, Closer, Holder
<1>5. (\A d : ~Inside(fr[z], d) /\ ~LeavesAt(z, d)) /\ (\A r : ~UsesAt(z, r))
  BY <1>1, <1>2, <1>4 DEF Inside, LeavesAt, ClosesLast, UsesAt
<1> QED
  BY <1>1, <1>2, <1>3, <1>4, <1>5

\* What holds in either case.
LEMMA LoopEnds ==
    ASSUME IInv, NEW t \in Threads, At(t, "loop"), NEW z, z = TopAt(t), Return(t), UuidKept,
           UNCHANGED <<owner, ts_ctx, refs, lock_thread, unlink, known, ref_count, waiting>>
    PROVE  /\ stack' \in [Threads -> Seq(Frame)]
           /\ Gone(z) /\ ChangedIn({z}) /\ z \notin Places' /\ Places' = Places \ {z}
           /\ Shapes' /\ Nested' /\ IsFiniteSet(Places') /\ SessionInv' /\ RefCountsExact' /\ WaitOK'
<1>c. PICK c : c = Top(t).c
  OBVIOUS
<1>1. /\ stack[t] # <<>> /\ TypeOK /\ waiting[t] = None /\ z \in Places /\ fr[z] = Top(t)
      /\ ~Opening(fr[z]) /\ ~Closer(fr[z]) /\ ~Holder(fr[z])
      /\ (\A d : ~LeavesAt(z, d)) /\ (\A r : ~UsesAt(z, r))
  BY <1>c, LoopFacts
<1>2. Returned(t) /\ stack' \in [Threads -> Seq(Frame)]
  BY <1>1, ReturnStep
<1>3. /\ Gone(z) /\ Changed(z) /\ ChangedIn({z}) /\ Others(t) /\ z[1] = t
      /\ z \notin Places' /\ Places' = Places \ {z}
  BY <1>1, <1>2, ReturnedFacts DEF Gone
<1>4. Shapes'
  BY <1>3, ShapesGone DEF IInv
<1>5. Nested'
  BY <1>1, <1>3, NestedGone DEF IInv
<1>6. IsFiniteSet(Places')
  BY <1>3, FiniteKept DEF IInv
<1>7. SessionInv'
  <2>1. SessionsKept
    BY DEF SessionsKept
  <2> QED
    BY <1>1, <1>3, <2>1, GoneNoUse, InvFacts DEF IInv
<1>8. RefCountsExact'
  <2>1. \A r \in Sessions : UsesAt(z, r)' <=> UsesAt(z, r)
    BY <1>1, <1>3 DEF UsesAt
  <2>2. RefsExact'
    BY <1>3, <2>1, RefsKept, InvFacts
  <2>3. \A d : ~LeavesAt(z, d)' /\ ~LeavesAt(z, d)
    BY <1>1, <1>3 DEF LeavesAt
  <2>4. CountExact'
    BY <1>3, <2>3, CountKept, InvFacts
  <2>5. (RefCountsExact <=> RefsExact /\ CountExact)'
    BY CountParts, PTL
  <2> QED
    BY <2>2, <2>4, <2>5
<1>9. WaitOK'
  <2>1. WaitOK /\ TypeOK /\ \A x \in {z} : x[1] = t
    BY <1>3 DEF IInv
  <2> QED
    BY <1>1, <1>3, <2>1, WaitStep
<1> QED
  BY <1>2, <1>3, <1>4, <1>5, <1>6, <1>7, <1>8, <1>9

LEMMA EndReleaseInv ==
    ASSUME IInv, NEW t \in Threads, At(t, "loop"), NEW c, c = Top(t).c, Top(t).op = "release",
           released' = released \cup {c}, Return(t),
           UNCHANGED <<tee_ctxes, live, uuid, ref_count, is_initializing, is_releasing, panicked>>,
           UNCHANGED <<owner, ts_ctx, refs, lock_thread, unlink, known, waiting, calls, core_panic>>,
           UNCHANGED busyVars
    PROVE  IInv'
<1>z. PICK z : z = TopAt(t)
  OBVIOUS
<1>1. /\ Top(t) \in Frame /\ Top(t).pc = "loop" /\ stack[t] # <<>> /\ TypeOK /\ z \in Places /\ fr[z] = Top(t)
      /\ c \in Ctxs /\ c \in live /\ c \notin is_initializing /\ (\A d : ~Inside(fr[z], d))
  BY <1>z, LoopFacts
<1>2. UuidKept
  BY DEF UuidKept
<1>3. /\ stack' \in [Threads -> Seq(Frame)]
      /\ Gone(z) /\ ChangedIn({z}) /\ z \notin Places' /\ Places' = Places \ {z}
      /\ Shapes' /\ Nested' /\ IsFiniteSet(Places') /\ SessionInv' /\ RefCountsExact' /\ WaitOK'
  BY <1>z, <1>2, LoopEnds
<1>4. c \in panicked /\ c \in is_releasing /\ uuid[c] \notin Pseudo
  BY <1>1 DEF IInv, PanicOK
<1>t. LiveOK /\ ListOK /\ InitOK /\ DyingOK /\ PanicOK /\ InstanceRules /\ InsideOK /\ LockCountOK
  BY DEF IInv
<1>9. TypeOK'
  BY <1>1, <1>3 DEF TypeOK, busyVars
<1>14. LiveOK'
  <2>1. \A x \in {z} : x \in Places' =>
              (fr'[x]).c \in live' \cup {None} /\ (fr'[x]).list \in live' \cup {Nsec}
    BY <1>3
  <2>2. (\A d \in live' : uuid'[d] \in Uuids) /\ live' \subseteq Ctxs /\ busy' = busy
    BY <1>1, <1>t DEF LiveOK, TypeOK, busyVars
  <2>3. released' \subseteq released \cup live'
    BY <1>1
  <2> QED
    BY <1>1, <1>3, <1>t, <2>1, <2>2, <2>3, LiveStep
<1>15. ListOK'
  BY <1>t, ListKept
<1>16. InitOK'
  <2>1. \A x \in {z} : /\ x \in Places => fr[x].pc # "load"
                       /\ x \in Places' => (fr'[x]).pc # "load" /\ (fr'[x]).c \notin is_initializing
    BY <1>1, <1>3
  <2>2. released' \cap is_initializing \subseteq released /\ busy' = busy
    BY <1>1 DEF busyVars
  <2> QED
    BY <1>3, <1>t, <2>1, <2>2, InitKept
<1>17. DyingOK'
  <2>1. \A x \in {z} : (x \in Places => ~Dying(fr[x])) /\ (x \in Places' => ~Dying(fr'[x]))
    BY <1>1, <1>3 DEF Dying
  <2> QED
    BY <1>1, <1>3, <1>t, <2>1, DyingKept
<1>18. PanicOK'
  <2>1. \A x \in {z} : x \in Places' =>
              /\ (fr'[x]).pc = "rel" => (fr'[x]).c \in panicked'
              /\ (fr'[x]).op = "release" => (fr'[x]).c \in panicked' \cap is_releasing'
              /\ (fr'[x]).pc = "run" => (fr'[x]).c \notin released'
    BY <1>3
  <2>2. \A d \in panicked : uuid'[d] \notin Pseudo
    BY <1>t DEF PanicOK
  <2>3. ASSUME NEW p \in Places', (fr'[p]).pc = "run", (fr'[p]).c = c
        PROVE  FALSE
    <3>1. p \in Places /\ p # z /\ fr[p].pc = "run" /\ fr[p].c = c
      BY <1>3, <2>3 DEF Gone
    <3> QED
      BY <1>1, <1>4, <3>1, CallsOne
  <2>4. \A d \in released' \ released :
              d \in panicked' /\ \A p \in Places' : (fr'[p]).pc = "run" => (fr'[p]).c # d
    BY <1>4, <2>3
  <2> QED
    BY <1>3, <1>t, <2>1, <2>2, <2>4, PanicStep
<1>20. InstanceRules'
  <2>1. CountsFit
    BY <1>1 DEF CountsFit, TypeOK
  <2> QED
    BY <1>1, <1>9, <1>15, <1>t, <2>1, RulesKept
<1>21. InsideOK' /\ LockCountOK'
  <2>1. \A x \in {z}, d \in live \cup live' : (d \in live => ~Concurrent(d)) =>
              (InsideAt(x, d)' <=> InsideAt(x, d))
    BY <1>1, <1>3 DEF InsideAt
  <2> QED
    BY <1>3, <1>t, <2>1, BusyKept
<1> QED
  BY <1>3, <1>9, <1>14, <1>15, <1>16, <1>17, <1>18, <1>20, <1>21 DEF IInv

\* Nothing refers to a context that is destroyed and has closed its sessions.
LEMMA Forgotten ==
    ASSUME IInv, NEW t \in Threads, At(t, "loop"), NEW c, c = Top(t).c, NEW z, z = TopAt(t),
           Top(t).op = "destroy", LeftOpen(c) = {}
    PROVE  /\ (\A p \in Places \ {z} : fr[p].c # c /\ fr[p].list # c)
           /\ (\A r \in Sessions : owner[r] # c /\ ts_ctx[r] # c)
           /\ c \notin busy /\ c \in is_releasing /\ ref_count[c] = 0 /\ Dying(fr[z])
<1>1. /\ Top(t) \in Frame /\ Top(t).pc = "loop" /\ stack[t] # <<>> /\ TypeOK /\ z \in Places /\ fr[z] = Top(t)
      /\ c \in Ctxs /\ c \in live /\ (\A d : ~Inside(fr[z], d))
  BY LoopFacts
<1>2. Dying(fr[z]) /\ ref_count[c] = 0 /\ c \in is_releasing
  <2>1. Dying(fr[z])
    BY <1>1 DEF Dying
  <2> QED
    BY <1>1, <2>1 DEF IInv, DyingOK
<1>3. \A p \in Places \ {z} : fr[p].c # c
  BY <1>1, <1>2, DyingAlone
<1>4. ASSUME NEW p \in Places \ {z}, fr[p].list = c
      PROVE  FALSE
  <2>1. fr[p] \in Frame /\ Shape(fr[p]) /\ c # Nsec
    BY <1>1, InvFacts, NsecOK
  <2>2. CASE fr[p].op \in {"release", "destroy"}
    <3>1. fr[p].c = c
      BY <1>4, <2>1, <2>2 DEF Shape
    <3> QED
      BY <1>3, <3>1
  <2>3. CASE fr[p].op \notin {"release", "destroy"}
    <3>1. Under(p) \in Places /\ fr[Under(p)].c = c
      BY <1>4, <2>1, <2>3, CallerUnder
    <3>2. Under(p) # z
      BY <1>1, TopFacts
    <3> QED
      BY <1>3, <3>1, <3>2
  <2> QED
    BY <2>2, <2>3
<1>5. \A r \in Sessions : owner[r] # c
  BY DEF LeftOpen, SessionsOf
<1>6. \A r \in Sessions : ts_ctx[r] # c
  BY <1>1, <1>2, CountFacts, InvFacts DEF IInv
<1>7. c \notin busy
  <2>1. \A p \in Places : ~Inside(fr[p], c)
    BY <1>1, <1>3 DEF Inside
  <2> QED
    BY <1>1, <2>1 DEF IInv, InsideOK
<1> QED
  BY <1>2, <1>3, <1>4, <1>5, <1>6, <1>7

LEMMA EndDestroyInv ==
    ASSUME IInv, NEW t \in Threads, At(t, "loop"), NEW c, c = Top(t).c, Top(t).op = "destroy", LeftOpen(c) = {},
           live' = live \ {c}, uuid' = [uuid EXCEPT ![c] = None], is_releasing' = is_releasing \ {c},
           panicked' = panicked \ {c}, released' = released \ {c}, Return(t),
           UNCHANGED <<tee_ctxes, ref_count, is_initializing>>,
           UNCHANGED <<owner, ts_ctx, refs, lock_thread, unlink, known, waiting, calls, core_panic>>,
           UNCHANGED busyVars
    PROVE  IInv'
<1>z. PICK z : z = TopAt(t)
  OBVIOUS
<1>1. /\ Top(t) \in Frame /\ Top(t).pc = "loop" /\ stack[t] # <<>> /\ TypeOK /\ z \in Places /\ fr[z] = Top(t)
      /\ c \in Ctxs /\ c \in live /\ c \notin is_initializing /\ (\A d : ~Inside(fr[z], d))
  BY <1>z, LoopFacts
<1>f. /\ (\A p \in Places \ {z} : fr[p].c # c /\ fr[p].list # c)
      /\ (\A r \in Sessions : owner[r] # c /\ ts_ctx[r] # c)
      /\ c \notin busy /\ c \in is_releasing /\ ref_count[c] = 0 /\ Dying(fr[z])
  BY <1>z, Forgotten
<1>e. /\ \A d \in Ctxs \ {c} : uuid'[d] = uuid[d]
      /\ uuid'[c] = None /\ live \subseteq Ctxs /\ panicked \subseteq Ctxs
      /\ uuid' \in [Ctxs -> Uuids \cup {None}] /\ ref_count \in [Ctxs -> Nat] /\ busy' = busy
  BY <1>1 DEF TypeOK, busyVars
<1>2. UuidKept
  BY <1>e DEF UuidKept
<1>3. /\ stack' \in [Threads -> Seq(Frame)]
      /\ Gone(z) /\ ChangedIn({z}) /\ z \notin Places' /\ Places' = Places \ {z}
      /\ Shapes' /\ Nested' /\ IsFiniteSet(Places') /\ SessionInv' /\ RefCountsExact' /\ WaitOK'
  BY <1>z, <1>2, LoopEnds
<1>t. LiveOK /\ ListOK /\ InitOK /\ DyingOK /\ PanicOK /\ InstanceRules /\ InsideOK /\ LockCountOK
  BY DEF IInv
<1>9. TypeOK'
  BY <1>1, <1>3, <1>e DEF TypeOK, busyVars
<1>14. LiveOK'
  <2>1. \A p \in Places' : (fr'[p]).c # c /\ (fr'[p]).list # c
    BY <1>f, <1>3 DEF Gone
  <2>2. \A x \in {z} : x \in Places' =>
              (fr'[x]).c \in live \cup {None} /\ (fr'[x]).list \in live \cup {Nsec}
    BY <1>3
  <2>3. /\ \A d \in live \ {c} : uuid'[d] = uuid[d]
        /\ \A r \in Sessions : owner'[r] = owner[r] /\ owner[r] # c
        /\ \A r \in Sessions : ts_ctx'[r] \in {ts_ctx[r], None} /\ ts_ctx'[r] # c
    BY <1>e, <1>f
  <2>4. /\ busy' \subseteq busy \ {c} /\ is_initializing' \subseteq is_initializing \ {c}
        /\ is_releasing' \subseteq is_releasing \ {c} /\ panicked' \subseteq panicked \ {c}
        /\ released' \subseteq released \ {c}
    BY <1>1, <1>e, <1>f
  <2>5. (\A d \in Ctxs \ {c} : ref_count'[d] = ref_count[d]) /\ ref_count'[c] = 0
    BY <1>f
  <2>6. LiveOK /\ TypeOK /\ ChangedIn({z}) /\ c \in Ctxs
    BY <1>1, <1>3, <1>t
  <2> QED
    BY <2>1, <2>2, <2>3, <2>4, <2>5, <2>6, LiveLess
<1>15. ListOK'
  <2>1. live' \ is_releasing' = live \ is_releasing
    BY <1>f
  <2> QED
    BY <1>t, <2>1, ListKept
<1>16. InitOK'
  <2>1. \A x \in {z} : /\ x \in Places => fr[x].pc # "load"
                       /\ x \in Places' => (fr'[x]).pc # "load" /\ (fr'[x]).c \notin is_initializing
    BY <1>1, <1>3
  <2> QED
    BY <1>3, <1>e, <1>t, <2>1, InitKept
<1>17. DyingOK'
  BY <1>1, <1>3, <1>e, <1>f, <1>t, DyingLess
<1>18. PanicOK'
  <2>1. (\A d \in panicked \ {c} : uuid'[d] = uuid[d]) /\ (\A p \in Places \ {z} : fr[p].c # c)
    BY <1>e, <1>f
  <2>2. PanicOK /\ Gone(z)
    BY <1>3, <1>t
  <2>3. panicked' = panicked \ {c} /\ is_releasing' = is_releasing \ {c} /\ released' = released \ {c}
    OBVIOUS
  <2> QED
    BY ONLY <2>1, <2>2, <2>3, PanicLess
<1>20. InstanceRules'
  <2>1. CountsFit
    BY <1>1, <1>e DEF CountsFit
  <2>2. /\ live' \subseteq live /\ (\A d \in live' : uuid'[d] = uuid[d])
        /\ live' \ is_releasing' \subseteq live \ is_releasing
    BY <1>e, <1>f
  <2> QED
    BY <1>1, <1>9, <1>15, <1>t, <2>1, <2>2, RulesKept
<1>21. InsideOK' /\ LockCountOK'
  <2>1. \A x \in {z}, d \in live \cup live' : (d \in live => ~Concurrent(d)) =>
              (InsideAt(x, d)' <=> InsideAt(x, d))
    BY <1>1, <1>3 DEF InsideAt
  <2>2. \A d \in live \ live', p \in Places : ~Inside(fr[p], d)
    BY <1>1, <1>f DEF Inside
  <2>3. (\A d \in live \cap live' : uuid'[d] = uuid[d]) /\ (\A d \in live' \ live : d \in Ctxs)
    BY <1>e
  <2> QED
    BY <1>3, <1>t, <2>1, <2>2, <2>3, BusyKept
<1> QED
  BY <1>3, <1>9, <1>14, <1>15, <1>16, <1>17, <1>18, <1>20, <1>21 DEF IInv

LEMMA EndInv ==
    ASSUME IInv, NEW t \in Threads, EndRelease(t)
    PROVE  IInv' /\ core_panic' = core_panic
<1>c. PICK c : c = Top(t).c
  OBVIOUS
<1>z. PICK z : z = TopAt(t)
  OBVIOUS
<1>1. /\ At(t, "loop") /\ LeftOpen(c) = {} /\ Return(t) /\ UNCHANGED <<tee_ctxes, ref_count, is_initializing>>
      /\ UNCHANGED <<owner, ts_ctx, refs, lock_thread, unlink, known, waiting, calls, core_panic>>
      /\ UNCHANGED busyVars
  BY <1>c DEF EndRelease, sessVars
<1>2. Top(t).op \in {"release", "destroy"}
  BY <1>c, <1>z, <1>1, LoopFacts
<1>3. CASE Top(t).op = "release"
  <2>1. released' = released \cup {c} /\ UNCHANGED <<live, uuid, is_releasing, panicked>>
    BY <1>c, <1>3 DEF EndRelease
  <2> QED
    BY <1>c, <1>1, <1>3, <2>1, EndReleaseInv
<1>4. CASE Top(t).op = "destroy"
  <2>1. /\ live' = live \ {c} /\ uuid' = [uuid EXCEPT ![c] = None] /\ is_releasing' = is_releasing \ {c}
        /\ panicked' = panicked \ {c} /\ released' = released \ {c}
    BY <1>c, <1>4 DEF EndRelease
  <2> QED
    BY <1>c, <1>1, <1>4, <2>1, EndDestroyInv
<1> QED
  BY <1>2, <1>3, <1>4

-----------------------------------------------------------------------------
(* The invariant                                                           *)

LEMMA InitInv ==
    Init => IInv
<1> SUFFICES ASSUME Init PROVE IInv
  OBVIOUS
<1> USE DEF Init
<1>1. TypeOK
  <2>1. tee_ctxes \in Seq(Ctxs) /\ stack \in [Threads -> Seq(Frame)]
    OBVIOUS
  <2>2. {live, is_initializing, is_releasing, panicked, released, busy} \subseteq SUBSET Ctxs
        /\ {unlink, known} \subseteq SUBSET Sessions
    OBVIOUS
  <2>3. /\ uuid \in [Ctxs -> Uuids \cup {None}] /\ ref_count \in [Ctxs -> Nat]
        /\ owner \in [Sessions -> Ctxs \cup {Nsec, None}] /\ ts_ctx \in [Sessions -> Ctxs \cup {None}]
        /\ refs \in [Sessions -> Nat] /\ lock_thread \in [Sessions -> Threads \cup {None}]
        /\ waiting \in [Threads -> Cvs \cup {None}]
    OBVIOUS
  <2>4. si_count \in Nat /\ si_thread \in Threads \cup {None} /\ core_panic \in BOOLEAN
    OBVIOUS
  <2>5. calls \in 0 .. MaxCalls
    BY BoundsOK
  <2> QED
    BY <2>1, <2>2, <2>3, <2>4, <2>5 DEF TypeOK
<1>2. Places = {}
  <2>1. \A t \in Threads : Len(stack[t]) = 0
    OBVIOUS
  <2>2. \A t \in Threads : {<<t, i>> : i \in 1 .. Len(stack[t])} = {}
    BY <2>1
  <2> QED
    BY <2>2 DEF Places
<1>3. IsFiniteSet(Places) /\ \A S : S \subseteq Places => Cardinality(S) = 0
  BY <1>2, FS_EmptySet
<1>4. Shapes /\ Nested
  BY <1>2 DEF Shapes, Nested
<1>5. SessionInv
  <2>1. \A s \in Sessions : owner[s] = None /\ owner[s] # Nsec /\ ts_ctx[s] = None /\ lock_thread[s] = None
    BY NoneOK
  <2>2. SessionOK /\ UniqueOK /\ KnownOK /\ UnlinkOK
    BY <1>2 DEF SessionOK, UniqueOK, KnownOK, UnlinkOK
  <2>3. OpenOK /\ LockOK
    BY <1>2, <2>1 DEF OpenOK, LockOK
  <2> QED
    BY <2>2, <2>3 DEF SessionInv
<1>6. LiveOK
  BY <1>2, NoneOK DEF LiveOK
<1>7. ListOK
  BY DEF ListOK, Range
<1>8. InitOK /\ DyingOK /\ PanicOK /\ InsideOK
  BY <1>2 DEF InitOK, DyingOK, PanicOK, InsideOK
<1>9. LockCountOK
  <2>1. Insiders = {}
    BY <1>2 DEF Insiders
  <2> QED
    BY <1>3, <2>1 DEF LockCountOK
<1>10. WaitOK /\ InstanceRules
  BY DEF WaitOK, InstanceRules
<1>11. RefCountsExact
  <2>1. RefsExact
    BY <1>2, <1>3 DEF RefsExact, Users
  <2>2. CountExact
    <3>1. ASSUME NEW c \in Ctxs PROVE ref_count[c] = Cardinality(Served(c)) + Cardinality(Leaving(c))
      <4>1. Served(c) = {} /\ Leaving(c) = {}
        BY <1>2, NoneOK DEF Served, Leaving
      <4>2. Cardinality(Served(c)) = 0 /\ Cardinality(Leaving(c)) = 0
        BY <4>1, FS_EmptySet
      <4> QED
        BY <4>2
    <3> QED
      BY <3>1 DEF CountExact
  <2> QED
    BY <2>1, <2>2, CountParts
<1> QED
  BY <1>1, <1>3, <1>4, <1>5, <1>6, <1>7, <1>8, <1>9, <1>10, <1>11 DEF IInv

LEMMA StutterInv ==
    ASSUME IInv, UNCHANGED vars
    PROVE  IInv'
<1>1. UNCHANGED <<ctxVars, busyVars, sessVars, stack, waiting, calls, core_panic>>
  BY DEF vars
<1>2. TypeOK /\ WaitOK
  BY DEF IInv
<1>3. fr' = fr
  BY <1>1, SameStep DEF Same
<1>4. WaitOK'
  BY <1>1, <1>2, <1>3 DEF WaitOK, TopAt
<1> QED
  BY <1>1, <1>2, <1>4, SameInv DEF TypeOK

\* The one step that may reach a panic(): tee_ta_set_busy() finds its context
\* busy and the single-instance lock held by its own thread.
SetBusyPanics(t) == BusyRefused(t) /\ Top(t).op # "open"

\* A step of a thread keeps the invariant.
LEMMA StepInv ==
    ASSUME IInv, NEW t \in Threads, Step(t)
    PROVE  IInv' /\ (core_panic' = core_panic \/ SetBusyPanics(t))
<1>1. CASE OpenInit(t)
  BY <1>1, OpenInitInv
<1>2. CASE OpenNoMem(t)
  BY <1>2, OpenNoMemInv
<1>3. CASE OpenFind(t)
  BY <1>3, OpenFindInv
<1>4. CASE Load(t)
  BY <1>4, LoadInv
<1>5. CASE OpenFail(t)
  BY <1>5, OpenFailInv
<1>6. CASE SetBusy(t)
  <2>1. core_panic' = core_panic
    BY <1>6 DEF SetBusy
  <2> QED
    BY <1>6, <2>1, SetBusyInv
<1>7. CASE SetBusyConcurrent(t)
  <2>1. core_panic' = core_panic
    BY <1>7 DEF SetBusyConcurrent
  <2> QED
    BY <1>7, <2>1, SetBusyConcurrentInv
<1>8. CASE AwaitBusy(t)
  <2>1. core_panic' = core_panic
    BY <1>8 DEF AwaitBusy
  <2> QED
    BY <1>8, <2>1, AwaitBusyInv
<1>9. CASE BusyRefused(t)
  <2>1. core_panic' = core_panic \/ SetBusyPanics(t)
    BY <1>9 DEF BusyRefused, SetBusyPanics
  <2> QED
    BY <1>9, <2>1, BusyRefusedInv
<1>10. CASE Enter(t)
  <2>1. core_panic' = core_panic
    BY <1>10 DEF Enter
  <2> QED
    BY <1>10, <2>1, EnterInv
<1>11. CASE RunReturn(t)
  <2>1. core_panic' = core_panic
    BY <1>11 DEF RunReturn
  <2> QED
    BY <1>11, <2>1, RunReturnInv
<1>12. CASE RunPanic(t)
  <2>1. core_panic' = core_panic
    BY <1>12 DEF RunPanic
  <2> QED
    BY <1>12, <2>1, RunPanicInv
<1>13. CASE ReleaseCtx(t)
  <2>1. core_panic' = core_panic
    BY <1>13 DEF ReleaseCtx
  <2> QED
    BY <1>13, <2>1, ReleaseCtxInv
<1>14. CASE ClearBusy(t)
  BY <1>14, ClearBusyInv
<1>15. CASE Put(t)
  BY <1>15, PutInv
<1>16. CASE GetNone(t)
  BY <1>16, GetNoneInv
<1>17. CASE Get(t)
  BY <1>17, GetInv
<1>18. CASE Lock(t)
  BY <1>18, LockInv
<1>19. CASE CopyParam(t)
  <2>1. core_panic' = core_panic
    BY <1>19 DEF CopyParam
  <2> QED
    BY <1>19, <2>1, CopyParamInv
<1>20. CASE Closing(t)
  <2>1. core_panic' = core_panic
    BY <1>20 DEF Closing
  <2> QED
    BY <1>20, <2>1, ClosingInv
<1>21. CASE Unlink(t)
  BY <1>21, UnlinkInv
<1>22. CASE Drain(t)
  BY <1>22, DrainInv
<1>23. CASE Unref(t)
  BY <1>23, UnrefInv
<1>24. CASE DestroyCtx(t)
  BY <1>24, DestroyInv
<1>25. CASE CloseOne(t)
  BY <1>25, CloseOneInv
<1>26. CASE EndRelease(t)
  BY <1>26, EndInv
<1> QED
  BY <1>1, <1>2, <1>3, <1>4, <1>5, <1>6, <1>7, <1>8, <1>9, <1>10, <1>11, <1>12, <1>13, <1>14, <1>15,
     <1>16, <1>17, <1>18, <1>19, <1>20, <1>21, <1>22, <1>23, <1>24, <1>25, <1>26 DEF Step

\* So does every step.
LEMMA Inductive ==
    ASSUME IInv, [Next]_vars
    PROVE  IInv' /\ (core_panic' = core_panic \/ \E t \in Threads : SetBusyPanics(t))
<1>1. CASE UNCHANGED vars
  BY <1>1, StutterInv DEF vars
<1>2. CASE AllAnswered
  BY <1>2, StutterInv DEF AllAnswered, vars
<1>3. ASSUME NEW t \in Threads, Step(t)
      PROVE  IInv' /\ (core_panic' = core_panic \/ \E u \in Threads : SetBusyPanics(u))
  BY <1>3, StepInv
<1>4. ASSUME NEW t \in Threads, NEW l \in Ctxs \cup {Nsec}, NEW u \in Uuids, CallOpen(t, l, u)
      PROVE  IInv' /\ core_panic' = core_panic
  BY <1>4, CallOpenInv DEF CallOpen, Request
<1>5. ASSUME NEW t \in Threads, NEW s \in Sessions, NEW op \in {"invoke", "cancel"},
             CallSession(t, owner[s], s, op)
      PROVE  IInv' /\ core_panic' = core_panic
  BY <1>5, CallSessionInv DEF CallSession, Request
<1>6. ASSUME NEW t \in Threads, NEW s \in Sessions, CallClose(t, owner[s], s)
      PROVE  IInv' /\ core_panic' = core_panic
  BY <1>6, CallCloseInv DEF CallClose, Request
<1> QED
  BY <1>1, <1>2, <1>3, <1>4, <1>5, <1>6 DEF Next

\* The invariant holds in every behaviour.
THEOREM InvAlways == Spec => []IInv
<1>1. Init => IInv
  BY InitInv
<1>2. IInv /\ [Next]_vars => IInv'
  BY Inductive
<1> QED
  BY <1>1, <1>2, PTL DEF Spec

-----------------------------------------------------------------------------
(* What follows                                                            *)

\* However the opens, closes, invocations and panics of the threads interleave,
\* refs of a session and ref_count of a context count exactly what refers to them.
THEOREM ReferencesExact == Spec => []StateExact
<1>1. IInv => StateExact
  BY DEF IInv, StateExact
<1> QED
  BY <1>1, InvAlways, PTL

\* tee_ta_init_session_with_context() makes no second registered instance of a
\* single-instance TA and no second session of a single-session one.
THEOREM OneInstance == Spec => []InstanceRules
<1>1. IInv => InstanceRules
  BY DEF IInv
<1> QED
  BY <1>1, InvAlways, PTL

\* No call and no list refers to a session or context that was freed, and nobody
\* sleeps on a condition variable of one: tee_ta_close_session() and
\* destroy_context() are the last users.
THEOREM NothingFreedIsUsed == Spec => []NoUseAfterFree
<1>1. ASSUME IInv PROVE NoUseAfterFree
  <2>t. TypeOK /\ LiveOK /\ ListOK /\ WaitOK
    BY <1>1 DEF IInv
  <2>f. /\ SessionOK /\ UniqueOK /\ KnownOK /\ UnlinkOK /\ OpenOK /\ LockOK
        /\ SessionTypes /\ HasSession /\ \A p \in Places : fr[p] \in Frame /\ Shape(fr[p])
    BY <1>1, InvFacts
  <2>c. \A p \in Places : fr[p] = Call(p)
    BY DEF fr
  <2>1. ASSUME NEW p \in Places
        PROVE  /\ UsesSession(fr[p]) \/ (fr[p].op = "close" /\ fr[p].pc = "get") => owner[fr[p].s] = fr[p].list
               /\ fr[p].c # None => fr[p].c \in live
               /\ fr[p].list \in Ctxs => fr[p].list \in live
    <3>1. fr[p].op = "close" /\ fr[p].pc = "get" => Closer(fr[p])
      BY DEF Closer
    <3>2. UsesSession(fr[p]) \/ Closer(fr[p]) => owner[fr[p].s] = fr[p].list
      BY <2>f DEF SessionOK
    <3>3. (fr[p].c # None => fr[p].c \in live) /\ (fr[p].list \in Ctxs => fr[p].list \in live)
      BY <2>t, NsecOK DEF LiveOK
    <3> QED
      BY <3>1, <3>2, <3>3
  <2>2. Range(tee_ctxes) \subseteq live
    BY <2>t DEF ListOK
  <2>3. \A s \in Sessions : owner[s] \in live \cup {Nsec, None} /\ ts_ctx[s] \in live \cup {None}
    BY <2>t DEF LiveOK
  <2>4. ASSUME NEW t \in Threads, waiting[t] # None
        PROVE  TopAt(t) \in Places /\ Sleeping(waiting[t], fr[TopAt(t)])
    <3>1. stack[t] # <<>>
      BY <2>t, <2>4 DEF WaitOK
    <3>2. TopAt(t) \in Places
      BY <2>t, <3>1, TopFacts
    <3> QED
      BY <2>t, <2>4, <3>2 DEF WaitOK, Sleeping
  <2>5. ASSUME NEW t \in Threads, NEW c \in Ctxs, waiting[t] = BusyCv(c)
        PROVE  c \in live
    <3>1. PICK z : z = TopAt(t)
      OBVIOUS
    <3>2. waiting[t] # None
      BY <2>5, CvFacts, NoneOK
    <3>3. z \in Places /\ Sleeping(waiting[t], fr[z])
      BY <2>4, <3>1, <3>2
    <3>4. \A v : <<"lock", v>> # <<"busy", c>> /\ <<"refc", v>> # <<"busy", c>>
      OBVIOUS
    <3>5. <<"init">> # <<"busy", c>> /\ <<"single">> # <<"busy", c>>
      OBVIOUS
    <3>6. \A v : <<"busy", v>> = <<"busy", c>> => v = c
      OBVIOUS
    <3>7. fr[z].c = c
      BY <2>5, <3>3, <3>4, <3>5, <3>6 DEF Sleeping, InitCv, SingleCv, BusyCv, LockCv, RefcCv
    <3> QED
      BY <2>1, <3>3, <3>7, NoneOK
  <2>6. ASSUME NEW t \in Threads, NEW s \in Sessions, waiting[t] \in {LockCv(s), RefcCv(s)}
        PROVE  owner[s] # None
    <3>1. PICK z : z = TopAt(t)
      OBVIOUS
    <3>2. waiting[t] # None
      BY <2>6, CvFacts, NoneOK
    <3>3. z \in Places /\ Sleeping(waiting[t], fr[z])
      BY <2>4, <3>1, <3>2
    <3>4. fr[z].pc \in {"lock", "drain"} /\ fr[z].s = s
      <4>1. \A v, x : <<"lock", v>> = <<x, s>> \/ <<"refc", v>> = <<x, s>> => v = s
        OBVIOUS
      <4>2. \A v : <<"lock", v>> # <<"refc", s>> /\ <<"refc", v>> # <<"lock", s>>
                   /\ <<"busy", v>> # <<"refc", s>> /\ <<"busy", v>> # <<"lock", s>>
        OBVIOUS
      <4>3. /\ <<"init">> # <<"lock", s>> /\ <<"single">> # <<"lock", s>>
            /\ <<"init">> # <<"refc", s>> /\ <<"single">> # <<"refc", s>>
        OBVIOUS
      <4> QED
        BY <2>6, <3>3, <4>1, <4>2, <4>3 DEF Sleeping, InitCv, SingleCv, BusyCv, LockCv, RefcCv
    <3>5. UsesSession(fr[z])
      BY <3>4, NoneOK DEF UsesSession
    <3>6. fr[z].list # None
      BY <2>f, <3>3 DEF Shape
    <3> QED
      BY <2>1, <3>3, <3>4, <3>5, <3>6
  <2> QED
    BY <2>c, <2>1, <2>2, <2>3, <2>5, <2>6 DEF NoUseAfterFree
<1>2. IInv => NoUseAfterFree
  BY <1>1
<1> QED
  BY <1>2, InvAlways, PTL

\* A TA that is not concurrent runs for one call at a time, and the single-instance
\* lock counts the calls of its owner in single-instance TAs, through nested calls,
\* panics and sessions that are closed on the way out.
THEOREM OneCallInside == Spec => []BusyExact
<1>1. ASSUME IInv PROVE BusyExact
  <2>t. InsideOK /\ LockCountOK
    BY <1>1 DEF IInv
  <2>c. \A p \in Places : fr[p] = Call(p)
    BY DEF fr
  <2>1. ASSUME NEW c \in live, ~Concurrent(c)
        PROVE  Cardinality({p \in Places : Inside(Call(p), c)}) = IF c \in busy THEN 1 ELSE 0
    <3>1. CASE c \in busy
      <4>1. PICK q \in Places : Inside(fr[q], c)
        BY <2>t, <2>1, <3>1 DEF InsideOK
      <4>2. \A p \in Places : Inside(fr[p], c) <=> p = q
        BY <2>t, <2>1, <4>1 DEF InsideOK
      <4>3. {p \in Places : Inside(Call(p), c)} = {q}
        BY <2>c, <4>2
      <4> QED
        BY <3>1, <4>3, FS_Singleton
    <3>2. CASE c \notin busy
      <4>1. \A p \in Places : ~Inside(fr[p], c)
        BY <2>t, <2>1, <3>2 DEF InsideOK
      <4>2. {p \in Places : Inside(Call(p), c)} = {}
        BY <2>c, <4>1
      <4> QED
        BY <3>2, <4>2, FS_EmptySet
    <3> QED
      BY <3>1, <3>2
  <2>2. Insiders = {p \in Places : \E c \in live : Single(c) /\ ~Concurrent(c) /\ Inside(Call(p), c)}
    BY <2>c DEF Insiders
  <2> QED
    BY <2>t, <2>1, <2>2 DEF BusyExact, LockCountOK
<1>2. IInv => BusyExact
  BY <1>1
<1> QED
  BY <1>2, InvAlways, PTL

\* No TA runs whose mappings release_ta_ctx() has taken away.
THEOREM NothingRunsReleased == Spec => []NoRunAfterRelease
<1>1. IInv => NoRunAfterRelease
  BY DEF IInv, PanicOK, NoRunAfterRelease, fr
<1> QED
  BY <1>1, InvAlways, PTL

\* When every call has returned no session and no context is lost.
THEOREM NothingLeft == Spec => []NothingLeaks
<1>1. ASSUME IInv PROVE NothingLeaks
  <2> SUFFICES ASSUME \A t \in Threads : stack[t] = <<>>
               PROVE  /\ SessionsOf(Nsec) \subseteq known
                      /\ \A c \in live :
                            \/ ref_count[c] > 0
                            \/ HasFlag(c, "keep") /\ Single(c) /\ c \notin panicked /\ Contains(tee_ctxes, c)
    BY DEF NothingLeaks
  <2>t. TypeOK /\ OpenOK /\ DyingOK /\ ListOK
    BY <1>1, InvFacts DEF IInv
  <2>1. Places = {}
    <3>1. \A p \in Places : p[1] \in Threads /\ p[2] \in Nat /\ p[2] > 0 /\ p[2] <= Len(stack[p[1]])
      BY <2>t, FrFacts
    <3>2. \A t \in Threads : Len(stack[t]) = 0
      OBVIOUS
    <3> QED
      BY <3>1, <3>2
  <2>2. SessionsOf(Nsec) \subseteq known
    BY <2>t, <2>1 DEF OpenOK, SessionsOf
  <2>3. ASSUME NEW c \in live, ~(ref_count[c] > 0)
        PROVE  HasFlag(c, "keep") /\ Single(c) /\ c \notin panicked /\ Contains(tee_ctxes, c)
    <3>1. ref_count[c] = 0
      BY <2>t, <2>3 DEF TypeOK
    <3>2. HasFlag(c, "keep") /\ Single(c) /\ c \notin panicked
      BY <2>t, <2>1, <3>1 DEF DyingOK
    <3>3. c \notin is_releasing
      BY <2>t, <2>1, <3>2 DEF DyingOK
    <3> QED
      BY <2>t, <3>2, <3>3, ListFacts
  <2> QED
    BY <2>2, <2>3
<1>2. IInv => NothingLeaks
  BY <1>1
<1> QED
  BY <1>2, InvAlways, PTL

-----------------------------------------------------------------------------
(* No new session of a context that is off the list                        *)

\* The contexts that are going away gain no reference.
NoGain == \A c \in live : c \in is_releasing => ref_count'[c] <= ref_count[c]

LEMMA SameNoGain ==
    ASSUME IInv, ref_count' = ref_count
    PROVE  NoGain
BY DEF IInv, TypeOK, NoGain

LEMMA LookUpNoGain ==
    ASSUME IInv, NEW t \in Threads, NEW f, f.u \in Uuids, LookUp(t, f)
    PROVE  NoGain
<1>t. TypeOK /\ ListOK /\ ref_count \in [Ctxs -> Nat] /\ live \subseteq Ctxs
  BY DEF IInv, TypeOK
<1>1. CASE AwaitInit(t, f) \/ Refuse(t, f)
  BY <1>1, SameNoGain DEF AwaitInit, Refuse, ctxVars
<1>2. CASE Join(t, f)
  <2>1. PICK c : c = Found(f.u)
    OBVIOUS
  <2>2. c # None /\ ref_count' = [ref_count EXCEPT ![c] = @ + 1]
    BY <1>2, <2>1 DEF Join, Shareable
  <2>3. c \in Range(tee_ctxes)
    BY <1>t, <2>1, <2>2, FoundFacts
  <2>4. c \notin is_releasing
    BY <1>t, <2>3 DEF ListOK
  <2> QED
    BY <1>t, <2>2, <2>4 DEF NoGain
<1>3. CASE Create(t, f)
  <2>1. CASE ref_count' = ref_count
    BY <2>1, SameNoGain
  <2>2. CASE \E c \in Ctxs \ live : ref_count' = [ref_count EXCEPT ![c] = 1]
    <3>1. PICK c \in Ctxs \ live : ref_count' = [ref_count EXCEPT ![c] = 1]
      BY <2>2
    <3> QED
      BY <1>t, <3>1 DEF NoGain
  <2> QED
    BY <1>3, <2>1, <2>2 DEF Create, ctxVars
<1> QED
  BY <1>1, <1>2, <1>3 DEF LookUp

LEMMA StepNoGain ==
    ASSUME IInv, NEW t \in Threads, Step(t)
    PROVE  NoGain
<1>t. TypeOK /\ ref_count \in [Ctxs -> Nat] /\ live \subseteq Ctxs
  BY DEF IInv, TypeOK
<1>1. CASE OpenInit(t)
  <2>1. PICK s \in FreeIds : At(t, "init") /\ LookUp(t, [Top(t) EXCEPT !.s = s])
    BY <1>1 DEF OpenInit
  <2>2. Top(t) \in Frame /\ Shape(Top(t)) /\ Top(t).pc = "init" /\ s \in Sessions
    BY <2>1, AtFacts DEF FreeIds, SessionsOf
  <2>3. PICK f : f = [Top(t) EXCEPT !.s = s]
    OBVIOUS
  <2>4. f.u = Top(t).u
    BY <2>2, <2>3, FrameS DEF Onward
  <2>5. Top(t).u \in Uuids
    BY <2>2 DEF Shape, Frame
  <2> QED
    BY <2>1, <2>3, <2>4, <2>5, LookUpNoGain
<1>2. CASE OpenFind(t)
  <2>1. At(t, "find") /\ LookUp(t, Top(t))
    BY <1>2 DEF OpenFind
  <2>2. Top(t) \in Frame /\ Shape(Top(t)) /\ Top(t).pc = "find"
    BY <2>1, AtFacts
  <2>3. Top(t).u \in Uuids
    BY <2>2 DEF Shape, Frame
  <2> QED
    BY <2>1, <2>3, LookUpNoGain
<1>3. CASE Load(t)
  <2>1. ref_count' = ref_count \/ ref_count' = [ref_count EXCEPT ![Top(t).c] = 0]
    BY <1>3 DEF Load
  <2> QED
    BY <1>t, <2>1 DEF NoGain
<1>4. CASE Unref(t)
  <2>1. ref_count' = [ref_count EXCEPT ![Top(t).c] = IF @ = 0 THEN 0 ELSE @ - 1]
    BY <1>4 DEF Unref
  <2> QED
    BY <1>t, <2>1 DEF NoGain
<1>5. CASE \/ OpenNoMem(t) \/ OpenFail(t) \/ SetBusy(t) \/ SetBusyConcurrent(t) \/ AwaitBusy(t)
           \/ BusyRefused(t) \/ Enter(t) \/ RunReturn(t) \/ RunPanic(t)
  <2>1. ref_count' = ref_count
    BY <1>5 DEF OpenNoMem, OpenFail, SetBusy, SetBusyConcurrent, AwaitBusy, BusyRefused, Enter, RunReturn,
                RunPanic, ctxVars
  <2> QED
    BY <2>1, SameNoGain
<1>6. CASE \/ ReleaseCtx(t) \/ ClearBusy(t) \/ Put(t) \/ GetNone(t) \/ Get(t) \/ Lock(t) \/ CopyParam(t)
           \/ Closing(t)
  <2>1. ref_count' = ref_count
    BY <1>6 DEF ReleaseCtx, ClearBusy, Put, GetNone, Get, Lock, CopyParam, Closing, ctxVars
  <2> QED
    BY <2>1, SameNoGain
<1>7. CASE Unlink(t) \/ Drain(t) \/ DestroyCtx(t) \/ CloseOne(t) \/ EndRelease(t)
  <2>1. ref_count' = ref_count
    BY <1>7 DEF Unlink, Drain, DestroyCtx, CloseOne, EndRelease, ctxVars
  <2> QED
    BY <2>1, SameNoGain
<1> QED
  BY <1>1, <1>2, <1>3, <1>4, <1>5, <1>6, <1>7 DEF Step

\* A context that has panicked or is being destroyed is off the list for good:
\* tee_ta_context_find() gives it to no new session.
THEOREM NeverRevived == Spec => NoRevival
<1>1. ASSUME IInv, Next PROVE NoGain
  <2>1. CASE AllAnswered
    BY <1>1, <2>1, SameNoGain DEF AllAnswered, vars, ctxVars
  <2>2. ASSUME NEW t \in Threads, Step(t) PROVE NoGain
    BY <1>1, <2>2, StepNoGain
  <2>3. ASSUME NEW t \in Threads, NEW f, Request(t, f) PROVE NoGain
    BY <1>1, <2>3, SameNoGain DEF Request, ctxVars
  <2> QED
    BY <1>1, <2>1, <2>2, <2>3 DEF Next, CallOpen, CallSession, CallClose
<1>2. IInv /\ [Next]_vars => [\A c \in live : c \in is_releasing => ref_count'[c] <= ref_count[c]]_vars
  BY <1>1 DEF NoGain
<1> QED
  BY <1>2, InvAlways, PTL DEF Spec, NoRevival

-----------------------------------------------------------------------------
(* Who calls whom                                                          *)

\* TA c may call TA d.
Edge(c, d) == <<uuid[c], uuid[d]>> \in CallGraph

\* A call follows the call graph: the TA that is opened, the TA that is
\* called, and the TA that goes away with its last session.
CallEdge(p) ==
    LET f == fr[p] IN
    /\ f.op = "open" /\ f.list \in Ctxs => <<uuid[f.list], f.u>> \in CallGraph
    /\ f.op \notin {"release", "destroy"} /\ f.list \in Ctxs /\ f.c # None => Edge(f.list, f.c)
    /\ f.op = "destroy" /\ p[2] > 1 => Edge(fr[Under(p)].c, f.c)

\* So does a session.
SessionEdge(s) == owner[s] \in Ctxs /\ ts_ctx[s] # None => Edge(owner[s], ts_ctx[s])

EdgesOK == (\A p \in Places : CallEdge(p)) /\ (\A s \in Sessions : SessionEdge(s))

LEMMA ShapeNext ==
    ASSUME Shapes'
    PROVE  \A p \in Places' : Shape(fr'[p])
BY DEF Shapes, Shape

LEMMA UnderNext ==
    ASSUME TypeOK'
    PROVE  (\A p \in Places : p[2] > 1 => Under(p) \in Places /\ Under(p)[1] = p[1])'
<1>1. stack' \in [Threads -> Seq(Frame)]
  BY DEF TypeOK
<1>2. \A p : p \in Places' <=> \E t \in Threads : \E i \in 1 .. Len(stack'[t]) : p = <<t, i>>
  BY <1>1, FrNext
<1>3. ASSUME NEW p \in Places', p[2] > 1
      PROVE  <<p[1], p[2] - 1>> \in Places'
  <2>1. PICK t \in Threads : \E i \in 1 .. Len(stack'[t]) : p = <<t, i>>
    BY <1>2
  <2>2. PICK i \in 1 .. Len(stack'[t]) : p = <<t, i>>
    BY <2>1
  <2>3. Len(stack'[t]) \in Nat
    BY <1>1
  <2>4. i - 1 \in 1 .. Len(stack'[t])
    BY <1>3, <2>2, <2>3
  <2> QED
    BY <1>2, <2>2, <2>4
<1> QED
  BY <1>3 DEF Under

\* The contexts that stay keep their TA.
UuidsStay == \A d \in live \cap live' : uuid'[d] = uuid[d]

\* The sessions that stay keep their ends.
SessionsStay == \A s \in Sessions : owner'[s] \in {owner[s], None} /\ ts_ctx'[s] \in {ts_ctx[s], None}

LEMMA EdgesStep ==
    ASSUME IInv, IInv', EdgesOK, UuidsStay, NEW Z, ChangedIn(Z),
           \A p \in Places \ Z : p[2] > 1 => Under(p) \in Places \ Z,
           \A z \in Z : z \in Places' => CallEdge(z)',
           \A s \in Sessions : SessionEdge(s)' \/ (owner'[s] \in {owner[s], None} /\ ts_ctx'[s] \in {ts_ctx[s], None})
    PROVE  EdgesOK'
<1>t. LiveOK /\ LiveOK' /\ Nsec \notin Ctxs /\ None \notin Ctxs
  BY NoneOK, NsecOK DEF IInv
<1>l. \A d : d \in live /\ d \in live' => uuid'[d] = uuid[d]
  BY DEF UuidsStay
<1>1. ASSUME NEW p \in Places', p \notin Z
      PROVE  CallEdge(p)'
  <2>1. p \in Places \ Z /\ fr'[p] = fr[p] /\ CallEdge(p)
    BY <1>1 DEF ChangedIn, EdgesOK
  <2>2. PICK f : f = fr[p]
    OBVIOUS
  <2>3. /\ f.c # None => f.c \in live /\ f.c \in live'
        /\ f.list \in Ctxs => f.list \in live /\ f.list \in live'
    BY <1>t, <1>1, <2>1, <2>2 DEF LiveOK
  <2>4. /\ f.c # None => uuid'[f.c] = uuid[f.c]
        /\ f.list \in Ctxs => uuid'[f.list] = uuid[f.list]
    BY <1>l, <2>3
  <2>5. f.op = "destroy" => f.c # None
    BY <2>1, <2>2, InvFacts DEF Shape
  <2>6. ASSUME p[2] > 1, f.op = "destroy"
        PROVE  <<uuid'[(fr'[Under(p)]).c], uuid'[f.c]>> \in CallGraph
    <3>1. Under(p) \in Places \ Z /\ Under(p) \in Places' /\ fr'[Under(p)] = fr[Under(p)]
      BY <2>1, <2>6 DEF ChangedIn
    <3>2. PICK h : h = fr[Under(p)]
      OBVIOUS
    <3>3. h.c # None
      <4>1. Over(f, h) /\ h \in Frame /\ Shape(h)
        BY <2>1, <2>2, <2>6, <3>1, <3>2, InvFacts DEF IInv, Nested
      <4> QED
        BY <2>6, <4>1 DEF Over, Shape, Frame
    <3>4. uuid'[h.c] = uuid[h.c]
      BY <1>l, <1>t, <3>1, <3>2, <3>3 DEF LiveOK
    <3>5. <<uuid[h.c], uuid[f.c]>> \in CallGraph
      BY <2>1, <2>2, <2>6, <3>2 DEF CallEdge, Edge
    <3> QED
      BY <2>4, <2>5, <2>6, <3>1, <3>2, <3>4, <3>5
  <2>7. f.op = "open" /\ f.list \in Ctxs => <<uuid'[f.list], f.u>> \in CallGraph
    BY <2>1, <2>2, <2>4 DEF CallEdge
  <2>8. f.op \notin {"release", "destroy"} /\ f.list \in Ctxs /\ f.c # None => <<uuid'[f.list], uuid'[f.c]>> \in CallGraph
    BY <2>1, <2>2, <2>4 DEF CallEdge, Edge
  <2>9. fr'[p] = f
    BY <2>1, <2>2
  <2> QED
    BY <2>6, <2>7, <2>8, <2>9 DEF CallEdge, Edge, Under
<1>2. ASSUME NEW s \in Sessions
      PROVE  SessionEdge(s)'
  <2> SUFFICES ASSUME owner'[s] \in {owner[s], None}, ts_ctx'[s] \in {ts_ctx[s], None},
                      owner'[s] \in Ctxs, ts_ctx'[s] # None
               PROVE  <<uuid'[owner'[s]], uuid'[ts_ctx'[s]]>> \in CallGraph
    BY DEF SessionEdge, Edge
  <2>1. PICK l, c : l = owner[s] /\ c = ts_ctx[s]
    OBVIOUS
  <2>2. owner'[s] = l /\ ts_ctx'[s] = c /\ l \in Ctxs /\ c # None
    BY <1>t, <2>1
  <2>3. <<uuid[l], uuid[c]>> \in CallGraph
    BY <2>1, <2>2 DEF EdgesOK, SessionEdge, Edge
  <2>4. l \in live /\ c \in live
    BY <1>t, <2>1, <2>2 DEF LiveOK
  <2>5. l \in live' /\ c \in live'
    BY <1>t, <2>2 DEF LiveOK
  <2> QED
    BY <1>l, <2>2, <2>3, <2>4, <2>5
<1> QED
  BY <1>1, <1>2 DEF EdgesOK

LEMMA EdgesReturn ==
    ASSUME IInv, IInv', EdgesOK, UuidsStay, SessionsStay, NEW t \in Threads, stack[t] # <<>>, Return(t)
    PROVE  EdgesOK'
<1>z. PICK z : z = TopAt(t)
  OBVIOUS
<1>t. TypeOK
  BY DEF IInv
<1>1. Returned(t)
  BY <1>t, ReturnStep
<1>2. ChangedIn({z}) /\ z \notin Places'
  BY <1>z, <1>t, <1>1, ReturnedFacts
<1>3. \A p \in Places \ {z} : p[2] > 1 => Under(p) \in Places \ {z}
  BY <1>z, <1>t, TopFacts, UnderFacts
<1> QED
  BY <1>2, <1>3, EdgesStep DEF SessionsStay

LEMMA EdgesReplace ==
    ASSUME IInv, IInv', EdgesOK, UuidsStay, NEW t \in Threads, stack[t] # <<>>, NEW g \in Frame, Replace(t, g),
           NEW z, z = TopAt(t),
           z \in Places' /\ fr'[z] = g /\ (z[2] > 1 => fr'[Under(z)] = fr[Under(z)] /\ Under(z) \in Places)
              => CallEdge(z)',
           \A s \in Sessions : SessionEdge(s)' \/ (owner'[s] \in {owner[s], None} /\ ts_ctx'[s] \in {ts_ctx[s], None})
    PROVE  EdgesOK'
<1>t. TypeOK
  BY DEF IInv
<1>1. Replaced(t, g)
  BY <1>t, ReplaceStep
<1>2. ChangedIn({z}) /\ z \in Places' /\ fr'[z] = g /\ z \in Places /\ Moved(z, g)
  BY <1>t, <1>1, ReplacedFacts
<1>3. \A p \in Places : p[2] > 1 => Under(p) \in Places \ {z}
  BY <1>t, TopFacts, UnderFacts
<1>4. z[2] > 1 => fr'[Under(z)] = fr[Under(z)]
  BY <1>2, <1>3 DEF Moved
<1>5. CallEdge(z)'
  BY <1>2, <1>3, <1>4
<1>6. /\ \A p \in Places \ {z} : p[2] > 1 => Under(p) \in Places \ {z}
      /\ \A x \in {z} : x \in Places' => CallEdge(x)'
  BY <1>3, <1>5
<1> QED
  BY <1>2, <1>6, EdgesStep

\* A call that goes on with the same TAs.
Continues(f, g) ==
    /\ g \in Frame /\ g.list = f.list /\ g.u = f.u /\ g.c \in {f.c, None}
    /\ g.op = f.op \/ (g.op = "close" /\ f.op = "open")

LEMMA EdgesContinue ==
    ASSUME IInv, IInv', EdgesOK, UuidsStay, SessionsStay, NEW t \in Threads, stack[t] # <<>>,
           NEW g, Continues(Top(t), g), Replace(t, g)
    PROVE  EdgesOK'
<1>z. PICK z : z = TopAt(t)
  OBVIOUS
<1>f. PICK f : f = Top(t)
  OBVIOUS
<1>t. TypeOK /\ LiveOK /\ LiveOK' /\ Nsec \notin Ctxs /\ None \notin Ctxs
  BY NoneOK, NsecOK DEF IInv
<1>1. z \in Places /\ fr[z] = f
  BY <1>z, <1>f, <1>t, TopFacts
<1>2. /\ g \in Frame /\ g.list = f.list /\ g.u = f.u /\ g.c \in {f.c, None}
      /\ (g.op = f.op \/ (g.op = "close" /\ f.op = "open"))
  BY <1>f DEF Continues
<1>3. ASSUME z \in Places', fr'[z] = g, z[2] > 1 => fr'[Under(z)] = fr[Under(z)] /\ Under(z) \in Places
      PROVE  CallEdge(z)'
  <2>1. CallEdge(z)
    BY <1>1 DEF EdgesOK
  <2>2. /\ g.c # None => g.c = f.c /\ g.c \in live /\ g.c \in live'
        /\ g.list \in Ctxs => g.list \in live /\ g.list \in live'
    BY <1>t, <1>1, <1>2, <1>3 DEF LiveOK
  <2>3. /\ g.c # None => uuid'[g.c] = uuid[f.c]
        /\ g.list \in Ctxs => uuid'[g.list] = uuid[f.list]
    BY <1>2, <2>2 DEF UuidsStay
  <2>4. g.op = "open" /\ g.list \in Ctxs => <<uuid'[g.list], g.u>> \in CallGraph
    BY <1>1, <1>2, <2>1, <2>3 DEF CallEdge
  <2>5. g.op \notin {"release", "destroy"} /\ g.list \in Ctxs /\ g.c # None => <<uuid'[g.list], uuid'[g.c]>> \in CallGraph
    BY <1>1, <1>2, <2>1, <2>2, <2>3 DEF CallEdge, Edge
  <2>6. ASSUME z[2] > 1, g.op = "destroy"
        PROVE  <<uuid'[(fr'[Under(z)]).c], uuid'[g.c]>> \in CallGraph
    <3>0. f.op = "destroy"
      BY <1>2, <2>6
    <3>1. Under(z) \in Places /\ fr'[Under(z)] = fr[Under(z)] /\ Under(z) \in Places'
      <4>1. Under(z) \in Places /\ fr'[Under(z)] = fr[Under(z)]
        BY <1>3, <2>6
      <4>2. TypeOK'
        BY DEF IInv
      <4>3. \A p \in Places' : p[2] > 1 => Under(p) \in Places'
        <5>1. (\A p \in Places : p[2] > 1 => Under(p) \in Places /\ Under(p)[1] = p[1])'
          BY <4>2, UnderNext
        <5> QED
          BY <5>1 DEF Under
      <4> QED
        BY <1>3, <2>6, <4>1, <4>3
    <3>2. PICK h : h = fr[Under(z)]
      OBVIOUS
    <3>3. h.c # None /\ f.c # None
      <4>1. Over(f, h) /\ h \in Frame /\ Shape(h) /\ Shape(f)
        BY <1>1, <2>6, <3>1, <3>2, InvFacts DEF IInv, Nested
      <4> QED
        BY <3>0, <4>1 DEF Over, Shape, Frame
    <3>4. uuid'[h.c] = uuid[h.c]
      BY <1>t, <3>1, <3>2, <3>3 DEF LiveOK, UuidsStay
    <3>5. g.c # None
      <4>1. Shape(g)
        BY <1>3, ShapeNext DEF IInv
      <4> QED
        BY <2>6, <4>1 DEF Shape
    <3>6. <<uuid[h.c], uuid[f.c]>> \in CallGraph
      BY <1>1, <2>1, <2>6, <3>0, <3>2 DEF CallEdge, Edge
    <3> QED
      BY <2>3, <3>1, <3>2, <3>4, <3>5, <3>6
  <2> QED
    BY <1>3, <2>4, <2>5, <2>6 DEF CallEdge, Edge, Under
<1>4. \A s \in Sessions : owner'[s] \in {owner[s], None} /\ ts_ctx'[s] \in {ts_ctx[s], None}
  BY DEF SessionsStay
<1> QED
  BY <1>z, <1>2, <1>3, <1>4, EdgesReplace

LEMMA EdgesSame ==
    ASSUME IInv, IInv', EdgesOK, UuidsStay, SessionsStay, stack' = stack
    PROVE  EdgesOK'
<1>1. fr' = fr /\ Places' = Places
  BY SameStep DEF Same
<1>2. ChangedIn({})
  BY <1>1 DEF ChangedIn
<1>3. \A p \in Places : p[2] > 1 => Under(p) \in Places
  BY UnderFacts DEF IInv
<1> QED
  BY <1>2, <1>3, EdgesStep DEF SessionsStay

\* The three together.
GoesOn(t) ==
    \/ stack' = stack
    \/ Return(t)
    \/ \E g : Continues(Top(t), g) /\ Replace(t, g)

LEMMA EdgesGoOn ==
    ASSUME IInv, IInv', EdgesOK, UuidsStay, SessionsStay, NEW t \in Threads, stack[t] # <<>>, GoesOn(t)
    PROVE  EdgesOK'
BY EdgesSame, EdgesReturn, EdgesContinue DEF GoesOn

\* A call that begins.
LEMMA EdgesPush ==
    ASSUME IInv, IInv', EdgesOK, UuidsStay, SessionsStay, NEW t \in Threads, NEW g \in Frame, Push(t, g),
           g.op \notin {"release", "destroy"}, g.c = None,
           g.op = "open" /\ g.list \in Ctxs => <<uuid'[g.list], g.u>> \in CallGraph
    PROVE  EdgesOK'
<1>y. PICK y : y = NewAt(t)
  OBVIOUS
<1>t. TypeOK
  BY DEF IInv
<1>1. Pushed(t, g)
  BY <1>t, PushStep
<1>2. ChangedIn({y}) /\ y \notin Places /\ y \in Places' /\ fr'[y] = g
  BY <1>y, <1>t, <1>1, PushedFacts
<1>3. CallEdge(y)'
  BY <1>2 DEF CallEdge
<1>4. \A p \in Places \ {y} : p[2] > 1 => Under(p) \in Places \ {y}
  BY <1>t, <1>2, UnderFacts
<1>5. \A x \in {y} : x \in Places' => CallEdge(x)'
  BY <1>3
<1> QED
  BY <1>2, <1>4, <1>5, EdgesStep DEF SessionsStay

\* A thread that goes on keeps its TAs.
LEMMA ContinuePc ==
    ASSUME NEW f \in Frame, NEW pc \in Pcs
    PROVE  Continues(f, [f EXCEPT !.pc = pc])
<1>1. PICK g : g = [f EXCEPT !.pc = pc]
  OBVIOUS
<1>2. Onward(f, g, pc, f.s, f.c, f.ok)
  BY <1>1, FramePc
<1>3. Continues(f, g)
  BY <1>2 DEF Onward, Continues
<1> QED
  BY <1>1, <1>3

LEMMA ContinueOkPc ==
    ASSUME NEW f \in Frame, NEW pc \in Pcs, NEW ok \in BOOLEAN
    PROVE  Continues(f, [f EXCEPT !.ok = ok, !.pc = pc])
<1>1. PICK g : g = [f EXCEPT !.ok = ok, !.pc = pc]
  OBVIOUS
<1>2. Onward(f, g, pc, f.s, f.c, ok)
  BY <1>1, FrameOkPc
<1>3. Continues(f, g)
  BY <1>2 DEF Onward, Continues
<1> QED
  BY <1>1, <1>3

LEMMA ContinueClose ==
    ASSUME NEW f \in Frame, f.op = "open"
    PROVE  Continues(f, [f EXCEPT !.op = "close", !.pc = "get"])
<1>1. PICK g : g = [f EXCEPT !.op = "close", !.pc = "get"]
  OBVIOUS
<1>2. /\ g \in Frame /\ g.op = "close" /\ g.list = f.list /\ g.u = f.u /\ g.c = f.c
  BY <1>1, FrameOpPc
<1>3. Continues(f, g)
  BY <1>2 DEF Continues
<1> QED
  BY <1>1, <1>3

LEMMA GoesTo ==
    ASSUME NEW t \in Threads, Top(t) \in Frame, NEW pc \in Pcs, Goto(t, pc)
    PROVE  GoesOn(t)
<1>1. PICK g : g = [Top(t) EXCEPT !.pc = pc]
  OBVIOUS
<1>2. Continues(Top(t), g)
  BY <1>1, ContinuePc
<1>3. Replace(t, g)
  BY <1>1 DEF Goto
<1> QED
  BY <1>2, <1>3 DEF GoesOn

LEMMA GoesToOk ==
    ASSUME NEW t \in Threads, Top(t) \in Frame, NEW pc \in Pcs, NEW ok \in BOOLEAN,
           Replace(t, [Top(t) EXCEPT !.ok = ok, !.pc = pc])
    PROVE  GoesOn(t)
<1>1. PICK g : g = [Top(t) EXCEPT !.ok = ok, !.pc = pc]
  OBVIOUS
<1>2. Continues(Top(t), g)
  BY <1>1, ContinueOkPc
<1>3. Replace(t, g)
  BY <1>1
<1> QED
  BY <1>2, <1>3 DEF GoesOn

\* The steps of a thread that leave the sessions alone or free one.
LEMMA FreeStays ==
    ASSUME SessionTypes, NEW s \in Sessions, FreeSession(s)
    PROVE  SessionsStay
BY DEF SessionTypes, FreeSession, SessionsStay

LEMMA QuietStays ==
    ASSUME UNCHANGED <<owner, ts_ctx>>
    PROVE  SessionsStay
BY DEF SessionsStay

LEMMA UuidSame ==
    ASSUME uuid' = uuid
    PROVE  UuidsStay
BY DEF UuidsStay

LEMMA StepFacts ==
    ASSUME IInv, NEW t \in Threads, Step(t)
    PROVE  stack[t] # <<>> /\ Top(t) \in Frame /\ Shape(Top(t)) /\ SessionTypes
<1>1. PICK pc : At(t, pc)
  BY DEF Step, OpenInit, OpenNoMem, OpenFind, Load, OpenFail, SetBusy, SetBusyConcurrent, AwaitBusy, BusyRefused,
         Enter, RunReturn, RunPanic, ReleaseCtx, ClearBusy, Put, GetNone, Get, Lock, CopyParam, Closing, Unlink,
         Drain, Unref, DestroyCtx, CloseOne, EndRelease
<1> QED
  BY <1>1, AtFacts, InvFacts

\* The steps that go on quietly.
Plain(t) ==
    \/ OpenNoMem(t) \/ SetBusy(t) \/ SetBusyConcurrent(t) \/ AwaitBusy(t) \/ BusyRefused(t)
    \/ Enter(t) \/ RunReturn(t) \/ RunPanic(t) \/ ClearBusy(t) \/ Put(t) \/ GetNone(t) \/ CopyParam(t)
    \/ Closing(t) \/ Unref(t)

LEMMA PcsFacts ==
    /\ \A x \in {"enter", "put", "rel", "run", "unlink", "clear", "unref", "busy", "destroy", "drain", "fail",
                 "find", "load", "get", "lock"} : x \in Pcs
    /\ \A f, dead : AfterRun(f, dead) \in Pcs
BY DEF Pcs, AfterRun

LEMMA PlainGoesOn ==
    ASSUME IInv, NEW t \in Threads, Step(t), Plain(t)
    PROVE  GoesOn(t) /\ SessionsStay /\ UuidsStay
<1>1. stack[t] # <<>> /\ Top(t) \in Frame
  BY StepFacts
<1>2. uuid' = uuid /\ UNCHANGED <<owner, ts_ctx>>
  BY DEF Plain, OpenNoMem, SetBusy, SetBusyConcurrent, AwaitBusy, BusyRefused, Enter, RunReturn, RunPanic, ClearBusy,
         Put, GetNone, CopyParam, Closing, Unref, ctxVars, sessVars
<1>3. SessionsStay /\ UuidsStay
  BY <1>2, QuietStays, UuidSame
<1>4. CASE OpenNoMem(t) \/ GetNone(t)
  <2>1. Return(t)
    BY <1>4 DEF OpenNoMem, GetNone
  <2> QED
    BY <1>3, <2>1 DEF GoesOn
<1>5. CASE AwaitBusy(t)
  <2>1. stack' = stack
    BY <1>5 DEF AwaitBusy
  <2> QED
    BY <1>3, <2>1 DEF GoesOn
<1>6. CASE SetBusy(t) \/ SetBusyConcurrent(t) \/ ClearBusy(t) \/ CopyParam(t)
  <2>1. \E pc \in {"enter", "unref", "put", "busy"} : Goto(t, pc)
    BY <1>6 DEF SetBusy, SetBusyConcurrent, ClearBusy, CopyParam
  <2> QED
    BY <1>1, <1>3, <2>1, PcsFacts, GoesTo
<1>7. CASE BusyRefused(t)
  <2>1. CASE Top(t).op = "open"
    <3>1. Replace(t, [Top(t) EXCEPT !.ok = FALSE, !.pc = "put"])
      BY <1>7, <2>1 DEF BusyRefused
    <3>2. PICK pc, ok : pc = "put" /\ ok = FALSE
      OBVIOUS
    <3>3. pc \in Pcs /\ ok \in BOOLEAN
      BY <3>2, PcsFacts
    <3> QED
      BY <1>1, <1>3, <3>1, <3>2, <3>3, GoesToOk
  <2>2. CASE Top(t).op # "open"
    <3>1. stack' = stack
      BY <1>7, <2>2 DEF BusyRefused
    <3> QED
      BY <1>3, <3>1 DEF GoesOn
  <2> QED
    BY <2>1, <2>2
<1>8. CASE Enter(t)
  <2>1. PICK dead : dead = (Top(t).c \in panicked)
    OBVIOUS
  <2>2. PICK r : r = AfterRun(Top(t), dead)
    OBVIOUS
  <2>3. PICK cl \in BOOLEAN : cl = (Top(t).op = "close")
    OBVIOUS
  <2>4. \/ Replace(t, [Top(t) EXCEPT !.ok = FALSE, !.pc = "rel"])
        \/ Replace(t, [Top(t) EXCEPT !.ok = cl, !.pc = r])
        \/ Goto(t, "run")
    BY <1>8, <2>1, <2>2, <2>3 DEF Enter
  <2>5. r \in Pcs /\ "rel" \in Pcs /\ "run" \in Pcs /\ FALSE \in BOOLEAN
    BY <2>2, PcsFacts
  <2> QED
    BY <1>1, <1>3, <2>3, <2>4, <2>5, GoesToOk, GoesTo
<1>9. CASE RunReturn(t) \/ RunPanic(t)
  <2>1. PICK dead : \E ok \in BOOLEAN : Replace(t, [Top(t) EXCEPT !.ok = ok, !.pc = AfterRun(Top(t), dead)])
    BY <1>9 DEF RunReturn, RunPanic
  <2>2. PICK ok \in BOOLEAN : Replace(t, [Top(t) EXCEPT !.ok = ok, !.pc = AfterRun(Top(t), dead)])
    BY <2>1
  <2>3. PICK r : r = AfterRun(Top(t), dead)
    OBVIOUS
  <2>4. Replace(t, [Top(t) EXCEPT !.ok = ok, !.pc = r]) /\ r \in Pcs
    BY <2>2, <2>3, PcsFacts
  <2> QED
    BY <1>1, <1>3, <2>4, GoesToOk
<1>10. CASE Put(t)
  <2>1. CASE Top(t).op = "open" /\ ~Top(t).ok
    <3>1. PICK g : g = [Top(t) EXCEPT !.op = "close", !.pc = "get"]
      OBVIOUS
    <3>2. Replace(t, g)
      BY <1>10, <2>1, <3>1 DEF Put
    <3>3. Continues(Top(t), g)
      BY <1>1, <2>1, <3>1, ContinueClose
    <3> QED
      BY <1>3, <3>2, <3>3 DEF GoesOn
  <2>2. CASE ~(Top(t).op = "open" /\ ~Top(t).ok)
    <3>1. Return(t)
      BY <1>10, <2>2 DEF Put
    <3> QED
      BY <1>3, <3>1 DEF GoesOn
  <2> QED
    BY <2>1, <2>2
<1>11. CASE Closing(t)
  <2>1. PICK ok \in BOOLEAN, pc \in {"unlink", "busy"} : Replace(t, [Top(t) EXCEPT !.ok = ok, !.pc = pc])
    BY <1>11 DEF Closing
  <2>2. pc \in Pcs
    BY PcsFacts
  <2> QED
    BY <1>1, <1>3, <2>1, <2>2, GoesToOk
<1>12. CASE Unref(t)
  <2>1. Goto(t, "destroy") \/ Return(t)
    BY <1>12 DEF Unref
  <2>2. Goto(t, "destroy") => GoesOn(t)
    BY <1>1, PcsFacts, GoesTo
  <2> QED
    BY <1>3, <2>1, <2>2 DEF GoesOn
<1> QED
  BY <1>4, <1>5, <1>6, <1>7, <1>8, <1>9, <1>10, <1>11, <1>12 DEF Plain

LEMMA OpenFailEdges ==
    ASSUME IInv, IInv', EdgesOK, NEW t \in Threads, OpenFail(t)
    PROVE  EdgesOK'
<1>1. /\ At(t, "fail") /\ FreeSession(Top(t).s) /\ Return(t) /\ uuid' = uuid
  BY DEF OpenFail, ctxVars
<1>2. stack[t] # <<>> /\ Top(t) \in Frame /\ Shape(Top(t)) /\ Top(t).pc = "fail"
  BY <1>1, AtFacts
<1>3. Top(t).s \in Sessions
  BY <1>2 DEF Shape, Frame
<1>4. SessionsStay /\ UuidsStay
  BY <1>1, <1>3, FreeStays, UuidSame, InvFacts
<1> QED
  BY <1>1, <1>2, <1>4, EdgesReturn

LEMMA AfterUnlinkContinues ==
    ASSUME NEW f \in Frame
    PROVE  Continues(f, AfterUnlink(f))
<1>1. PICK pc : pc = IF f.ok THEN "clear" ELSE "unref"
  OBVIOUS
<1>2. pc \in Pcs
  BY <1>1, PcsFacts
<1>3. AfterUnlink(f) = [f EXCEPT !.pc = pc]
  BY <1>1 DEF AfterUnlink
<1> QED
  BY <1>2, <1>3, ContinuePc

LEMMA UnlinkEdges ==
    ASSUME IInv, IInv', EdgesOK, NEW t \in Threads, Step(t), Unlink(t) \/ Drain(t)
    PROVE  EdgesOK'
<1>1. stack[t] # <<>> /\ Top(t) \in Frame /\ Shape(Top(t)) /\ SessionTypes
  BY StepFacts
<1>2. Top(t).pc \in {"unlink", "drain"} /\ uuid' = uuid
  BY DEF Unlink, Drain, At, ctxVars
<1>3. Top(t).s \in Sessions
  BY <1>1, <1>2 DEF Shape, Frame
<1>4. UuidsStay
  BY <1>2, UuidSame
<1>5. SessionsStay
  <2>1. FreeSession(Top(t).s) \/ UNCHANGED <<owner, ts_ctx>>
    BY DEF Unlink, Drain
  <2> QED
    BY <1>1, <1>3, <2>1, FreeStays, QuietStays
<1>6. GoesOn(t)
  <2>1. Replace(t, AfterUnlink(Top(t))) \/ Goto(t, "drain") \/ stack' = stack
    BY DEF Unlink, Drain
  <2>2. Goto(t, "drain") => GoesOn(t)
    BY <1>1, PcsFacts, GoesTo
  <2>3. Replace(t, AfterUnlink(Top(t))) => GoesOn(t)
    BY <1>1, AfterUnlinkContinues DEF GoesOn
  <2> QED
    BY <2>1, <2>2, <2>3 DEF GoesOn
<1> QED
  BY <1>1, <1>4, <1>5, <1>6, EdgesGoOn

LEMMA LoadEdges ==
    ASSUME IInv, IInv', EdgesOK, NEW t \in Threads, Load(t)
    PROVE  EdgesOK'
<1>1. At(t, "load") /\ owner' = owner
  BY DEF Load
<1>c. PICK c : c = Top(t).c
  OBVIOUS
<1>2. /\ stack[t] # <<>> /\ Top(t) \in Frame /\ TypeOK
  BY <1>1, AtFacts
<1>3. CASE Goto(t, "busy") /\ UNCHANGED <<ts_ctx, uuid>>
  <2>1. SessionsStay /\ UuidsStay
    BY <1>1, <1>3, QuietStays, UuidSame
  <2>2. GoesOn(t)
    BY <1>2, <1>3, PcsFacts, GoesTo
  <2> QED
    BY <1>2, <2>1, <2>2, EdgesGoOn
<1>4. CASE /\ ts_ctx' = [ts_ctx EXCEPT ![Top(t).s] = None] /\ live' = live \ {c}
           /\ uuid' = [uuid EXCEPT ![c] = None] /\ Replace(t, [Top(t) EXCEPT !.pc = "fail", !.c = None])
  <2>1. UuidsStay
    BY <1>2, <1>4 DEF UuidsStay, TypeOK
  <2>2. SessionsStay
    BY <1>1, <1>2, <1>4 DEF SessionsStay, TypeOK
  <2>3. PICK g : g = [Top(t) EXCEPT !.pc = "fail", !.c = None]
    OBVIOUS
  <2>4. "fail" \in Pcs /\ None \in Ctxs \cup {None} /\ Top(t) \in Frame
    BY <1>2, PcsFacts
  <2>5. Onward(Top(t), g, "fail", Top(t).s, None, Top(t).ok)
    BY ONLY <2>3, <2>4, FramePcC
  <2>6. Continues(Top(t), g)
    BY <2>5 DEF Onward, Continues
  <2> QED
    BY <1>2, <1>4, <2>1, <2>2, <2>3, <2>6, EdgesContinue
<1> QED
  BY <1>c, <1>3, <1>4 DEF Load

LEMMA EndEdges ==
    ASSUME IInv, IInv', EdgesOK, NEW t \in Threads, EndRelease(t)
    PROVE  EdgesOK'
<1>1. At(t, "loop") /\ Return(t) /\ UNCHANGED <<owner, ts_ctx>>
  BY DEF EndRelease, sessVars
<1>2. stack[t] # <<>> /\ TypeOK
  BY <1>1, AtFacts
<1>3. UuidsStay
  <2>1. uuid' = uuid \/ (live' = live \ {Top(t).c} /\ uuid' = [uuid EXCEPT ![Top(t).c] = None])
    BY DEF EndRelease
  <2> QED
    BY <1>2, <2>1 DEF UuidsStay, TypeOK
<1>4. SessionsStay
  BY <1>1, QuietStays
<1> QED
  BY <1>1, <1>2, <1>3, <1>4, EdgesReturn

\* The session leads from its owner to its TA.
LEMMA LockedEdges ==
    ASSUME IInv, IInv', EdgesOK, NEW t \in Threads, stack[t] # <<>>, Top(t).pc \in {"get", "lock"},
           Top(t).op \in {"invoke", "close"}, owner[Top(t).s] = Top(t).list, Replace(t, Locked(Top(t))),
           UNCHANGED <<owner, ts_ctx, uuid>>
    PROVE  EdgesOK'
<1>z. PICK z : z = TopAt(t)
  OBVIOUS
<1>f. PICK f : f = Top(t)
  OBVIOUS
<1>g. PICK g : g = Locked(f)
  OBVIOUS
<1>1. TypeOK /\ z \in Places /\ fr[z] = f
  BY <1>z, <1>f, TopFacts DEF IInv
<1>2. f \in Frame /\ Shape(f)
  BY <1>1, InvFacts
<1>3. f.s \in Sessions /\ owner[f.s] # None /\ ts_ctx[f.s] \in Ctxs /\ owner[f.s] = f.list
  BY <1>1, <1>f, LockedFacts
<1>4. g \in Frame /\ g.op = f.op /\ g.list = f.list /\ g.c = ts_ctx[f.s]
  BY <1>f, <1>g, <1>2, <1>3, LockedFrame
<1>5. f.list \in Ctxs => <<uuid[f.list], uuid[g.c]>> \in CallGraph
  BY <1>3, <1>4, NoneOK DEF EdgesOK, SessionEdge, Edge
<1>6. fr'[z] = g => CallEdge(z)'
  BY <1>f, <1>4, <1>5 DEF CallEdge, Edge
<1>7. UuidsStay /\ Replace(t, g)
  BY <1>f, <1>g, UuidSame
<1> QED
  BY <1>z, <1>4, <1>6, <1>7, EdgesReplace

LEMMA GetEdges ==
    ASSUME IInv, IInv', EdgesOK, NEW t \in Threads, Step(t), Get(t) \/ Lock(t)
    PROVE  EdgesOK'
<1>1. stack[t] # <<>> /\ Top(t) \in Frame /\ Shape(Top(t))
  BY StepFacts
<1>2. UNCHANGED <<owner, ts_ctx, uuid>> /\ Top(t).pc \in {"get", "lock"}
  BY DEF Get, Lock, ctxVars, At
<1>3. SessionsStay /\ UuidsStay
  BY <1>2, QuietStays, UuidSame
<1>4. CASE GoesOn(t)
  BY <1>1, <1>3, <1>4, EdgesGoOn
<1>5. CASE Get(t) /\ ~GoesOn(t)
  <2>1. Goto(t, "put") => GoesOn(t)
    BY <1>1, PcsFacts, GoesTo
  <2>2. Goto(t, "lock") => GoesOn(t)
    BY <1>1, PcsFacts, GoesTo
  <2>3. Replace(t, Locked(Top(t))) /\ Top(t).op # "cancel" /\ owner[Top(t).s] = Top(t).list
    BY <1>5, <2>1, <2>2 DEF Get
  <2>4. Top(t).op \in {"invoke", "close"}
    BY <1>1, <1>2, <2>3 DEF Shape, Frame
  <2> QED
    BY <1>1, <1>2, <2>3, <2>4, LockedEdges
<1>6. CASE Lock(t) /\ ~GoesOn(t)
  <2>1. Replace(t, Locked(Top(t))) /\ Top(t).pc = "lock"
    BY <1>6 DEF Lock, GoesOn, At
  <2>2. Top(t).op \in {"invoke", "close"} /\ Top(t).s # None
    BY <1>1, <2>1 DEF Shape, Frame
  <2>3. UsesSession(Top(t))
    BY <2>1, <2>2 DEF UsesSession
  <2>4. owner[Top(t).s] = Top(t).list
    <3>1. TopAt(t) \in Places /\ fr[TopAt(t)] = Top(t)
      BY <1>1, TopFacts DEF IInv
    <3> QED
      BY <2>3, <3>1, InvFacts DEF SessionOK
  <2> QED
    BY <1>1, <1>2, <2>1, <2>2, <2>4, LockedEdges
<1> QED
  BY <1>4, <1>5, <1>6

\* A session that is opened leads from the caller to the TA asked for.
LEMMA LookedEdges ==
    ASSUME IInv, IInv', EdgesOK, UuidsStay, NEW t \in Threads, stack[t] # <<>>, NEW f, NEW s, Looking(t, f, s),
           NEW c, NEW g, Led(f, g, c), Replace(t, g), ts_ctx' = [ts_ctx EXCEPT ![s] = c],
           c # None => uuid'[c] = f.u
    PROVE  EdgesOK'
<1>z. PICK z : z = TopAt(t)
  OBVIOUS
<1>1. TypeOK /\ z \in Places /\ fr[z] = Top(t) /\ LiveOK /\ LiveOK'
  BY <1>z, TopFacts DEF IInv
<1>2. /\ g \in Frame /\ g.op = "open" /\ g.list = f.list /\ g.u = f.u /\ g.c = c
      /\ f.list = Top(t).list /\ f.u = Top(t).u /\ Top(t).op = "open" /\ s \in Sessions
  BY DEF Looking, Led
<1>3. f.list \in Ctxs => <<uuid[f.list], f.u>> \in CallGraph /\ f.list \in live
  BY <1>1, <1>2, NsecOK DEF EdgesOK, CallEdge, LiveOK
<1>4. owner'[s] = f.list /\ \A r \in Sessions \ {s} : owner'[r] = owner[r] /\ ts_ctx'[r] = ts_ctx[r]
  <2>1. CASE Top(t).pc = "find" /\ Top(t).s = s /\ owner' = owner
    <3>1. UsesSession(fr[z])
      BY <1>1, <1>2, <2>1, NoneOK DEF UsesSession
    <3>2. owner[s] = f.list
      BY <1>1, <1>2, <2>1, <3>1, InvFacts DEF SessionOK
    <3> QED
      BY <1>1, <2>1, <3>2 DEF TypeOK
  <2>2. CASE owner' = [owner EXCEPT ![s] = Top(t).list]
    BY <1>1, <1>2, <2>2 DEF TypeOK
  <2> QED
    BY <2>1, <2>2 DEF Looking
<1>5. f.list \in Ctxs => <<uuid'[f.list], f.u>> \in CallGraph
  <2>1. f.list \in Ctxs => f.list \in live'
    BY <1>1, <1>2, <1>4, NsecOK, NoneOK DEF LiveOK
  <2> QED
    BY <1>3, <2>1 DEF UuidsStay
<1>6. fr'[z] = g => CallEdge(z)'
  BY <1>2, <1>5 DEF CallEdge, Edge
<1>7. ts_ctx'[s] = c
  BY <1>1, <1>2 DEF TypeOK
<1>8. SessionEdge(s)'
  BY <1>4, <1>5, <1>7 DEF SessionEdge, Edge
<1>9. \A r \in Sessions : SessionEdge(r)' \/ (owner'[r] \in {owner[r], None} /\ ts_ctx'[r] \in {ts_ctx[r], None})
  BY <1>4, <1>8
<1> QED
  BY <1>z, <1>2, <1>6, <1>9, EdgesReplace

LEMMA LookUpEdges ==
    ASSUME IInv, IInv', EdgesOK, NEW t \in Threads, stack[t] # <<>>, NEW f, NEW s, Looking(t, f, s), LookUp(t, f)
    PROVE  EdgesOK'
<1>1. f \in Frame /\ f.op = "open" /\ f.c = None /\ f.s = s /\ f.u \in Uuids /\ s \in Sessions /\ ts_ctx[s] = None
  BY DEF Looking
<1>t. TypeOK
  BY DEF IInv
<1>2. ASSUME NEW to \in {"find", "fail"}, Replace(t, [f EXCEPT !.pc = to]), UNCHANGED <<ctxVars, ts_ctx>>
      PROVE  EdgesOK'
  <2>1. PICK g : g = [f EXCEPT !.pc = to]
    OBVIOUS
  <2>2. to \in Pcs
    BY <1>2, PcsFacts
  <2>3. Onward(f, g, to, f.s, f.c, f.ok)
    BY ONLY <1>1, <2>1, <2>2, FramePc
  <2>4. Led(f, g, None)
    BY <1>1, <1>2, <2>3 DEF Led, Onward
  <2>5. ts_ctx' = [ts_ctx EXCEPT ![s] = None] /\ UuidsStay
    BY <1>t, <1>1, <1>2 DEF TypeOK, UuidsStay, ctxVars
  <2> QED
    BY <1>2, <2>1, <2>4, <2>5, LookedEdges
<1>3. CASE AwaitInit(t, f)
  BY <1>2, <1>3 DEF AwaitInit
<1>4. CASE Refuse(t, f)
  BY <1>2, <1>4 DEF Refuse
<1>5. ASSUME NEW c \in Ctxs, NEW to \in {"busy", "load"}, NEW g, g = [f EXCEPT !.c = c, !.pc = to]
      PROVE  Led(f, g, c)
  <2>1. to \in Pcs /\ f \in Frame /\ c \in Ctxs \cup {None}
    BY <1>1, <1>5, PcsFacts
  <2>2. Onward(f, g, to, f.s, c, f.ok)
    BY ONLY <1>5, <2>1, FrameCPc
  <2>3. c # None
    BY <1>5, NoneOK
  <2> QED
    BY <1>1, <1>5, <2>2, <2>3 DEF Led, Onward
<1>6. CASE Join(t, f)
  <2>1. PICK c : c = Found(f.u)
    OBVIOUS
  <2>2. c # None /\ ts_ctx' = [ts_ctx EXCEPT ![s] = c] /\ uuid' = uuid
    BY <1>1, <1>6, <2>1 DEF Join, Shareable
  <2>3. PICK g : g = [f EXCEPT !.pc = "busy", !.c = c]
    OBVIOUS
  <2>4. Replace(t, g)
    BY <1>6, <2>1, <2>3 DEF Join
  <2>5. uuid[c] = f.u /\ c \in Ctxs
    BY <1>1, <1>t, <2>1, <2>2, FoundFacts
  <2>6. "busy" \in Pcs /\ c \in Ctxs \cup {None} /\ f \in Frame
    BY <1>1, <2>5, PcsFacts
  <2>7. Onward(f, g, "busy", f.s, c, f.ok)
    BY ONLY <2>3, <2>6, FramePcC
  <2>8. Led(f, g, c)
    BY <1>1, <2>2, <2>7 DEF Led, Onward
  <2> QED
    BY <2>2, <2>4, <2>5, <2>8, UuidSame, LookedEdges
<1>7. CASE Create(t, f)
  <2>1. CASE Replace(t, [f EXCEPT !.pc = "fail"]) /\ UNCHANGED <<ctxVars, ts_ctx>>
    BY <1>2, <2>1
  <2>2. ASSUME NEW c \in Ctxs \ live, uuid' = [uuid EXCEPT ![c] = f.u], ts_ctx' = [ts_ctx EXCEPT ![f.s] = c],
               Replace(t, [f EXCEPT !.c = c, !.pc = IF f.u \in Pseudo THEN "busy" ELSE "load"])
        PROVE  EdgesOK'
    <3>1. PICK to \in {"busy", "load"} : to = IF f.u \in Pseudo THEN "busy" ELSE "load"
      OBVIOUS
    <3>2. PICK g : g = [f EXCEPT !.c = c, !.pc = to]
      OBVIOUS
    <3>3. Led(f, g, c) /\ Replace(t, g)
      BY <1>5, <2>2, <3>1, <3>2
    <3>4. UuidsStay /\ uuid'[c] = f.u
      BY <1>t, <2>2 DEF UuidsStay, TypeOK
    <3> QED
      BY <1>1, <2>2, <3>3, <3>4, LookedEdges
  <2> QED
    BY <1>7, <2>1, <2>2 DEF Create
<1> QED
  BY <1>3, <1>4, <1>6, <1>7 DEF LookUp

LEMMA OpenEdges ==
    ASSUME IInv, IInv', EdgesOK, NEW t \in Threads, Step(t), OpenInit(t) \/ OpenFind(t)
    PROVE  EdgesOK'
<1>1. stack[t] # <<>>
  BY StepFacts
<1>2. PICK f, s : Looking(t, f, s) /\ LookUp(t, f)
  BY InitLooks, FindLooks
<1> QED
  BY <1>1, <1>2, LookUpEdges

LEMMA DestroyEdges ==
    ASSUME IInv, IInv', EdgesOK, NEW t \in Threads, DestroyCtx(t)
    PROVE  EdgesOK'
<1>z. PICK z : z = TopAt(t)
  OBVIOUS
<1>c. PICK c : c = Top(t).c
  OBVIOUS
<1>1. At(t, "destroy") /\ UNCHANGED <<owner, ts_ctx, uuid>>
  BY DEF DestroyCtx, ctxVars, sessVars
<1>2. /\ Top(t).op = "close" /\ stack[t] # <<>> /\ z \in Places /\ fr[z] = Top(t) /\ c \in Ctxs
  BY <1>z, <1>c, <1>1, DestroyFacts
<1>3. PICK g : g = [op |-> "destroy", pc |-> "loop", list |-> c, u |-> None, s |-> None, c |-> c, ok |-> TRUE]
  OBVIOUS
<1>4. /\ g \in Frame /\ g.op = "destroy" /\ g.c = c
  BY <1>2, <1>3 DEF Frame
<1>5. Replace(t, g)
  BY <1>c, <1>3 DEF DestroyCtx
<1>6. ASSUME z[2] > 1 PROVE <<uuid[fr[Under(z)].c], uuid[c]>> \in CallGraph
  <2>1. Over(fr[z], fr[Under(z)]) /\ fr[z].list # Nsec
    BY <1>2, <1>6 DEF IInv, Nested
  <2>2. fr[z].list = fr[Under(z)].c
    BY <1>2, <2>1 DEF Over
  <2>3. fr[z] \in Frame /\ Shape(fr[z])
    BY <1>2, InvFacts
  <2>4. fr[z].list \in Ctxs
    BY <2>1, <2>3 DEF Shape, Frame
  <2>5. <<uuid[fr[z].list], uuid[c]>> \in CallGraph
    BY <1>c, <1>2, <2>4, NoneOK DEF EdgesOK, CallEdge, Edge
  <2> QED
    BY <2>2, <2>5
<1>7. fr'[z] = g /\ (z[2] > 1 => fr'[Under(z)] = fr[Under(z)]) => CallEdge(z)'
  BY <1>1, <1>4, <1>6 DEF CallEdge, Edge, Under
<1>8. UuidsStay
  BY <1>1, UuidSame
<1> QED
  BY <1>z, <1>1, <1>2, <1>4, <1>5, <1>7, <1>8, EdgesReplace

LEMMA ReleaseEdges ==
    ASSUME IInv, IInv', EdgesOK, NEW t \in Threads, ReleaseCtx(t)
    PROVE  EdgesOK'
<1>z. PICK z, y : z = TopAt(t) /\ y = NewAt(t)
  OBVIOUS
<1>c. PICK c : c = Top(t).c
  OBVIOUS
<1>1. At(t, "rel") /\ UNCHANGED <<owner, ts_ctx, uuid>>
  BY DEF ReleaseCtx, sessVars
<1>2. /\ stack[t] # <<>> /\ z \in Places /\ fr[z] = Top(t) /\ TypeOK /\ Top(t) \in Frame /\ Shape(Top(t))
      /\ Top(t).pc = "rel"
  BY <1>z, <1>1, AtFacts
<1>3. Top(t).op \in {"open", "invoke"} /\ c \in Ctxs
  BY <1>c, <1>2 DEF Shape, Frame
<1>4. PICK f : f = [Top(t) EXCEPT !.ok = FALSE, !.pc = "clear"]
  OBVIOUS
<1>5. "clear" \in Pcs /\ FALSE \in BOOLEAN
  BY PcsFacts
<1>6. Onward(Top(t), f, "clear", Top(t).s, Top(t).c, FALSE)
  BY <1>2, <1>4, <1>5, FrameOkPc
<1>7. SessionsStay /\ UuidsStay
  BY <1>1, QuietStays, UuidSame
<1>8. CASE Replace(t, f)
  <2>1. Continues(Top(t), f)
    BY <1>6 DEF Onward, Continues
  <2> QED
    BY <1>2, <1>7, <1>8, <2>1, EdgesContinue
<1>9. CASE ~Replace(t, f)
  <2>1. PICK g : g = [op |-> "release", pc |-> "loop", list |-> c, u |-> None, s |-> None, c |-> c, ok |-> TRUE]
    OBVIOUS
  <2>2. g \in Frame /\ g.op = "release"
    BY <1>3, <2>1 DEF Frame
  <2>3. stack' = [stack EXCEPT ![t] = Append(Append(Front(@), f), g)]
    BY <1>c, <1>4, <1>9, <2>1 DEF ReleaseCtx
  <2>4. Grown(z, f, y, g)
    BY <1>z, <1>2, <1>6, <2>2, <2>3, ReleaseStep DEF Onward
  <2>5. ChangedIn({z, y}) /\ y \notin Places /\ fr'[z] = f /\ fr'[y] = g
    BY <2>4, ChangedOne DEF Grown
  <2>6. \A p \in Places \ {z, y} : p[2] > 1 => Under(p) \in Places \ {z, y}
    BY <1>z, <1>2, <2>5, TopFacts, UnderFacts
  <2>7. CallEdge(y)'
    BY <2>2, <2>5 DEF CallEdge
  <2>8. CallEdge(z)'
    <3>1. CallEdge(z)
      BY <1>2 DEF EdgesOK
    <3>2. f.op = fr[z].op /\ f.list = fr[z].list /\ f.u = fr[z].u /\ f.c = fr[z].c /\ f.op # "destroy"
      BY <1>2, <1>3, <1>6 DEF Onward
    <3> QED
      BY <1>1, <2>5, <3>1, <3>2 DEF CallEdge, Edge
  <2>9. \A x \in {z, y} : x \in Places' => CallEdge(x)'
    BY <2>7, <2>8
  <2> QED
    BY <1>7, <2>5, <2>6, <2>9, EdgesStep DEF SessionsStay
<1> QED
  BY <1>8, <1>9

LEMMA CloseOneEdges ==
    ASSUME IInv, IInv', EdgesOK, NEW t \in Threads, CloseOne(t)
    PROVE  EdgesOK'
<1>1. UNCHANGED <<owner, ts_ctx, uuid>>
  BY DEF CloseOne, ctxVars
<1>c. PICK c, z : c = Top(t).c /\ z = TopAt(t)
  OBVIOUS
<1>2. PICK s \in Sessions :
        Push(t, [op |-> "close", pc |-> "get", list |-> c, u |-> None, s |-> s, c |-> None, ok |-> FALSE])
  BY <1>c DEF CloseOne, LeftOpen, SessionsOf
<1>3. c \in Ctxs
  BY <1>c, LoopFacts DEF CloseOne
<1>4. PICK g : g = [op |-> "close", pc |-> "get", list |-> c, u |-> None, s |-> s, c |-> None, ok |-> FALSE]
  OBVIOUS
<1>5. g \in Frame /\ g.op = "close" /\ g.c = None
  BY <1>3, <1>4 DEF Frame
<1>6. SessionsStay /\ UuidsStay
  BY <1>1, QuietStays, UuidSame
<1> QED
  BY <1>2, <1>4, <1>5, <1>6, EdgesPush

LEMMA RequestEdges ==
    ASSUME IInv, IInv', EdgesOK, NEW t \in Threads, NEW g \in Frame, Request(t, g), UNCHANGED <<owner, ts_ctx>>,
           g.op \notin {"release", "destroy"}, g.c = None,
           g.op = "open" /\ g.list \in Ctxs => <<uuid[g.list], g.u>> \in CallGraph
    PROVE  EdgesOK'
<1>1. Push(t, g) /\ uuid' = uuid
  BY DEF Request, ctxVars
<1>2. SessionsStay /\ UuidsStay
  BY <1>1, QuietStays, UuidSame
<1> QED
  BY <1>1, <1>2, EdgesPush

LEMMA StepEdges ==
    ASSUME IInv, IInv', EdgesOK, NEW t \in Threads, Step(t)
    PROVE  EdgesOK'
<1>1. CASE OpenInit(t) \/ OpenFind(t)
  BY <1>1, OpenEdges
<1>2. CASE Load(t)
  BY <1>2, LoadEdges
<1>3. CASE OpenFail(t)
  BY <1>3, OpenFailEdges
<1>4. CASE Plain(t)
  BY <1>4, PlainGoesOn, StepFacts, EdgesGoOn
<1>5. CASE ReleaseCtx(t)
  BY <1>5, ReleaseEdges
<1>6. CASE Get(t) \/ Lock(t)
  BY <1>6, GetEdges
<1>7. CASE Unlink(t) \/ Drain(t)
  BY <1>7, UnlinkEdges
<1>8. CASE DestroyCtx(t)
  BY <1>8, DestroyEdges
<1>9. CASE CloseOne(t)
  BY <1>9, CloseOneEdges
<1>10. CASE EndRelease(t)
  BY <1>10, EndEdges
<1> QED
  BY <1>1, <1>2, <1>3, <1>4, <1>5, <1>6, <1>7, <1>8, <1>9, <1>10 DEF Step, Plain

LEMMA NextEdges ==
    ASSUME IInv, IInv', EdgesOK, [Next]_vars
    PROVE  EdgesOK'
<1>t. TypeOK
  BY DEF IInv
<1>1. CASE UNCHANGED vars
  <2>1. uuid' = uuid /\ stack' = stack /\ UNCHANGED <<owner, ts_ctx>>
    BY <1>1 DEF vars, ctxVars, sessVars
  <2> QED
    BY <2>1, EdgesSame, QuietStays, UuidSame
<1>2. CASE AllAnswered
  BY <1>1, <1>2 DEF AllAnswered
<1>3. ASSUME NEW t \in Threads, Step(t)
      PROVE  EdgesOK'
  BY <1>3, StepEdges
<1>4. ASSUME NEW t \in Threads, NEW l \in Ctxs \cup {Nsec}, NEW u \in Uuids, CallOpen(t, l, u)
      PROVE  EdgesOK'
  <2>1. PICK g : g = [op |-> "open", pc |-> "init", list |-> l, u |-> u, s |-> None, c |-> None, ok |-> TRUE]
    OBVIOUS
  <2>2. Request(t, g) /\ UNCHANGED <<owner, ts_ctx>> /\ (l # Nsec => <<uuid[l], u>> \in CallGraph)
    BY <1>4, <2>1 DEF CallOpen, sessVars
  <2>3. g \in Frame /\ g.op = "open" /\ g.c = None /\ g.list = l /\ g.u = u
    BY <2>1 DEF Frame
  <2>4. g.list \in Ctxs => <<uuid[g.list], g.u>> \in CallGraph
    BY <2>2, <2>3, NsecOK
  <2> QED
    BY <2>2, <2>3, <2>4, RequestEdges
<1>5. ASSUME NEW t \in Threads, NEW s \in Sessions, NEW op \in {"invoke", "cancel"},
             CallSession(t, owner[s], s, op)
      PROVE  EdgesOK'
  <2>1. PICK g : g = [op |-> op, pc |-> "get", list |-> owner[s], u |-> None, s |-> s, c |-> None, ok |-> TRUE]
    OBVIOUS
  <2>2. Request(t, g) /\ UNCHANGED <<owner, ts_ctx>>
    BY <1>5, <2>1 DEF CallSession, sessVars
  <2>3. g \in Frame /\ g.op = op /\ g.c = None
    BY <1>t, <2>1 DEF Frame, TypeOK
  <2> QED
    BY <2>2, <2>3, RequestEdges
<1>6. ASSUME NEW t \in Threads, NEW s \in Sessions, CallClose(t, owner[s], s)
      PROVE  EdgesOK'
  <2>1. PICK g : g = [op |-> "close", pc |-> "get", list |-> owner[s], u |-> None, s |-> s, c |-> None, ok |-> FALSE]
    OBVIOUS
  <2>2. Request(t, g) /\ UNCHANGED <<owner, ts_ctx>>
    BY <1>6, <2>1 DEF CallClose
  <2>3. g \in Frame /\ g.op = "close" /\ g.c = None
    BY <1>t, <2>1 DEF Frame, TypeOK
  <2> QED
    BY <2>2, <2>3, RequestEdges
<1> QED
  BY <1>1, <1>2, <1>3, <1>4, <1>5, <1>6 DEF Next

LEMMA InitEdges ==
    Init => EdgesOK
<1> SUFFICES ASSUME Init PROVE EdgesOK
  OBVIOUS
<1>1. TypeOK
  BY InitInv DEF IInv
<1>2. Places = {}
  <2>1. \A p \in Places : p[1] \in Threads /\ p[2] \in Nat /\ p[2] > 0 /\ p[2] <= Len(stack[p[1]])
    BY <1>1, FrFacts
  <2>2. \A t \in Threads : Len(stack[t]) = 0
    BY DEF Init
  <2> QED
    BY <2>1, <2>2
<1> QED
  BY <1>2 DEF EdgesOK, SessionEdge, Init

\* Every call in progress and every open session follows the call graph.
THEOREM EdgesAlways == Spec => [](IInv /\ EdgesOK)
<1>1. Init => IInv /\ EdgesOK
  BY InitInv, InitEdges
<1>2. IInv /\ EdgesOK /\ [Next]_vars => (IInv /\ EdgesOK)'
  BY Inductive, NextEdges
<1> QED
  BY <1>1, <1>2, PTL DEF Spec

-----------------------------------------------------------------------------
(* No panic()                                                              *)

\* The TAs can be ranked so that a call never goes up, and goes down when it
\* is to a TA with one instance for all its sessions.
Ranks(rank) ==
    \A u, v \in Uuids : <<u, v>> \in CallGraph =>
        /\ rank[v] <= rank[u]
        /\ {"single", "multi"} \subseteq Flags[v] => rank[v] < rank[u]

\* No chain of calls comes back to a TA that has one instance for all its
\* sessions.
NoCallback == \E rank \in [Uuids -> Nat] : Ranks(rank)

LEMMA LiveRanks ==
    ASSUME IInv, NEW rank \in [Uuids -> Nat]
    PROVE  /\ \A c \in live : uuid[c] \in Uuids /\ rank[uuid[c]] \in Nat
           /\ \A p \in Places : /\ fr[p].c # None => fr[p].c \in live
                                /\ fr[p].list \in Ctxs => fr[p].list \in live
BY NsecOK DEF IInv, LiveOK

\* A call does not go up.
LEMMA CallRanks ==
    ASSUME IInv, EdgesOK, NEW rank \in [Uuids -> Nat], Ranks(rank), NEW p \in Places,
           fr[p].list \in Ctxs, fr[p].c # None
    PROVE  rank[uuid[fr[p].c]] <= rank[uuid[fr[p].list]]
<1>1. PICK f : f = fr[p]
  OBVIOUS
<1>2. f.c \in live /\ f.list \in live /\ Shape(f)
  BY <1>1, LiveRanks, InvFacts
<1>3. uuid[f.c] \in Uuids /\ uuid[f.list] \in Uuids /\ rank[uuid[f.c]] \in Nat /\ rank[uuid[f.list]] \in Nat
  BY <1>2, LiveRanks
<1>4. CASE f.op \in {"release", "destroy"}
  BY <1>1, <1>2, <1>3, <1>4 DEF Shape
<1>5. CASE f.op \notin {"release", "destroy"}
  <2>1. <<uuid[f.list], uuid[f.c]>> \in CallGraph
    BY <1>1, <1>5 DEF EdgesOK, CallEdge, Edge
  <2> QED
    BY <1>1, <1>3, <2>1 DEF Ranks
<1> QED
  BY <1>4, <1>5

\* Nor does the call that is made from it.
LEMMA OverRanks ==
    ASSUME IInv, EdgesOK, NEW rank \in [Uuids -> Nat], Ranks(rank), NEW p \in Places, p[2] > 1
    PROVE  /\ Under(p) \in Places /\ fr[p].list \in live /\ fr[Under(p)].c \in live
           /\ rank[uuid[fr[p].list]] <= rank[uuid[fr[Under(p)].c]]
<1>1. PICK f, h : f = fr[p] /\ h = fr[Under(p)]
  OBVIOUS
<1>2. Under(p) \in Places /\ Over(f, h)
  BY <1>1, UnderFacts DEF IInv, Nested
<1>3. Shape(f) /\ Shape(h) /\ f \in Frame /\ h \in Frame
  BY <1>1, <1>2, InvFacts
<1>4. f.list \in Ctxs
  <2>1. p[2] \in Nat /\ f.list # Nsec /\ f.list # None
    BY <1>1, <1>3, FrFacts DEF IInv, Nested, Shape
  <2> QED
    BY <1>3, <2>1 DEF Frame
<1>5. h.c # None
  BY <1>2, <1>3 DEF Over, Shape, Frame
<1>6. f.list \in live /\ h.c \in live
  BY <1>1, <1>2, <1>4, <1>5, LiveRanks
<1>7. uuid[h.c] \in Uuids /\ uuid[f.list] \in Uuids /\ rank[uuid[h.c]] \in Nat /\ rank[uuid[f.list]] \in Nat
  BY <1>6, LiveRanks
<1>8. CASE f.op = "destroy"
  <2>1. f.list = f.c
    BY <1>3, <1>8 DEF Shape
  <2>2. <<uuid[h.c], uuid[f.c]>> \in CallGraph
    BY <1>1, <1>8 DEF EdgesOK, CallEdge, Edge
  <2>3. rank[uuid[f.list]] <= rank[uuid[h.c]]
    BY <1>7, <2>1, <2>2 DEF Ranks
  <2> QED
    BY <1>1, <1>2, <1>6, <2>3
<1>9. CASE f.op # "destroy"
  <2>1. f.list = h.c
    BY <1>2, <1>9 DEF Over
  <2> QED
    BY <1>1, <1>2, <1>6, <1>7, <2>1
<1> QED
  BY <1>8, <1>9

\* Nor does any call above it in the stack of its thread.
LEMMA StackRanks ==
    ASSUME IInv, EdgesOK, NEW rank \in [Uuids -> Nat], Ranks(rank),
           NEW t \in Threads, NEW i \in Nat, NEW j \in Nat, 0 < i, i < j, <<t, j>> \in Places, <<t, i>> \in Places
    PROVE  fr[<<t, i>>].c \in live /\ rank[uuid[fr[<<t, j>>].list]] <= rank[uuid[fr[<<t, i>>].c]]
<1>l. j <= Len(stack[t]) /\ Len(stack[t]) \in Nat
  BY FrFacts DEF IInv
<1>p. \A k \in 1 .. j : <<t, k>> \in Places
  BY <1>l, FrFacts DEF IInv
<1> DEFINE Lst(k) == fr[<<t, k>>].list
           Ctx(k) == fr[<<t, k>>].c
           R(c) == rank[uuid[c]]
<1>1. \A k \in 1 .. j : k > 1 => Lst(k) \in live /\ Ctx(k - 1) \in live /\ R(Lst(k)) <= R(Ctx(k - 1))
  <2> SUFFICES ASSUME NEW k \in 1 .. j, k > 1
               PROVE  Lst(k) \in live /\ Ctx(k - 1) \in live /\ R(Lst(k)) <= R(Ctx(k - 1))
    OBVIOUS
  <2>1. PICK p : p = <<t, k>>
    OBVIOUS
  <2>2. p \in Places /\ p[2] > 1 /\ Under(p) = <<t, k - 1>>
    BY <1>p, <2>1 DEF Under
  <2> QED
    BY <2>1, <2>2, OverRanks
<1>2. \A k \in 1 .. j : k > 1 /\ Ctx(k) # None => R(Ctx(k)) <= R(Lst(k))
  <2> SUFFICES ASSUME NEW k \in 1 .. j, k > 1, Ctx(k) # None
               PROVE  R(Ctx(k)) <= R(Lst(k))
    OBVIOUS
  <2>1. Lst(k) \in Ctxs
    BY <1>1 DEF IInv, TypeOK
  <2> QED
    BY <1>p, <2>1, CallRanks
<1>3. \A c \in live : R(c) \in Nat
  BY LiveRanks
<1>4. None \notin live
  BY NoneOK DEF IInv, TypeOK
<1>5. i + 1 \in 1 .. j /\ i + 1 > 1 /\ (i + 1) - 1 = i
  OBVIOUS
<1>6. Ctx(i) \in live
  BY <1>1, <1>5
<1> HIDE DEF Lst, Ctx, R
<1> DEFINE S == {k \in Nat : i < k /\ k <= j /\ ~(R(Lst(k)) <= R(Ctx(i)))}
<1>7. S = {}
  <2> SUFFICES ASSUME S # {} PROVE FALSE
    OBVIOUS
  <2>1. PICK n \in S : \A m \in S : n <= m
    <3> HIDE DEF S
    <3>1. S \subseteq Nat
      BY DEF S
    <3> QED
      BY <3>1, Least
  <2>2. n \in Nat /\ i < n /\ n <= j /\ ~(R(Lst(n)) <= R(Ctx(i)))
    OBVIOUS
  <2>3. n # i + 1
    BY <1>1, <1>5, <2>2
  <2>4. n - 1 \in Nat /\ i < n - 1 /\ n - 1 <= j /\ n - 1 > 1 /\ n \in 1 .. j /\ n - 1 \in 1 .. j /\ n > 1 /\ ~(n <= n - 1)
    BY <2>2, <2>3
  <2>5. R(Lst(n - 1)) <= R(Ctx(i))
    BY <2>1, <2>4
  <2>6. Lst(n) \in live /\ Ctx(n - 1) \in live /\ R(Lst(n)) <= R(Ctx(n - 1))
    BY <1>1, <2>4
  <2>7. R(Ctx(n - 1)) <= R(Lst(n - 1)) /\ Lst(n - 1) \in live
    BY <1>1, <1>2, <1>4, <2>4, <2>6
  <2> QED
    BY <1>3, <1>6, <2>2, <2>5, <2>6, <2>7
<1>8. R(Lst(j)) <= R(Ctx(i))
  BY <1>7
<1> QED
  BY <1>6, <1>8 DEF R, Lst, Ctx

\* Two calls are not on one context when it takes one session.
LEMMA OneSession ==
    ASSUME IInv, NEW z \in Places, fr[z].pc = "busy", fr[z].op \in {"invoke", "close"},
           NEW p \in Places, Inside(fr[p], fr[z].c)
    PROVE  ref_count[fr[z].c] > 1
<1>1. PICK f, g, c : f = fr[z] /\ g = fr[p] /\ c = fr[z].c
  OBVIOUS
<1>2. Shape(f) /\ Shape(g) /\ f \in Frame /\ g \in Frame /\ SessionOK /\ UniqueOK /\ HasSession /\ CountExact
  BY <1>1, InvFacts
<1>3. c \in Ctxs /\ c # None /\ f.c = c /\ g.c = c
  BY <1>1, <1>2, NoneOK DEF Inside, Shape, Frame
<1>4. UsesSession(f) /\ Holder(f)
  BY <1>1, <1>2 DEF Shape, UsesSession, Holder
<1>5. f.s \in Sessions /\ ts_ctx[f.s] = c
  BY <1>1, <1>2, <1>3, <1>4 DEF SessionOK, HasSession
<1>6. p # z
  BY <1>1 DEF Inside
<1>7. ref_count[c] \in Nat /\ ref_count[c] # 0
  BY <1>2, <1>3, <1>5, CountFacts DEF IInv
<1>8. SUFFICES ASSUME ref_count[c] <= 1 PROVE FALSE
  BY <1>1, <1>7
<1>9. ~LeavesAt(p, c)
  BY <1>2, <1>3, <1>5, <1>8, CountFacts DEF IInv
<1>10. UsesSession(g) /\ (Opening(g) \/ Holder(g))
  <2>1. g.op \in {"open", "invoke", "close"} /\ g.s # None
    BY <1>1, <1>2, <1>3 DEF Inside, Shape, Frame
  <2>2. g.op = "close" => g.pc \notin {"clear", "unref", "destroy"}
    BY <1>1, <1>3, <1>9 DEF LeavesAt, ClosesLast, Inside
  <2>3. g.pc \in {"enter", "run", "rel", "clear", "unlink", "drain"}
    BY <1>1 DEF Inside
  <2> QED
    BY <2>1, <2>2, <2>3 DEF UsesSession, Opening, Holder
<1>11. g.s \in Sessions /\ ts_ctx[g.s] = c
  BY <1>1, <1>2, <1>3, <1>10 DEF SessionOK, HasSession
<1>12. g.s = f.s
  BY <1>2, <1>3, <1>5, <1>8, <1>11, CountFacts DEF IInv
<1> QED
  BY <1>1, <1>2, <1>4, <1>6, <1>10, <1>12 DEF UniqueOK

\* tee_ta_set_busy() does not find its own thread in the TA.
LEMMA SetBusyDoesNotPanic ==
    ASSUME IInv, EdgesOK, NoCallback, NEW t \in Threads, SetBusyPanics(t)
    PROVE  FALSE
<1>1. PICK z : z = TopAt(t)
  OBVIOUS
<1>2. PICK f, c : f = fr[z] /\ c = fr[z].c
  OBVIOUS
<1>3. stack[t] # <<>> /\ Top(t).pc = "busy" /\ Top(t).op # "open"
      /\ ~Concurrent(Top(t).c) /\ MustWaitOn(t, Top(t).c) = None /\ Top(t).c \in busy
  BY DEF SetBusyPanics, BusyRefused, At
<1>4. z \in Places /\ fr[z] = Top(t) /\ z[1] = t /\ z[2] = Len(stack[t]) /\ z = <<t, Len(stack[t])>>
  BY <1>1, <1>3, TopFacts DEF IInv, TopAt
<1>5. f.pc = "busy" /\ f.op # "open" /\ ~Concurrent(c) /\ MustWaitOn(t, c) = None /\ c \in busy
  BY <1>2, <1>3, <1>4
<1>6. Shape(f) /\ f \in Frame
  BY <1>2, <1>4, InvFacts
<1>7. f.op \in {"invoke", "close"} /\ c \in live /\ c \in Ctxs
  <2>1. f.op \in {"invoke", "close"} /\ f.c # None
    BY <1>5, <1>6 DEF Shape, Frame
  <2> QED
    BY <1>2, <1>4, <2>1 DEF IInv, LiveOK, TypeOK
<1>8. PICK p \in Places : Inside(fr[p], c)
  BY <1>5, <1>7 DEF IInv, InsideOK
<1>9. Single(c) /\ HasFlag(c, "multi")
  <2>1. ref_count[c] > 1 /\ ref_count[c] \in Nat
    BY <1>2, <1>4, <1>5, <1>7, <1>8, OneSession DEF IInv, TypeOK
  <2>2. InstanceRules
    BY DEF IInv
  <2> QED
    BY <1>7, <2>1, <2>2 DEF InstanceRules
<1>10. p[1] = t /\ p[2] < z[2] /\ p[2] \in Nat /\ p[2] > 0 /\ z[2] \in Nat /\ p = <<t, p[2]>>
  <2>1. p \in Insiders
    BY <1>5, <1>7, <1>8, <1>9 DEF Insiders
  <2>2. p[1] = si_thread
    BY <2>1 DEF IInv, LockCountOK
  <2>3. si_thread \in {t, None}
    <3>1. SingleCv # None
      BY NoneOK DEF Cvs
    <3> QED
      BY <1>5, <1>9, <3>1 DEF MustWaitOn
  <2>4. p[1] \in Threads /\ p[2] \in Nat /\ p[2] > 0 /\ p = <<p[1], p[2]>> /\ p[2] <= Len(stack[p[1]])
    BY FrFacts DEF IInv
  <2>5. p[1] = t
    BY <2>2, <2>3, <2>4, NoneOK
  <2>6. p # z
    BY <1>2, <1>5, <1>8 DEF Inside
  <2>7. Len(stack[t]) \in Nat
    BY FrFacts DEF IInv
  <2> QED
    BY <1>4, <2>4, <2>5, <2>6, <2>7
<1>11. f.list \in Ctxs
  <2>1. f.list # Nsec /\ f.list # None
    BY <1>2, <1>4, <1>6, <1>10 DEF IInv, Nested, Shape
  <2> QED
    BY <1>6, <2>1 DEF Frame
<1>12. PICK rank \in [Uuids -> Nat] : Ranks(rank)
  BY DEF NoCallback
<1>13. rank[uuid[c]] < rank[uuid[f.list]]
  <2>1. <<uuid[f.list], uuid[c]>> \in CallGraph
    <3>1. f.op \notin {"release", "destroy"} /\ f.c # None
      BY <1>2, <1>7, NoneOK
    <3> QED
      BY <1>2, <1>4, <1>11, <3>1 DEF EdgesOK, CallEdge, Edge
  <2>2. uuid[f.list] \in Uuids /\ uuid[c] \in Uuids
    BY <1>2, <1>4, <1>7, <1>11, LiveRanks
  <2>3. {"single", "multi"} \subseteq Flags[uuid[c]]
    BY <1>9 DEF Single, HasFlag
  <2> QED
    BY <1>12, <2>1, <2>2, <2>3 DEF Ranks
<1>14. rank[uuid[f.list]] <= rank[uuid[c]]
  <2>1. fr[p].c = c
    BY <1>8 DEF Inside
  <2>2. rank[uuid[fr[<<t, z[2]>>].list]] <= rank[uuid[fr[<<t, p[2]>>].c]]
    BY <1>4, <1>10, <1>12, StackRanks
  <2> QED
    BY <1>2, <1>4, <1>10, <2>1, <2>2
<1>15. rank[uuid[c]] \in Nat /\ rank[uuid[f.list]] \in Nat
  BY <1>2, <1>4, <1>7, <1>11, <1>12, LiveRanks
<1> QED
  BY <1>13, <1>14, <1>15

\* The core panics in one place only, tee_ta_set_busy(), which finds its own
\* thread in the TA: no other panic() and no assert() of tee_ta_manager.c is
\* reached, whatever the TAs call.
THEOREM OnlySetBusyPanics ==
    Spec => [][~core_panic /\ core_panic' => \E t \in Threads : SetBusyPanics(t)]_vars
<1>1. IInv /\ [Next]_vars => [~core_panic /\ core_panic' => \E t \in Threads : SetBusyPanics(t)]_vars
  BY Inductive
<1> QED
  BY <1>1, InvAlways, PTL DEF Spec

\* And not there either, unless a chain of calls comes back to a TA that has
\* one instance for all its sessions (tee_ta_set_busy() with the
\* single-instance lock): then no panic() is reached, and no thread touches a
\* session or a context that was freed.
THEOREM NoCrashWithoutCallback ==
    ASSUME NoCallback
    PROVE  Spec => []NoCrash
<1>1. Init => IInv /\ EdgesOK /\ ~core_panic
  BY InitInv, InitEdges DEF Init
<1>2. IInv /\ EdgesOK /\ ~core_panic /\ [Next]_vars => (IInv /\ EdgesOK /\ ~core_panic)'
  <2> SUFFICES ASSUME IInv, EdgesOK, ~core_panic, [Next]_vars
               PROVE  IInv' /\ EdgesOK' /\ ~core_panic'
    OBVIOUS
  <2>1. IInv' /\ (core_panic' = core_panic \/ \E t \in Threads : SetBusyPanics(t))
    BY Inductive
  <2>2. EdgesOK'
    BY <2>1, NextEdges
  <2>3. \A t \in Threads : ~SetBusyPanics(t)
    BY SetBusyDoesNotPanic
  <2> QED
    BY <2>1, <2>2, <2>3
<1>3. NoUseAfterFree /\ ~core_panic => NoCrash
  BY DEF NoCrash, NoCorePanic
<1> QED
  BY <1>1, <1>2, <1>3, NothingFreedIsUsed, PTL DEF Spec
=============================================================================
