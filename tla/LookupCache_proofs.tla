------------------------- MODULE LookupCache_proofs -------------------------
(***************************************************************************)
(* What OnceWithKey promises and what a retry that rests on it is worth,   *)
(* for any number of callers and transactions and any two timeouts.        *)
(***************************************************************************)
EXTENDS LookupCache, TLAPS

\* The caller is in Do.
Inside(c) == pc[c] \in {"once", "running", "setError", "cleanup"}

\* A once belongs to one transaction: that of the callers that share it, and the one it is
\* stored under.
Shared ==
    /\ \A c \in Callers : IF Inside(c) THEN mine[c] \in Onces ELSE mine[c] = NoOnce
    /\ \A c, d \in Callers : Inside(c) /\ mine[c] = mine[d] => tx[c] = tx[d]
    /\ \A c \in Callers, t \in DOMAIN onces : mine[c] = onces[t] => tx[c] = t
    /\ \A t, u \in DOMAIN onces : onces[t] = onces[u] => t = u

\* One caller runs the action of a once.  Only then it is done, and only then it may have
\* an error.
Phases ==
    /\ \A c \in Callers :
         /\ pc[c] = "running" => once[mine[c]].phase = "running"
         /\ pc[c] \in {"setError", "cleanup"} => once[mine[c]].phase = "done"
    /\ \A c, d \in Callers : pc[c] = "running" /\ pc[d] = "running" /\ mine[c] = mine[d] => c = d
    /\ \A o \in Onces : /\ once[o].err => once[o].phase = "done"
                        /\ once[o].phase = "new" => once[o].answer = "none"

\* A once that is not done is the one in the map, or has been replaced because of its age.
InMapOrOld ==
    \A c \in Callers :
      Inside(c) /\ once[mine[c]].phase # "done" =>
        \/ tx[c] \in DOMAIN onces /\ onces[tx[c]] = mine[c]
        \/ once[mine[c]].age = SuccessTimeout

\* What the answer in a once says about the chain.
Truthful(o, t) ==
    /\ once[o].answer = "failed" => chain[t] = "failed"
    /\ once[o].answer = "notFound" => landed[t] <= once[o].age

Answers ==
    /\ \A t \in Txs : chain[t] = "pending" => landed[t] = 0
    /\ \A t \in DOMAIN onces : Truthful(onces[t], t)
    /\ \A c \in Callers : Inside(c) => Truthful(mine[c], tx[c])

\* What a caller makes of "notFound".
NotFound ==
    \A c \in Callers :
      /\ ~recent[c] => chain[tx[c]] # "pending"
      /\ Inside(c) /\ once[mine[c]].answer = "notFound" => recent[c]
      /\ pc[c] = "header" => recent[c] /\ said[c] = "nothing"
      /\ Inside(c) => said[c] = "nothing"

CInv == TypeOK /\ Shared /\ Phases /\ InMapOrOld /\ Answers /\ NotFound /\ RetryJustified

-----------------------------------------------------------------------------
LEMMA CInvInit == Init => CInv
<1> SUFFICES ASSUME Init PROVE CInv
  OBVIOUS
<1> USE CacheAssumption
<1>1. New \in Once
  BY DEF New, Once, Age
<1>2. TypeOK
  BY <1>1 DEF Init, TypeOK, Age
<1>3. Shared /\ Phases /\ InMapOrOld
  BY DEF Init, Shared, Phases, InMapOrOld, Inside, New
<1>4. Answers /\ NotFound /\ RetryJustified
  BY DEF Init, Answers, Truthful, NotFound, RetryJustified, Inside, New
<1> QED
  BY <1>2, <1>3, <1>4 DEF CInv

LEMMA Ages ==
    ASSUME TypeOK, NEW o \in Onces
    PROVE  once[o].age \in Age /\ once[o].age \in Nat /\ once[o].age <= SuccessTimeout
<1>1. once[o] \in Once
  BY DEF TypeOK
<1>2. once[o].age \in Age
  BY <1>1 DEF Once
<1> QED
  BY <1>2, CacheAssumption DEF Age

\* Time passes: a transaction that was not found has not been on the chain for longer than
\* the once is old.
LEMMA TickKeeps ==
    ASSUME CInv, Tick PROVE CInv'
<1> USE CacheAssumption DEF CInv, TypeOK
<1>1. \A n \in Age : Older(n) \in Age /\ (n = SuccessTimeout => Older(n) = SuccessTimeout)
  BY DEF Older, Age
<1>2. \A n, m \in Age : n <= m => Older(n) <= Older(m)
  BY DEF Older, Age
<1>3. \A o \in Onces :
        /\ once'[o] \in Once /\ once'[o].phase = once[o].phase /\ once'[o].err = once[o].err
        /\ once'[o].answer = once[o].answer /\ once'[o].age = Older(once[o].age)
  <2> SUFFICES ASSUME NEW o \in Onces
               PROVE  /\ once'[o] \in Once /\ once'[o].phase = once[o].phase /\ once'[o].err = once[o].err
                      /\ once'[o].answer = once[o].answer /\ once'[o].age = Older(once[o].age)
    OBVIOUS
  <2>1. once[o] \in Once /\ Older(once[o].age) \in Age
    BY <1>1 DEF Once
  <2>2. once'[o] = [once[o] EXCEPT !.age = Older(once[o].age)]
    BY DEF Tick
  <2> QED
    BY <2>1, <2>2 DEF Once
<1>4. \A t \in Txs : landed'[t] = IF chain[t] = "pending" THEN 0 ELSE Older(landed[t])
  BY DEF Tick
<1>5. TypeOK'
  <2>1. once' \in [Onces -> Once]
    BY <1>3 DEF Tick
  <2>2. landed' \in [Txs -> Age]
    BY <1>1 DEF Tick, Age
  <2> QED
    BY <2>1, <2>2 DEF Tick
<1>6. /\ chain' = chain /\ expired' = expired /\ onces' = onces /\ pc' = pc /\ tx' = tx
      /\ mine' = mine /\ said' = said /\ recent' = recent
  BY DEF Tick
<1>7. \A o \in Onces : once[o].age \in Age
  BY DEF Once
<1> USE <1>6 DEF Inside
<1>8. Shared'
  BY DEF Shared
<1>9. Phases'
  <2>1. \A o \in Onces : /\ once'[o].err => once'[o].phase = "done"
                         /\ once'[o].phase = "new" => once'[o].answer = "none"
    BY <1>3 DEF Phases
  <2>2. \A c \in Callers : Inside(c) => once'[mine[c]].phase = once[mine[c]].phase
    BY <1>3 DEF Shared
  <2> QED
    BY <2>1, <2>2 DEF Phases
<1>10. InMapOrOld'
  BY <1>1, <1>3, <1>7 DEF InMapOrOld, Shared
<1>11. ASSUME NEW o \in Onces, NEW t \in Txs, Truthful(o, t) PROVE Truthful(o, t)'
  <2>1. landed[t] \in Age /\ once[o].age \in Age /\ Older(once[o].age) \in Age
    BY <1>1, <1>7
  <2>2. once[o].answer = "notFound" => landed'[t] <= once'[o].age
    <3>1. CASE chain[t] = "pending"
      <4>1. landed'[t] = 0 /\ once'[o].age = Older(once[o].age)
        BY <1>3, <1>4, <3>1
      <4>2. 0 <= Older(once[o].age)
        BY <2>1 DEF Age
      <4> QED
        BY <4>1, <4>2
    <3>2. CASE chain[t] # "pending" /\ once[o].answer = "notFound"
      <4>1. Older(landed[t]) <= Older(once[o].age)
        BY <1>2, <1>11, <2>1, <3>2 DEF Truthful
      <4> QED
        BY <1>3, <1>4, <3>2, <4>1
    <3> QED
      BY <3>1, <3>2
  <2> QED
    BY <1>3, <1>11, <2>2 DEF Truthful
<1>12. Answers'
  BY <1>4, <1>11 DEF Answers, Shared
<1>13. NotFound' /\ RetryJustified'
  BY <1>3 DEF NotFound, RetryJustified, Shared
<1> QED
  BY <1>5, <1>8, <1>9, <1>10, <1>12, <1>13

LEMMA LandKeeps ==
    ASSUME CInv, NEW t \in Txs, Land(t) PROVE CInv'
<1> USE DEF CInv, TypeOK
<1>1. PICK s \in {"success", "failed"} : chain' = [chain EXCEPT ![t] = s]
  BY DEF Land
<1>2. TypeOK' /\ Shared' /\ Phases' /\ InMapOrOld'
  BY <1>1 DEF Land, Shared, Phases, InMapOrOld, Inside
<1>3. Answers'
  BY <1>1 DEF Land, Answers, Truthful, Inside
<1>4. NotFound' /\ RetryJustified'
  BY <1>1 DEF Land, NotFound, RetryJustified, Inside
<1> QED
  BY <1>2, <1>3, <1>4

LEMMA ExpireKeeps ==
    ASSUME CInv, NEW t \in Txs, Expire(t) PROVE CInv'
<1> USE DEF CInv, TypeOK
<1>1. TypeOK' /\ Shared' /\ Phases' /\ InMapOrOld'
  BY DEF Expire, Shared, Phases, InMapOrOld, Inside
<1>2. Answers' /\ NotFound' /\ RetryJustified'
  BY DEF Expire, Answers, Truthful, NotFound, RetryJustified, Inside
<1> QED
  BY <1>1, <1>2

-----------------------------------------------------------------------------
\* The node is asked: nobody else is running this once, and a "notFound" is true now.
LEMMA AskKeeps ==
    ASSUME CInv, NEW c \in Callers, Run(c) PROVE CInv'
<1> USE CacheAssumption DEF CInv, TypeOK
<1>1. PICK a \in {NodeSays(tx[c]), "error"} : Ask(c, a)
  BY DEF Run
<1>2. PICK m \in Onces : m = mine[c]
  BY <1>1 DEF Ask, Shared, Inside
<1>3. /\ a \in {"success", "failed", "notFound", "error"}
      /\ a = "failed" => chain[tx[c]] = "failed"
      /\ a = "notFound" => chain[tx[c]] = "pending"
  <2>1. chain[tx[c]] \in {"pending", "success", "failed"}
    OBVIOUS
  <2> QED
    BY <2>1 DEF NodeSays
<1>4. /\ chain' = chain /\ landed' = landed /\ expired' = expired /\ onces' = onces /\ tx' = tx
      /\ mine' = mine /\ said' = said /\ recent' = recent
      /\ pc[c] = "once" /\ pc' = [pc EXCEPT ![c] = "running"] /\ once[m].phase = "new"
  BY <1>1, <1>2 DEF Ask, chainVars
<1>5. once' = [once EXCEPT ![m].phase = "running", ![m].answer = a]
  BY <1>1, <1>2 DEF Ask
<1>6. /\ \A o \in Onces : o # m => once'[o] = once[o]
      /\ once'[m].phase = "running" /\ once'[m].answer = a
      /\ once'[m].age = once[m].age /\ once'[m].err = once[m].err
      /\ once' \in [Onces -> Once]
  <2>1. once[m] \in Once /\ once'[m] = [once[m] EXCEPT !.phase = "running", !.answer = a]
    BY <1>5
  <2>2. /\ once'[m].phase = "running" /\ once'[m].answer = a /\ once'[m] \in Once
        /\ once'[m].age = once[m].age /\ once'[m].err = once[m].err
    BY <1>3, <2>1 DEF Once
  <2>3. \A o \in Onces : o # m => once'[o] = once[o]
    BY <1>5
  <2>4. once' \in [Onces -> Once]
    BY <1>5, <2>2, <2>3
  <2> QED
    BY <2>2, <2>3, <2>4
<1>7. ~once[m].err
  BY <1>4 DEF Phases
<1>8. \A d \in Callers : /\ Inside(d)' <=> Inside(d)
                         /\ Inside(d) => mine[d] \in Onces
                         /\ pc'[d] = IF d = c THEN "running" ELSE pc[d]
  BY <1>4 DEF Inside, Shared
<1>9. TypeOK'
  BY <1>4, <1>6
<1>10. Shared'
  BY <1>4, <1>8 DEF Shared
<1>11. Phases'
  <2>1. \A d \in Callers : d # c /\ mine[d] = m => pc[d] \notin {"running", "setError", "cleanup"}
    BY <1>4 DEF Phases
  <2>2. \A o \in Onces : /\ once'[o].err => once'[o].phase = "done"
                         /\ once'[o].phase = "new" => once'[o].answer = "none"
    BY <1>6, <1>7 DEF Phases
  <2>3. ASSUME NEW d \in Callers
        PROVE  /\ pc'[d] = "running" => once'[mine[d]].phase = "running"
               /\ pc'[d] \in {"setError", "cleanup"} => once'[mine[d]].phase = "done"
    <3>1. CASE d = c
      BY <1>2, <1>6, <1>8, <3>1
    <3>2. CASE d # c
      BY <1>6, <1>8, <2>1, <3>2 DEF Phases, Inside
    <3> QED
      BY <3>1, <3>2
  <2>4. \A d, e \in Callers : pc'[d] = "running" /\ pc'[e] = "running" /\ mine[d] = mine[e] => d = e
    BY <1>2, <1>8, <2>1 DEF Phases
  <2> QED
    BY <1>4, <2>2, <2>3, <2>4 DEF Phases
<1>12. InMapOrOld'
  <2>1. \A d \in Callers : Inside(d) /\ once'[mine[d]].phase # "done" =>
          once[mine[d]].phase # "done" /\ once'[mine[d]].age = once[mine[d]].age
    BY <1>4, <1>6, <1>8
  <2> QED
    BY <1>4, <1>8, <2>1 DEF InMapOrOld
<1>13. Truthful(m, tx[c])'
  <2>1. a = "notFound" => landed[tx[c]] = 0
    BY <1>3 DEF Answers
  <2>2. TypeOK
    OBVIOUS
  <2>3. once[m].age \in Nat
    BY <2>2, Ages
  <2>4. a = "notFound" => landed[tx[c]] <= once[m].age
    BY <2>1, <2>3
  <2> QED
    BY <1>3, <1>4, <1>6, <2>4 DEF Truthful
<1>14. Answers'
  <2>1. ASSUME NEW o \in Onces, NEW t \in Txs, o # m, Truthful(o, t) PROVE Truthful(o, t)'
    BY <1>4, <1>6, <2>1 DEF Truthful
  <2>2. ASSUME NEW t \in DOMAIN onces PROVE Truthful(onces[t], t)'
    <3>1. CASE onces[t] = m
      BY <1>2, <1>4, <1>13, <3>1 DEF Shared
    <3>2. CASE onces[t] # m
      BY <1>4, <2>1, <3>2 DEF Answers
    <3> QED
      BY <3>1, <3>2
  <2>3. ASSUME NEW d \in Callers, Inside(d) PROVE Truthful(mine[d], tx[d])'
    <3>1. CASE mine[d] = m
      BY <1>2, <1>4, <1>13, <2>3, <3>1 DEF Shared
    <3>2. CASE mine[d] # m
      BY <1>4, <1>8, <2>1, <2>3, <3>2 DEF Answers
    <3> QED
      BY <3>1, <3>2
  <2> QED
    BY <1>4, <1>8, <2>2, <2>3 DEF Answers
<1>15. NotFound'
  <2>1. ASSUME NEW d \in Callers, Inside(d), once'[mine[d]].answer = "notFound" PROVE recent[d]
    <3>1. CASE mine[d] = m
      <4>1. tx[d] = tx[c]
        BY <1>2, <2>1, <3>1 DEF Shared
      <4>2. chain[tx[c]] = "pending"
        BY <1>3, <1>6, <2>1, <3>1
      <4> QED
        BY <4>1, <4>2 DEF NotFound
    <3>2. CASE mine[d] # m
      BY <1>6, <1>8, <2>1, <3>2 DEF NotFound
    <3> QED
      BY <3>1, <3>2
  <2> QED
    BY <1>4, <1>8, <2>1 DEF NotFound
<1>16. RetryJustified'
  BY <1>4 DEF RetryJustified
<1> QED
  BY <1>9, <1>10, <1>11, <1>12, <1>14, <1>15, <1>16

\* The once returns, or a caller records its error: its answer and age stay, and it is done.
LEMMA ReturnKeeps ==
    ASSUME CInv, NEW c \in Callers, Return(c) \/ SetError(c) PROVE CInv'
<1> USE CacheAssumption DEF CInv
<1>1. PICK m \in Onces : m = mine[c]
  BY DEF Return, SetError, Shared, Inside
<1>2. /\ chain' = chain /\ landed' = landed /\ expired' = expired /\ onces' = onces /\ tx' = tx
      /\ mine' = mine /\ said' = said /\ recent' = recent
  BY DEF Return, SetError, chainVars
<1>3. /\ pc[c] \in {"once", "running", "setError"} /\ pc'[c] \in {"setError", "cleanup"}
      /\ pc[c] # "running" => once[m].phase = "done"
      /\ \A d \in Callers : d # c => pc'[d] = pc[d]
      /\ pc' \in [Callers -> {"idle", "once", "running", "setError", "cleanup", "header"}]
  BY <1>1 DEF Return, SetError, TypeOK, Phases
<1>4. /\ \A o \in Onces : o # m => once'[o] = once[o]
      /\ once'[m].phase = "done" /\ once'[m].answer = once[m].answer
      /\ once'[m].age = once[m].age /\ once' \in [Onces -> Once]
  <2>1. once[m] \in Once /\ once \in [Onces -> Once]
    BY DEF TypeOK
  <2>2. CASE Return(c)
    <3>1. once' = [once EXCEPT ![m] = [once[m] EXCEPT !.phase = "done"]]
      BY <1>1, <2>2 DEF Return
    <3> QED
      BY <2>1, <3>1 DEF Once
  <2>3. CASE SetError(c)
    <3>1. once' = [once EXCEPT ![m] = [once[m] EXCEPT !.err = TRUE]] /\ once[m].phase = "done"
      BY <1>1, <2>3 DEF SetError, Phases
    <3> QED
      BY <2>1, <3>1 DEF Once
  <2> QED
    BY <2>2, <2>3
<1>5. \A d \in Callers : (Inside(d)' <=> Inside(d)) /\ (Inside(d) => mine[d] \in Onces)
  BY <1>3 DEF Inside, Shared
<1>6. \A o \in Onces : once'[o].answer = once[o].answer /\ once'[o].age = once[o].age
  BY <1>4
<1>7. TypeOK'
  BY <1>2, <1>3, <1>4 DEF TypeOK
<1>8. Shared'
  BY <1>2, <1>5 DEF Shared
<1>9. Phases'
  <2>1. \A d \in Callers : d # c /\ mine[d] = m => pc[d] # "running"
    BY <1>1, <1>3 DEF Phases
  <2>2. \A o \in Onces : /\ once'[o].err => once'[o].phase = "done"
                         /\ once'[o].phase = "new" => once'[o].answer = "none"
    BY <1>4 DEF Phases
  <2>3. ASSUME NEW d \in Callers
        PROVE  /\ pc'[d] = "running" => once'[mine[d]].phase = "running"
               /\ pc'[d] \in {"setError", "cleanup"} => once'[mine[d]].phase = "done"
    <3>1. CASE d = c
      BY <1>1, <1>3, <1>4, <3>1
    <3>2. CASE d # c
      BY <1>3, <1>4, <1>5, <2>1, <3>2 DEF Phases, Inside
    <3> QED
      BY <3>1, <3>2
  <2>4. \A d, e \in Callers : pc'[d] = "running" /\ pc'[e] = "running" /\ mine[d] = mine[e] => d = e
    BY <1>3 DEF Phases
  <2> QED
    BY <1>2, <2>2, <2>3, <2>4 DEF Phases
<1>10. InMapOrOld'
  <2>1. \A d \in Callers : Inside(d) /\ once'[mine[d]].phase # "done" =>
          once[mine[d]].phase # "done" /\ once'[mine[d]].age = once[mine[d]].age
    BY <1>4, <1>5
  <2> QED
    BY <1>2, <1>5, <2>1 DEF InMapOrOld
<1>11. Answers'
  <2>1. \A o \in Onces, t \in Txs : Truthful(o, t) => Truthful(o, t)'
    BY <1>2, <1>6 DEF Truthful
  <2> QED
    BY <1>2, <1>5, <2>1 DEF Answers, TypeOK
<1>12. NotFound'
  <2>1. /\ pc'[c] # "header" /\ pc[c] # "header"
        /\ \A d \in Callers : pc'[d] = "header" <=> pc[d] = "header"
    BY <1>3
  <2> QED
    BY <1>2, <1>5, <1>6, <2>1 DEF NotFound
<1>13. RetryJustified'
  BY <1>2 DEF RetryJustified
<1> QED
  BY <1>7, <1>8, <1>9, <1>10, <1>11, <1>12, <1>13

LEMMA HeaderKeeps ==
    ASSUME CInv, NEW c \in Callers, Header(c) PROVE CInv'
<1> USE DEF CInv
<1>1. /\ chain' = chain /\ landed' = landed /\ expired' = expired /\ onces' = onces /\ tx' = tx
      /\ mine' = mine /\ once' = once /\ recent' = recent /\ pc[c] = "header"
      /\ pc' = [pc EXCEPT ![c] = "idle"]
      /\ said' = said \/ (expired[tx[c]] /\ said' = [said EXCEPT ![c] = "retry"])
  BY DEF Header, chainVars
<1>2. \A d \in Callers : /\ Inside(d)' <=> Inside(d)
                         /\ pc'[d] = IF d = c THEN "idle" ELSE pc[d]
                         /\ said'[d] = said[d] \/ (d = c /\ said'[d] = "retry" /\ expired[tx[c]])
  BY <1>1 DEF Inside, TypeOK
<1>3. TypeOK'
  BY <1>1 DEF TypeOK
<1>4. Shared' /\ Phases' /\ InMapOrOld'
  BY <1>1, <1>2 DEF Shared, Phases, InMapOrOld
<1>5. Answers'
  BY <1>1, <1>2 DEF Answers, Truthful
<1>6. NotFound'
  <2>1. ~Inside(c)
    BY <1>1 DEF Inside
  <2>2. \A d \in Callers : Inside(d) \/ pc'[d] = "header" => d # c /\ said'[d] = said[d] /\ pc'[d] = pc[d]
    BY <1>2, <2>1
  <2> QED
    BY <1>1, <1>2, <2>2 DEF NotFound
<1>7. RetryJustified'
  BY <1>1, <1>2 DEF RetryJustified, NotFound
<1> QED
  BY <1>3, <1>4, <1>5, <1>6, <1>7

-----------------------------------------------------------------------------
\* What delete(o.onces, once) does to a map that has transactions for keys: nothing.
LEMMA RemovesNothing ==
    ASSUME TypeOK, NEW c \in Callers, mine[c] \in Onces PROVE Remove(c) = onces
<1>1. DOMAIN onces \ {mine[c]} = DOMAIN onces
  BY CacheAssumption DEF TypeOK
<1>2. onces = [t \in DOMAIN onces |-> onces[t]]
  BY DEF TypeOK
<1> QED
  BY <1>1, <1>2 DEF Remove, Restrict

LEMMA CleanupKeeps ==
    ASSUME CInv, NEW c \in Callers, Cleanup(c) PROVE CInv'
<1> USE CacheAssumption DEF CInv
<1>1. PICK m \in Onces : m = mine[c]
  BY DEF Cleanup, Shared, Inside
<1>2. /\ chain' = chain /\ landed' = landed /\ expired' = expired /\ tx' = tx /\ recent' = recent
      /\ mine' = [mine EXCEPT ![c] = NoOnce] /\ pc[c] = "cleanup"
  BY DEF Cleanup, chainVars
<1>3. onces' = onces
  BY <1>1, RemovesNothing DEF Cleanup
<1>4. \/ once[m].answer = "notFound" /\ pc' = [pc EXCEPT ![c] = "header"] /\ said' = said
      \/ /\ once[m].answer # "notFound" /\ pc' = [pc EXCEPT ![c] = "idle"]
         /\ said' = [said EXCEPT ![c] = Verdict(once[m].answer)]
  BY <1>1 DEF Cleanup
<1>5. Verdict(once[m].answer) \in {"nothing", "keep", "retry"}
  BY DEF Verdict
<1>6. /\ pc'[c] \in {"header", "idle"} /\ mine'[c] = NoOnce
      /\ \A d \in Callers : d # c => pc'[d] = pc[d] /\ said'[d] = said[d] /\ mine'[d] = mine[d]
  BY <1>2, <1>4 DEF TypeOK
<1>7. \A d \in Callers : /\ Inside(d)' <=> Inside(d) /\ d # c
                         /\ Inside(d)' => mine'[d] = mine[d] /\ mine[d] \in Onces
  BY <1>6 DEF Inside, Shared
<1>8. \A o \in Onces : once'[o] = IF o \in Referenced' THEN once[o] ELSE New
  BY DEF Cleanup, Collected
<1>9. /\ \A d \in Callers : Inside(d)' => once'[mine[d]] = once[mine[d]]
      /\ \A t \in DOMAIN onces : once'[onces[t]] = once[onces[t]]
  BY <1>3, <1>7, <1>8 DEF Referenced, TypeOK
<1>10. TypeOK'
  <2>1. New \in Once
    BY DEF New, Once, Age
  <2>2. once' \in [Onces -> Once]
    <3>1. \A o \in Onces : once'[o] \in Once
      BY <1>8, <2>1 DEF TypeOK
    <3>2. once' = [o \in Onces |-> once'[o]]
      BY DEF Cleanup, Collected
    <3> QED
      BY <3>1, <3>2
  <2>3. /\ said' \in [Callers -> {"nothing", "keep", "retry"}]
        /\ pc' \in [Callers -> {"idle", "once", "running", "setError", "cleanup", "header"}]
    <3>1. /\ said \in [Callers -> {"nothing", "keep", "retry"}]
          /\ pc \in [Callers -> {"idle", "once", "running", "setError", "cleanup", "header"}]
      BY DEF TypeOK
    <3> QED
      BY <1>4, <1>5, <3>1
  <2> QED
    BY <1>2, <1>3, <2>2, <2>3 DEF TypeOK
<1>11. Shared'
  BY <1>2, <1>3, <1>6, <1>7 DEF Shared, TypeOK
<1>12. Phases'
  <2>1. \A o \in Onces : /\ once'[o].err => once'[o].phase = "done"
                         /\ once'[o].phase = "new" => once'[o].answer = "none"
    <3>1. New.err = FALSE /\ New.answer = "none"
      BY DEF New
    <3>2. \A o \in Onces : /\ once[o].err => once[o].phase = "done"
                           /\ once[o].phase = "new" => once[o].answer = "none"
      BY DEF Phases
    <3>3. \A o \in Onces : once'[o] = once[o] \/ once'[o] = New
      BY <1>8
    <3> QED
      BY <3>1, <3>2, <3>3
  <2>2. \A d \in Callers : pc'[d] \in {"running", "setError", "cleanup"} =>
          d # c /\ pc[d] = pc'[d] /\ mine'[d] = mine[d] /\ once'[mine[d]] = once[mine[d]]
    BY <1>6, <1>9 DEF Inside
  <2> QED
    BY <2>1, <2>2 DEF Phases
<1>13. InMapOrOld'
  BY <1>2, <1>3, <1>7, <1>9 DEF InMapOrOld
<1>14. Answers'
  <2>1. \A t \in DOMAIN onces : Truthful(onces[t], t)'
    BY <1>2, <1>3, <1>9 DEF Answers, Truthful
  <2>2. ASSUME NEW d \in Callers, Inside(d)' PROVE Truthful(mine[d], tx[d])'
    <3>1. /\ Truthful(mine[d], tx[d]) /\ mine'[d] = mine[d] /\ once'[mine[d]] = once[mine[d]]
          /\ tx'[d] = tx[d]
      BY <1>2, <1>7, <1>9, <2>2 DEF Answers
    <3> QED
      BY <1>2, <3>1 DEF Truthful
  <2> QED
    BY <1>2, <1>3, <2>1, <2>2 DEF Answers
<1>15. NotFound'
  <2>1. pc'[c] = "header" => recent[c] /\ said'[c] = "nothing"
    BY <1>1, <1>2, <1>4 DEF NotFound, Inside, TypeOK
  <2>2. ASSUME NEW d \in Callers, Inside(d)'
        PROVE  said'[d] = said[d] /\ mine'[d] = mine[d] /\ once'[mine[d]] = once[mine[d]] /\ Inside(d)
    BY <1>6, <1>7, <1>9, <2>2
  <2>3. \A d \in Callers : pc'[d] = "header" => recent[d] /\ said'[d] = "nothing"
    BY <1>6, <2>1 DEF NotFound
  <2>4. ASSUME NEW d \in Callers, Inside(d)'
        PROVE  said'[d] = "nothing" /\ (once'[mine'[d]].answer = "notFound" => recent[d])
    BY <2>2, <2>4 DEF NotFound
  <2>5. \A d \in Callers : ~recent[d] => chain[tx[d]] # "pending"
    BY DEF NotFound
  <2> QED
    BY <1>2, <2>3, <2>4, <2>5 DEF NotFound
<1>16. RetryJustified'
  <2>1. said'[c] = "retry" => chain[tx[c]] = "failed"
    <3>1. said[c] = "nothing" /\ Truthful(m, tx[c])
      BY <1>1, <1>2 DEF NotFound, Answers, Inside
    <3> QED
      BY <1>4, <3>1 DEF Verdict, Truthful, TypeOK
  <2> QED
    BY <1>2, <1>6, <2>1 DEF RetryJustified
<1> QED
  BY <1>10, <1>11, <1>12, <1>13, <1>14, <1>15, <1>16

-----------------------------------------------------------------------------
LEMMA Timeouts ==
    /\ ErrorTimeout \in Nat /\ SuccessTimeout \in Nat
    /\ 0 < ErrorTimeout /\ ErrorTimeout <= SuccessTimeout
  BY CacheAssumption

\* If the transaction has been on the chain for long, it is not pending.
LEMMA NotRecent ==
    ASSUME CInv, NEW t \in Txs, ~Recent(t) PROVE chain[t] # "pending"
<1>1. landed[t] \in Nat /\ (chain[t] = "pending" => landed[t] = 0)
  BY CacheAssumption DEF CInv, TypeOK, Answers, Age
<1>2. ErrorTimeout > 0 /\ SuccessTimeout > 0
  BY CacheAssumption
<1>3. \E n \in {ErrorTimeout, SuccessTimeout} : ~(landed[t] < n)
  BY DEF Recent
<1> QED
  BY <1>1, <1>2, <1>3, CacheAssumption

\* A "notFound" that is not timed out is recent.
LEMMA HitIsRecent ==
    ASSUME CInv, NEW t \in DOMAIN onces, ~IsTimedOut(onces[t]), once[onces[t]].answer = "notFound"
    PROVE  Recent(t)
<1>1. onces[t] \in Onces /\ t \in Txs /\ TypeOK
  BY DEF CInv, TypeOK
<1>2. landed[t] <= once[onces[t]].age
  BY DEF CInv, Answers, Truthful
<1>3. landed[t] \in Age
  BY <1>1 DEF TypeOK
<1>4. PICK l \in Nat : l = landed[t]
  <2>1. landed[t] \in Nat
    BY <1>3, Timeouts DEF Age
  <2> QED
    BY <2>1
<1>5. PICK a \in Nat : a = once[onces[t]].age /\ l <= a
  <2>1. once[onces[t]].age \in Nat
    BY <1>1, Ages
  <2> QED
    BY <1>2, <1>4, <2>1
<1>6. CASE once[onces[t]].err
  <2>1. ~(a >= ErrorTimeout)
    BY <1>5, <1>6 DEF IsTimedOut
  <2>2. l < ErrorTimeout
    BY <1>4, <1>5, <2>1, Timeouts
  <2> QED
    BY <1>4, <1>6, <2>2 DEF Recent
<1>7. CASE ~once[onces[t]].err
  <2>1. ~(a >= SuccessTimeout)
    BY <1>5, <1>7 DEF IsTimedOut
  <2>2. l < SuccessTimeout
    BY <1>4, <1>5, <2>1, Timeouts
  <2> QED
    BY <1>4, <1>7, <2>2 DEF Recent
<1> QED
  BY <1>6, <1>7

\* What a caller that comes does whether there is a once for it or not.
LEMMA Comes ==
    ASSUME CInv, NEW c \in Callers, NEW t \in Txs, Lookup(c, t)
    PROVE  /\ chain' = chain /\ landed' = landed /\ expired' = expired
           /\ pc[c] = "idle" /\ pc'[c] = "once" /\ tx'[c] = t /\ said'[c] = "nothing"
           /\ recent'[c] = Recent(t) /\ ~Inside(c)
           /\ \A d \in Callers : d # c => /\ pc'[d] = pc[d] /\ tx'[d] = tx[d] /\ said'[d] = said[d]
                                          /\ recent'[d] = recent[d] /\ mine'[d] = mine[d]
           /\ \A d \in Callers : Inside(d)' <=> Inside(d) \/ d = c
           /\ \A d \in Callers : Inside(d) => mine[d] \in Onces
           /\ pc' \in [Callers -> {"idle", "once", "running", "setError", "cleanup", "header"}]
           /\ tx' \in [Callers -> Txs] /\ said' \in [Callers -> {"nothing", "keep", "retry"}]
           /\ recent' \in [Callers -> BOOLEAN]
<1>1. TypeOK /\ Recent(t) \in BOOLEAN
  BY DEF CInv, Recent
<1>2. /\ chain' = chain /\ landed' = landed /\ expired' = expired /\ pc[c] = "idle"
      /\ pc' = [pc EXCEPT ![c] = "once"] /\ tx' = [tx EXCEPT ![c] = t]
      /\ said' = [said EXCEPT ![c] = "nothing"] /\ recent' = [recent EXCEPT ![c] = Recent(t)]
  BY DEF Lookup, chainVars
<1>3. \A d \in Callers : d # c => mine'[d] = mine[d]
  BY <1>1 DEF Lookup, TypeOK
<1>4. /\ pc'[c] = "once" /\ tx'[c] = t /\ said'[c] = "nothing" /\ recent'[c] = Recent(t)
      /\ \A d \in Callers : d # c => /\ pc'[d] = pc[d] /\ tx'[d] = tx[d] /\ said'[d] = said[d]
                                     /\ recent'[d] = recent[d]
  BY <1>1, <1>2 DEF TypeOK
<1>5. /\ ~Inside(c) /\ \A d \in Callers : Inside(d)' <=> Inside(d) \/ d = c
      /\ \A d \in Callers : Inside(d) => mine[d] \in Onces
  BY <1>2, <1>4 DEF Inside, CInv, Shared
<1>6. /\ pc' \in [Callers -> {"idle", "once", "running", "setError", "cleanup", "header"}]
      /\ tx' \in [Callers -> Txs] /\ said' \in [Callers -> {"nothing", "keep", "retry"}]
      /\ recent' \in [Callers -> BOOLEAN]
  BY <1>1, <1>2 DEF TypeOK
<1> QED
  BY <1>2, <1>3, <1>4, <1>5, <1>6

\* It may not justify a retry, and so far it has not answered one.
LEMMA ComesJustified ==
    ASSUME CInv, NEW c \in Callers, NEW t \in Txs, Lookup(c, t) PROVE RetryJustified'
<1> SUFFICES ASSUME NEW d \in Callers, said'[d] = "retry"
             PROVE  chain'[tx'[d]] = "failed" \/ (expired'[tx'[d]] /\ recent'[d])
  BY DEF RetryJustified
<1>1. d # c /\ said[d] = "retry" /\ tx'[d] = tx[d] /\ recent'[d] = recent[d]
  BY Comes
<1>2. chain[tx[d]] = "failed" \/ (expired[tx[d]] /\ recent[d])
  BY <1>1 DEF CInv, RetryJustified
<1> QED
  BY <1>1, <1>2, Comes

LEMMA ComesNotFound ==
    ASSUME CInv, NEW c \in Callers, NEW t \in Txs, Lookup(c, t),
           \A d \in Callers : d # c /\ Inside(d) => once'[mine[d]] = once[mine[d]],
           once'[mine'[c]].answer = "notFound" => Recent(t)
    PROVE  NotFound'
<1>1. ASSUME NEW d \in Callers, d # c
      PROVE  /\ ~recent'[d] => chain'[tx'[d]] # "pending"
             /\ Inside(d)' /\ once'[mine'[d]].answer = "notFound" => recent'[d]
             /\ pc'[d] = "header" => recent'[d] /\ said'[d] = "nothing"
             /\ Inside(d)' => said'[d] = "nothing"
  <2>1. /\ pc'[d] = pc[d] /\ tx'[d] = tx[d] /\ said'[d] = said[d] /\ recent'[d] = recent[d]
        /\ mine'[d] = mine[d] /\ (Inside(d)' <=> Inside(d)) /\ chain' = chain
    BY <1>1, Comes
  <2>2. /\ ~recent[d] => chain[tx[d]] # "pending"
        /\ Inside(d) /\ once[mine[d]].answer = "notFound" => recent[d]
        /\ pc[d] = "header" => recent[d] /\ said[d] = "nothing"
        /\ Inside(d) => said[d] = "nothing"
    BY DEF CInv, NotFound
  <2> QED
    BY <1>1, <2>1, <2>2
<1>2. /\ ~recent'[c] => chain'[tx'[c]] # "pending"
      /\ once'[mine'[c]].answer = "notFound" => recent'[c]
      /\ pc'[c] # "header" /\ said'[c] = "nothing"
  BY Comes, NotRecent
<1> QED
  BY <1>1, <1>2 DEF NotFound

\* The caller shares the once in the map.
LEMMA HitKeeps ==
    ASSUME CInv, NEW c \in Callers, NEW t \in DOMAIN onces, Lookup(c, t), ~IsTimedOut(onces[t])
    PROVE  CInv'
<1>1. t \in Txs /\ onces[t] \in Onces
  BY DEF CInv, TypeOK
<1>2. mine' = [mine EXCEPT ![c] = onces[t]] /\ onces' = onces /\ once' = once
  BY <1>1 DEF Lookup
<1>3. mine'[c] = onces[t] /\ mine' \in [Callers -> Onces \cup {NoOnce}]
  BY <1>1, <1>2 DEF CInv, TypeOK
<1>4. /\ chain' = chain /\ landed' = landed /\ expired' = expired
      /\ pc' \in [Callers -> {"idle", "once", "running", "setError", "cleanup", "header"}]
      /\ tx' \in [Callers -> Txs] /\ said' \in [Callers -> {"nothing", "keep", "retry"}]
      /\ recent' \in [Callers -> BOOLEAN]
  BY <1>1, Comes
<1>5. /\ pc'[c] = "once" /\ tx'[c] = t
      /\ \A d \in Callers : d # c => pc'[d] = pc[d] /\ tx'[d] = tx[d] /\ mine'[d] = mine[d]
  BY <1>1, Comes
<1>6. \A d \in Callers : (Inside(d)' <=> Inside(d) \/ d = c) /\ (Inside(d) => mine[d] \in Onces)
  BY <1>1, Comes
<1>7. TypeOK'
  <2>1. /\ chain \in [Txs -> {"pending", "success", "failed"}]
        /\ landed \in [Txs -> Age] /\ expired \in [Txs -> BOOLEAN]
        /\ DOMAIN onces \subseteq Txs /\ onces \in [DOMAIN onces -> Onces] /\ once \in [Onces -> Once]
    BY DEF CInv, TypeOK
  <2> QED
    BY <1>2, <1>3, <1>4, <2>1 DEF TypeOK
<1>8. Shared'
  <2>1. \A d \in Callers : IF Inside(d)' THEN mine'[d] \in Onces ELSE mine'[d] = NoOnce
    BY <1>1, <1>3, <1>5, <1>6 DEF CInv, Shared
  <2>2. \A d, u \in DOMAIN onces : onces[d] = onces[u] => d = u
    BY DEF CInv, Shared
  <2>3. \A d \in Callers, u \in DOMAIN onces : mine'[d] = onces[u] => tx'[d] = u
    <3>1. \A d \in Callers, u \in DOMAIN onces : mine[d] = onces[u] => tx[d] = u
      BY DEF CInv, Shared
    <3> QED
      BY <1>3, <1>5, <2>2, <3>1
  <2>4. ASSUME NEW d \in Callers, NEW e \in Callers, Inside(d)', mine'[d] = mine'[e]
        PROVE  tx'[d] = tx'[e]
    <3>1. CASE d = c \/ e = c
      BY <1>3, <1>5, <2>3, <2>4, <3>1
    <3>2. CASE d # c /\ e # c
      <4>1. Inside(d) => (mine[d] = mine[e] => tx[d] = tx[e])
        BY DEF CInv, Shared
      <4> QED
        BY <1>5, <1>6, <2>4, <3>2, <4>1
    <3> QED
      BY <3>1, <3>2
  <2> QED
    BY <1>2, <2>1, <2>2, <2>3, <2>4 DEF Shared
<1>9. Phases'
  <2>1. \A d \in Callers : pc'[d] \in {"running", "setError", "cleanup"} =>
          d # c /\ pc[d] = pc'[d] /\ mine'[d] = mine[d]
    BY <1>5
  <2>2. \A d \in Callers : /\ pc'[d] = "running" => once[mine'[d]].phase = "running"
                           /\ pc'[d] \in {"setError", "cleanup"} => once[mine'[d]].phase = "done"
    <3>1. \A d \in Callers : /\ pc[d] = "running" => once[mine[d]].phase = "running"
                             /\ pc[d] \in {"setError", "cleanup"} => once[mine[d]].phase = "done"
      BY DEF CInv, Phases
    <3> QED
      BY <2>1, <3>1
  <2>3. \A d, e \in Callers :
          pc'[d] = "running" /\ pc'[e] = "running" /\ mine'[d] = mine'[e] => d = e
    <3>1. \A d, e \in Callers : pc[d] = "running" /\ pc[e] = "running" /\ mine[d] = mine[e] => d = e
      BY DEF CInv, Phases
    <3> QED
      BY <2>1, <3>1
  <2>4. \A o \in Onces : /\ once[o].err => once[o].phase = "done"
                         /\ once[o].phase = "new" => once[o].answer = "none"
    BY DEF CInv, Phases
  <2> QED
    BY <1>2, <2>2, <2>3, <2>4 DEF Phases
<1>10. InMapOrOld'
  <2>1. ASSUME NEW d \in Callers, Inside(d)', once'[mine'[d]].phase # "done"
        PROVE  \/ tx'[d] \in DOMAIN onces' /\ onces'[tx'[d]] = mine'[d]
               \/ once'[mine'[d]].age = SuccessTimeout
    <3>1. CASE d = c
      BY <1>2, <1>3, <1>5, <3>1
    <3>2. CASE d # c
      BY <1>2, <1>5, <1>6, <2>1, <3>2 DEF CInv, InMapOrOld
    <3> QED
      BY <3>1, <3>2
  <2> QED
    BY <2>1 DEF InMapOrOld
<1>11. Answers'
  <2>1. ASSUME NEW o \in Onces, NEW u \in Txs, Truthful(o, u) PROVE Truthful(o, u)'
    BY <1>2, <1>4, <2>1 DEF Truthful
  <2>2. ASSUME NEW u \in DOMAIN onces PROVE Truthful(onces[u], u)'
    <3>1. u \in Txs /\ onces[u] \in Onces /\ Truthful(onces[u], u)
      BY DEF CInv, TypeOK, Answers
    <3> QED
      BY <1>2, <2>1, <3>1
  <2>3. ASSUME NEW d \in Callers, Inside(d)' PROVE Truthful(mine[d], tx[d])'
    <3>1. CASE d = c
      BY <1>2, <1>3, <1>5, <2>2, <3>1
    <3>2. CASE d # c
      <4>1. tx[d] \in Txs /\ mine[d] \in Onces /\ Truthful(mine[d], tx[d])
        BY <1>6, <2>3, <3>2 DEF CInv, TypeOK, Answers
      <4> QED
        BY <1>5, <2>1, <3>2, <4>1
    <3> QED
      BY <3>1, <3>2
  <2>4. \A u \in Txs : chain'[u] = "pending" => landed'[u] = 0
    BY <1>4 DEF CInv, Answers
  <2> QED
    BY <1>2, <2>2, <2>3, <2>4 DEF Answers
<1>12. NotFound'
  BY <1>1, <1>2, <1>3, HitIsRecent, ComesNotFound
<1>13. RetryJustified'
  BY <1>1, ComesJustified
<1> QED
  BY <1>7, <1>8, <1>9, <1>10, <1>11, <1>12, <1>13 DEF CInv

\* There is no once, or it is timed out, and the caller makes one.
LEMMA MissKeeps ==
    ASSUME CInv, NEW c \in Callers, NEW t \in Txs, Lookup(c, t),
           t \in DOMAIN onces => IsTimedOut(onces[t])
    PROVE  CInv'
<1>1. PICK o \in Onces \ Referenced : /\ mine' = [mine EXCEPT ![c] = o] /\ onces' = Stored(t, o)
                                     /\ once' = Collected([once EXCEPT ![o] = New])
  BY DEF Lookup
<1>2. /\ mine'[c] = o /\ mine' \in [Callers -> Onces \cup {NoOnce}]
      /\ DOMAIN onces' = DOMAIN onces \cup {t} /\ onces'[t] = o
      /\ \A u \in DOMAIN onces : u # t => onces'[u] = onces[u]
      /\ DOMAIN onces \subseteq Txs /\ \A u \in DOMAIN onces : onces[u] \in Onces
  BY <1>1 DEF CInv, TypeOK, Stored
<1>3. /\ \A d \in Callers : mine[d] # o
      /\ \A u \in DOMAIN onces : onces[u] # o
  BY <1>1 DEF Referenced
<1>4. \A p \in Onces : once'[p] = IF p \in Referenced' /\ p # o THEN once[p] ELSE New
  BY <1>1 DEF Collected, CInv, TypeOK
<1>5. /\ chain' = chain /\ landed' = landed /\ expired' = expired
      /\ pc' \in [Callers -> {"idle", "once", "running", "setError", "cleanup", "header"}]
      /\ tx' \in [Callers -> Txs] /\ said' \in [Callers -> {"nothing", "keep", "retry"}]
      /\ recent' \in [Callers -> BOOLEAN]
  BY Comes
<1>6. /\ pc'[c] = "once" /\ tx'[c] = t
      /\ \A d \in Callers : d # c => pc'[d] = pc[d] /\ tx'[d] = tx[d] /\ mine'[d] = mine[d]
  BY Comes
<1>7. \A d \in Callers : (Inside(d)' <=> Inside(d) \/ d = c) /\ (Inside(d) => mine[d] \in Onces)
  BY Comes
<1>8. ASSUME NEW d \in Callers, d # c, Inside(d)
      PROVE  mine'[d] = mine[d] /\ mine[d] \in Onces /\ once'[mine[d]] = once[mine[d]]
  <2>1. mine[d] \in Onces /\ mine[d] # o /\ mine[d] \in Referenced'
    BY <1>3, <1>6, <1>7, <1>8 DEF Referenced
  <2> QED
    BY <1>4, <1>6, <1>8, <2>1
<1>9. once'[o] = New
  BY <1>4
<1>10. ASSUME NEW u \in DOMAIN onces, u # t PROVE once'[onces[u]] = once[onces[u]]
  <2>1. onces[u] \in Onces /\ onces[u] # o /\ onces[u] \in Referenced'
    BY <1>2, <1>3, <1>10 DEF Referenced
  <2> QED
    BY <1>4, <2>1
<1>11. TypeOK'
  <2>1. New \in Once
    BY CacheAssumption DEF New, Once, Age
  <2>2. \A p \in Onces : once'[p] \in Once
    BY <1>4, <2>1 DEF CInv, TypeOK
  <2>3. once' = [p \in Onces |-> once'[p]]
    BY <1>1 DEF Collected
  <2>4. onces' \in [DOMAIN onces' -> Onces]
    BY <1>1, <1>2 DEF Stored
  <2>5. once' \in [Onces -> Once]
    BY <2>2, <2>3
  <2>6. /\ chain \in [Txs -> {"pending", "success", "failed"}]
        /\ landed \in [Txs -> Age] /\ expired \in [Txs -> BOOLEAN]
    BY DEF CInv, TypeOK
  <2>7. DOMAIN onces' \subseteq Txs
    BY <1>2
  <2> QED
    BY <1>2, <1>5, <2>4, <2>5, <2>6, <2>7 DEF TypeOK
<1>12. Shared'
  <2>1. \A d \in Callers : IF Inside(d)' THEN mine'[d] \in Onces ELSE mine'[d] = NoOnce
    BY <1>2, <1>6, <1>7 DEF CInv, Shared
  <2>2. ASSUME NEW d \in Callers, NEW e \in Callers, Inside(d)', mine'[d] = mine'[e]
        PROVE  tx'[d] = tx'[e]
    <3>1. CASE d = c \/ e = c
      BY <1>2, <1>3, <1>6, <2>2, <3>1
    <3>2. CASE d # c /\ e # c
      <4>1. Inside(d) => (mine[d] = mine[e] => tx[d] = tx[e])
        BY DEF CInv, Shared
      <4> QED
        BY <1>6, <1>7, <2>2, <3>2, <4>1
    <3> QED
      BY <3>1, <3>2
  <2>3. \A d \in Callers, u \in DOMAIN onces' : mine'[d] = onces'[u] => tx'[d] = u
    BY <1>2, <1>3, <1>6 DEF CInv, Shared
  <2>4. \A u, v \in DOMAIN onces' : onces'[u] = onces'[v] => u = v
    BY <1>2, <1>3 DEF CInv, Shared
  <2> QED
    BY <2>1, <2>2, <2>3, <2>4 DEF Shared
<1>13. Phases'
  <2>1. \A p \in Onces : /\ once'[p].err => once'[p].phase = "done"
                         /\ once'[p].phase = "new" => once'[p].answer = "none"
    <3>1. New.err = FALSE /\ New.answer = "none"
      BY DEF New
    <3>2. \A p \in Onces : /\ once[p].err => once[p].phase = "done"
                           /\ once[p].phase = "new" => once[p].answer = "none"
      BY DEF CInv, Phases
    <3>3. \A p \in Onces : once'[p] = once[p] \/ once'[p] = New
      BY <1>4
    <3> QED
      BY <3>1, <3>2, <3>3
  <2>2. \A d \in Callers : pc'[d] \in {"running", "setError", "cleanup"} =>
          d # c /\ pc[d] = pc'[d] /\ mine'[d] = mine[d] /\ once'[mine[d]] = once[mine[d]]
    BY <1>6, <1>8 DEF Inside
  <2>3. \A d \in Callers : /\ pc'[d] = "running" => once'[mine'[d]].phase = "running"
                           /\ pc'[d] \in {"setError", "cleanup"} => once'[mine'[d]].phase = "done"
    <3>1. \A d \in Callers : /\ pc[d] = "running" => once[mine[d]].phase = "running"
                             /\ pc[d] \in {"setError", "cleanup"} => once[mine[d]].phase = "done"
      BY DEF CInv, Phases
    <3> QED
      BY <2>2, <3>1
  <2>4. \A d, e \in Callers :
          pc'[d] = "running" /\ pc'[e] = "running" /\ mine'[d] = mine'[e] => d = e
    <3>1. \A d, e \in Callers : pc[d] = "running" /\ pc[e] = "running" /\ mine[d] = mine[e] => d = e
      BY DEF CInv, Phases
    <3> QED
      BY <2>2, <3>1
  <2> QED
    BY <2>1, <2>3, <2>4 DEF Phases
<1>14. InMapOrOld'
  <2> SUFFICES ASSUME NEW d \in Callers, Inside(d)', once'[mine'[d]].phase # "done"
               PROVE  \/ tx'[d] \in DOMAIN onces' /\ onces'[tx'[d]] = mine'[d]
                      \/ once'[mine'[d]].age = SuccessTimeout
    BY DEF InMapOrOld
  <2>1. CASE d = c
    BY <1>2, <1>6, <2>1
  <2>2. CASE d # c
    <3>1. /\ Inside(d) /\ mine'[d] = mine[d] /\ mine[d] \in Onces /\ tx'[d] = tx[d]
          /\ once'[mine[d]] = once[mine[d]] /\ once[mine[d]].phase # "done"
      BY <1>6, <1>7, <1>8, <2>2
    <3>2. CASE tx[d] \in DOMAIN onces /\ onces[tx[d]] = mine[d] /\ tx[d] # t
      BY <1>2, <3>1, <3>2
    <3>3. CASE t \in DOMAIN onces /\ onces[t] = mine[d]
      <4>1. ~once[mine[d]].err /\ TypeOK
        BY <3>1 DEF CInv, Phases
      <4>2. once[mine[d]].age >= SuccessTimeout
        BY <3>3, <4>1 DEF IsTimedOut
      <4>3. once[mine[d]].age \in Nat /\ once[mine[d]].age <= SuccessTimeout
        BY <3>1, <4>1, Ages
      <4>4. once[mine[d]].age = SuccessTimeout
        BY <4>2, <4>3, Timeouts
      <4> QED
        BY <3>1, <4>4
    <3>4. CASE once[mine[d]].age = SuccessTimeout
      BY <3>1, <3>4
    <3> QED
      BY <3>1, <3>2, <3>3, <3>4 DEF CInv, InMapOrOld
  <2> QED
    BY <2>1, <2>2
<1>15. Answers'
  <2>1. \A u \in Txs : Truthful(o, u)'
    BY <1>9 DEF Truthful, New
  <2>2. ASSUME NEW p \in Onces, NEW u \in Txs, Truthful(p, u), once'[p] = once[p] PROVE Truthful(p, u)'
    BY <1>5, <2>2 DEF Truthful
  <2>3. ASSUME NEW u \in DOMAIN onces' PROVE Truthful(onces[u], u)'
    <3>1. CASE u = t
      BY <1>2, <2>1, <3>1
    <3>2. CASE u # t
      <4>1. u \in DOMAIN onces /\ u \in Txs /\ onces[u] \in Onces /\ Truthful(onces[u], u)
        BY <1>2, <2>3, <3>2 DEF CInv, Answers
      <4> QED
        BY <1>2, <1>10, <2>2, <3>2, <4>1
    <3> QED
      BY <3>1, <3>2
  <2>4. ASSUME NEW d \in Callers, Inside(d)' PROVE Truthful(mine[d], tx[d])'
    <3>1. CASE d = c
      BY <1>2, <1>6, <2>1, <3>1
    <3>2. CASE d # c
      <4>1. Inside(d) /\ tx[d] \in Txs /\ mine[d] \in Onces /\ Truthful(mine[d], tx[d])
        BY <1>7, <2>4, <3>2 DEF CInv, TypeOK, Answers
      <4> QED
        BY <1>6, <1>8, <2>2, <3>2, <4>1
    <3> QED
      BY <3>1, <3>2
  <2>5. \A u \in Txs : chain'[u] = "pending" => landed'[u] = 0
    BY <1>5 DEF CInv, Answers
  <2> QED
    BY <2>3, <2>4, <2>5 DEF Answers
<1>16. NotFound'
  <2>1. once'[mine'[c]].answer # "notFound"
    <3>1. New.answer = "none"
      BY DEF New
    <3> QED
      BY <1>2, <1>9, <3>1
  <2> QED
    BY <1>8, <2>1, ComesNotFound
<1>17. RetryJustified'
  BY ComesJustified
<1> QED
  BY <1>11, <1>12, <1>13, <1>14, <1>15, <1>16, <1>17 DEF CInv

-----------------------------------------------------------------------------
LEMMA CInvStep == CInv /\ [Next]_vars => CInv'
<1> SUFFICES ASSUME CInv, [Next]_vars PROVE CInv'
  OBVIOUS
<1>1. CASE UNCHANGED vars
  <2>1. /\ chain' = chain /\ landed' = landed /\ expired' = expired /\ onces' = onces /\ once' = once
        /\ pc' = pc /\ tx' = tx /\ mine' = mine /\ said' = said /\ recent' = recent
    BY <1>1 DEF vars, chainVars
  <2>2. TypeOK'
    BY <2>1 DEF CInv, TypeOK
  <2>3. Shared'
    BY <2>1 DEF CInv, Shared, Inside
  <2>4. Phases'
    BY <2>1 DEF CInv, Phases
  <2>5. InMapOrOld' /\ NotFound'
    BY <2>1 DEF CInv, InMapOrOld, NotFound, Inside
  <2>6. Answers' /\ RetryJustified'
    BY <2>1 DEF CInv, Answers, Truthful, RetryJustified, Inside
  <2> QED
    BY <2>2, <2>3, <2>4, <2>5, <2>6 DEF CInv
<1>2. ASSUME NEW c \in Callers, NEW t \in Txs, Lookup(c, t) PROVE CInv'
  BY <1>2, HitKeeps, MissKeeps
<1>3. CASE Next
  BY <1>2, <1>3, TickKeeps, LandKeeps, ExpireKeeps, AskKeeps, ReturnKeeps, CleanupKeeps,
     HeaderKeeps DEF Next, Steps
<1> QED
  BY <1>1, <1>3

\* The invariant of the cache and its callers.
THEOREM CacheInvariant == Spec => []CInv
  BY CInvInit, CInvStep, PTL DEF Spec

\* The types of the cache and its callers.
THEOREM CacheTypes == Spec => []TypeOK
<1>1. CInv => TypeOK
  BY DEF CInv
<1> QED
  BY <1>1, CacheInvariant, PTL

\* OnceWithKey.Do never has two requests out for a key, unless one has outlived successTimeout.
THEOREM AsksOnce == Spec => []SingleFlight
<1>1. CInv => SingleFlight
  <2> SUFFICES ASSUME CInv, NEW c \in Callers, NEW d \in Callers, c # d,
                      pc[c] = "running", pc[d] = "running", tx[c] = tx[d]
               PROVE  once[mine[c]].age = SuccessTimeout \/ once[mine[d]].age = SuccessTimeout
    BY DEF SingleFlight
  <2>1. /\ Inside(c) /\ once[mine[c]].phase # "done"
        /\ Inside(d) /\ once[mine[d]].phase # "done" /\ mine[c] # mine[d]
    BY DEF CInv, Phases, Inside
  <2> QED
    BY <2>1 DEF CInv, InMapOrOld
<1> QED
  BY <1>1, CacheInvariant, PTL

\* ShouldRetryTx has a transaction sent again only if it failed, or if it is expired and was
\* not found by a lookup no older than the cache allows.
THEOREM RetriesJustified == Spec => []RetryJustified
<1>1. CInv => RetryJustified
  BY DEF CInv
<1> QED
  BY <1>1, CacheInvariant, PTL
=============================================================================
