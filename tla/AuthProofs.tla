------------------------------ MODULE AuthProofs ------------------------------
(***************************************************************************)
(* Proofs about Auth, for any number of threads, messages and senders, any *)
(* clocks and any limit of the replay cache.                               *)
(***************************************************************************)
EXTENDS Auth, FiniteSetTheorems, TLAPS

-----------------------------------------------------------------------------
(* Type correctness.                                                        *)

(* The state a server starts in. *)
LEMMA InitTypeAuth == AuthInit => AuthTypeOK
  <1> SUFFICES ASSUME AuthInit PROVE AuthTypeOK
    OBVIOUS
  <1>1. now \in 0 .. MaxTime /\ mode \in AuthModes
    BY TimeAssumption, FormAssumption DEF AuthInit
  <1>2. block \in [Messages -> [issued : Int, expires : Int]]
    BY DEF AuthInit, Unsent
  <1> QED
    BY <1>1, <1>2 DEF AuthInit, AuthTypeOK, VerifyOK

(* A verification that ends. *)
LEMMA EndsType ==
  ASSUME AuthTypeOK, NEW th \in Threads, NEW m \in Messages, NEW result \in Results,
         Ends(th, m, result), mode' = mode, block' = block
  PROVE  /\ DOMAIN verify' = Threads /\ \A x \in Threads : VerifyOK(x)'
         /\ results' \in [Messages -> SUBSET Results]
  <1>1. \A x \in Threads : verify'[x] = IF x = th THEN NoVerify ELSE verify[x]
    BY DEF Ends, AuthTypeOK
  <1>2. DOMAIN verify' = Threads
    BY DEF Ends, AuthTypeOK
  <1>3. \A x \in Threads : VerifyOK(x)'
    BY <1>1 DEF AuthTypeOK, VerifyOK, Msg, Copy, Sent
  <1>4. results' \in [Messages -> SUBSET Results]
    BY DEF Ends, AuthTypeOK
  <1> QED
    BY <1>2, <1>3, <1>4

(* A verification that goes on. *)
LEMMA GotoType ==
  ASSUME AuthTypeOK, NEW th \in Threads, verify[th].at # "idle", NEW at \in VerifyPoints,
         NEW c \in 0 .. MaxTime,
         \/ Goto(th, at)
         \/ verify' = [verify EXCEPT ![th].at = at, ![th].clock = c],
         mode' = mode, block' = block
  PROVE  DOMAIN verify' = Threads /\ \A x \in Threads : VerifyOK(x)'
  <1>1. verify[th] \in [at : VerifyPoints, msg : Messages, form : Forms, clock : 0 .. MaxTime]
    BY DEF AuthTypeOK, VerifyOK, NoVerify
  <1>2. /\ \A x \in Threads : x # th => verify'[x] = verify[x]
        /\ verify'[th] \in [at : VerifyPoints, msg : Messages, form : Forms, clock : 0 .. MaxTime]
        /\ verify'[th].msg = verify[th].msg /\ verify'[th].form = verify[th].form
    BY <1>1 DEF Goto, AuthTypeOK
  <1>3. DOMAIN verify' = Threads
    BY DEF Goto, AuthTypeOK
  <1>4. \A x \in Threads : VerifyOK(x)'
    BY <1>1, <1>2 DEF AuthTypeOK, VerifyOK, Msg, Copy, Sent, NoVerify
  <1> QED
    BY <1>3, <1>4

(* The message of a verification that is under way. *)
LEMMA MsgType ==
  ASSUME AuthTypeOK, NEW th \in Threads, verify[th].at # "idle"
  PROVE  /\ Msg(th) \in Messages /\ Home(th) \in Senders /\ Home(th) = Sender[Msg(th)]
         /\ verify[th].at \in VerifyPoints
  BY SenderAssumption DEF AuthTypeOK, VerifyOK, NoVerify, Msg, Home

(* Nonces that leave a bucket. *)
LEMMA DropType ==
  ASSUME AuthTypeOK, NEW s \in Senders, NEW D \in SUBSET bucket[s],
         NEW why \in {"lapsed", "evicted"}, Drop(s, D, why), inserted' = inserted
  PROVE  /\ bucket' \in [Senders -> SUBSET Messages]
         /\ \A x \in Senders : \A m \in bucket'[x] : Sender[m] = x /\ place'[m] \in 1 .. inserted'
         /\ place' \in [Messages -> Nat] /\ inserted' \in Nat
         /\ doubt' \in [Messages -> SUBSET {"lapsed", "evicted", "overlap"}]
  <1>1. \A x \in Senders : bucket'[x] = IF x = s THEN bucket[s] \ D ELSE bucket[x]
    BY DEF Drop, AuthTypeOK
  <1>2. bucket' \in [Senders -> SUBSET Messages]
    BY DEF Drop, AuthTypeOK
  <1>3. \A m \in Messages : place'[m] = IF m \in D THEN 0 ELSE place[m]
    BY DEF Drop
  <1>4. place' \in [Messages -> Nat]
    BY DEF Drop, AuthTypeOK
  <1>5. \A x \in Senders : \A m \in bucket'[x] : Sender[m] = x /\ place'[m] \in 1 .. inserted'
    BY <1>1, <1>2, <1>3 DEF AuthTypeOK
  <1>6. doubt' \in [Messages -> SUBSET {"lapsed", "evicted", "overlap"}]
    BY DEF Drop, AuthTypeOK
  <1> QED
    BY <1>2, <1>4, <1>5, <1>6 DEF AuthTypeOK

(* Every step of a verification. *)
LEMMA VerifyStepType ==
  ASSUME AuthTypeOK, NEW th \in Threads, VerifyStep(th)
  PROVE  AuthTypeOK'
  <1>1. verify[th].at # "idle"
    BY DEF VerifyStep, CheckWindow, Sweep, Trim, PopOldest, Lookup, Record, CheckContent
  <1>2. Msg(th) \in Messages /\ Home(th) \in Senders /\ Home(th) = Sender[Msg(th)]
    BY <1>1, MsgType
  <1>3. 0 \in 0 .. MaxTime /\ now \in 0 .. MaxTime
    BY TimeAssumption DEF AuthTypeOK
  <1>4. CASE CheckWindow(th)
    <2>1. CASE Goto(th, "sweep") /\ UNCHANGED results
      BY <1>1, <1>3, <1>4, <2>1, GotoType DEF CheckWindow, AuthTypeOK, VerifyPoints
    <2>2. ASSUME NEW result \in {"expired_or_skewed", "KeyError"}, Ends(th, Msg(th), result)
          PROVE  AuthTypeOK'
      BY <1>2, <1>4, <2>2, EndsType DEF CheckWindow, AuthTypeOK, Results
    <2> QED
      BY <1>4, <2>1, <2>2 DEF CheckWindow
  <1>5. CASE Sweep(th)
    <2>1. DOMAIN verify' = Threads /\ \A x \in Threads : VerifyOK(x)'
      BY <1>1, <1>3, <1>5, GotoType DEF Sweep, VerifyPoints
    <2>2. CASE Drop(Home(th), {m \in bucket[Home(th)] : Expired(m)}, "lapsed")
      <3> DEFINE D == {m \in bucket[Home(th)] : Expired(m)}
      <3>1. D \in SUBSET bucket[Home(th)] /\ Drop(Home(th), D, "lapsed")
        BY <2>2
      <3> HIDE DEF D
      <3> QED
        BY <1>2, <1>5, <2>1, <3>1, DropType DEF Sweep, AuthTypeOK
    <2>3. CASE UNCHANGED <<bucket, place, doubt>>
      BY <1>5, <2>1, <2>3 DEF Sweep, AuthTypeOK
    <2> QED
      BY <1>5, <2>2, <2>3 DEF Sweep
  <1>6. CASE Trim(th)
    <2>1. DOMAIN verify' = Threads /\ \A x \in Threads : VerifyOK(x)'
      BY <1>1, <1>3, <1>6, GotoType DEF Trim, VerifyPoints
    <2> QED
      BY <1>6, <2>1 DEF Trim, AuthTypeOK
  <1>7. CASE PopOldest(th)
    <2>1. CASE bucket[Home(th)] = {} /\ Ends(th, Msg(th), "KeyError") /\ UNCHANGED <<bucket, place, doubt>>
      BY <1>2, <1>7, <2>1, EndsType DEF PopOldest, AuthTypeOK, Results
    <2>2. ASSUME NEW oldest \in bucket[Home(th)], Drop(Home(th), {oldest}, "evicted"),
                 Goto(th, "trim"), UNCHANGED results
          PROVE  AuthTypeOK'
      <3>1. DOMAIN verify' = Threads /\ \A x \in Threads : VerifyOK(x)'
        BY <1>1, <1>3, <1>7, <2>2, GotoType DEF PopOldest, VerifyPoints
      <3> QED
        BY <1>2, <1>7, <2>2, <3>1, DropType DEF PopOldest, AuthTypeOK
    <2> QED
      BY <1>7, <2>1, <2>2 DEF PopOldest
  <1>8. CASE Lookup(th)
    <2>1. CASE Ends(th, Msg(th), "replay_detected") /\ UNCHANGED doubt
      BY <1>2, <1>8, <2>1, EndsType DEF Lookup, AuthTypeOK, Results
    <2>2. CASE Goto(th, "record") /\ UNCHANGED results
      <3>1. DOMAIN verify' = Threads /\ \A x \in Threads : VerifyOK(x)'
        BY <1>1, <1>3, <1>8, <2>2, GotoType DEF Lookup, VerifyPoints
      <3>2. doubt' \in [Messages -> SUBSET {"lapsed", "evicted", "overlap"}]
        BY <1>2, <1>8 DEF Lookup, AuthTypeOK
      <3> QED
        BY <1>8, <2>2, <3>1, <3>2 DEF Lookup, AuthTypeOK
    <2> QED
      BY <1>8, <2>1, <2>2 DEF Lookup
  <1>9. CASE Record(th)
    <2>1. DOMAIN verify' = Threads /\ \A x \in Threads : VerifyOK(x)'
      BY <1>1, <1>3, <1>9, GotoType DEF Record, VerifyPoints
    <2> DEFINE m0 == Msg(th)
    <2>2. Recorded(m0) /\ m0 \in Messages /\ Sender[m0] \in Senders
      BY <1>2, <1>9 DEF Record
    <2> HIDE DEF m0
    <2>3. /\ bucket' \in [Senders -> SUBSET Messages]
          /\ place' \in [Messages -> Nat] /\ inserted' \in Nat /\ inserted <= inserted'
      BY <2>2 DEF Recorded, AuthTypeOK
    <2>4. ASSUME NEW s \in Senders, NEW m \in bucket'[s]
          PROVE  Sender[m] = s /\ place'[m] \in 1 .. inserted'
      <3>1. CASE m = m0
        <4>1. Sender[m] = s
          BY <2>2, <2>4, <3>1 DEF Recorded, AuthTypeOK
        <4> QED
          BY <2>2, <3>1, <4>1 DEF Recorded, AuthTypeOK, InCache
      <3>2. CASE m # m0
        <4>1. m \in bucket[s]
          BY <2>2, <2>4, <3>2 DEF Recorded, AuthTypeOK
        <4> QED
          BY <2>2, <2>3, <3>2, <4>1 DEF Recorded, AuthTypeOK
      <3> QED
        BY <3>1, <3>2
    <2> QED
      BY <1>9, <2>1, <2>3, <2>4 DEF Record, AuthTypeOK
  <1>10. CASE CheckContent(th)
    <2>1. Verdict(Copy(th)) \in Results
      BY DEF Verdict, Results, LateFailures
    <2>2. accepted' \in [Messages -> Nat]
      BY <1>2, <1>10 DEF CheckContent, AuthTypeOK
    <2> QED
      BY <1>2, <1>10, <2>1, <2>2, EndsType DEF CheckContent, AuthTypeOK
  <1> QED
    BY <1>4, <1>5, <1>6, <1>7, <1>8, <1>9, <1>10 DEF VerifyStep

(* A copy arrives. *)
LEMMA ReceiveType ==
  ASSUME AuthTypeOK, NEW th \in Threads, NEW m \in Messages, NEW form \in Arrives[m],
         Receive(th, m, form)
  PROVE  AuthTypeOK'
  <1>1. copies' \in [Messages -> Nat]
    BY DEF Receive, AuthTypeOK
  <1> DEFINE new == [at |-> "window", msg |-> m, form |-> form, clock |-> 0]
  <1>2. CASE /\ Admission(form) = "window"
             /\ verify' = [verify EXCEPT ![th] = new]
             /\ UNCHANGED results
    <2>1. form.signed /\ mode # "open" /\ form \in Forms
      BY <1>2, FormAssumption DEF Admission, Forms
    <2>2. DOMAIN verify' = Threads
      BY <1>2 DEF AuthTypeOK
    <2>3. ASSUME NEW x \in Threads PROVE VerifyOK(x)'
      <3>1. CASE x = th
        <4>1. verify'[x] = new
          BY <1>2, <3>1 DEF AuthTypeOK
        <4> QED
          <5>1. verify'[x] \in [at : VerifyPoints, msg : Messages, form : Forms,
                               clock : 0 .. MaxTime]
            BY <2>1, <4>1, TimeAssumption DEF VerifyPoints
          <5>2. Msg(x)' = m /\ Copy(x)' = form
            BY <4>1 DEF Msg, Copy
          <5> QED
            BY <2>1, <5>1, <5>2 DEF Receive, VerifyOK, Sent
      <3>2. CASE x # th
        BY <1>2, <3>2 DEF Receive, AuthTypeOK, VerifyOK, Msg, Copy, Sent
      <3> QED
        BY <3>1, <3>2
    <2> QED
      BY <1>1, <1>2, <2>2, <2>3 DEF Receive, AuthTypeOK
  <1>3. CASE Admission(form) # "window" /\ Ends(th, m, Admission(form))
    <2>1. Admission(form) \in Results
      BY <1>3 DEF Admission, Results
    <2> QED
      BY <1>1, <1>3, <2>1, EndsType DEF Receive, AuthTypeOK
  <1> QED
    BY <1>2, <1>3 DEF Receive

(* A message is signed. *)
LEMMA SignType ==
  ASSUME AuthTypeOK, NEW m \in Messages, SignMessage(m)
  PROVE  AuthTypeOK'
  <1> DEFINE issued == now + Drift[Sender[m]]
  <1>1. issued \in Int /\ issued + Ttl \in Int
    BY SenderAssumption, TimeAssumption DEF AuthTypeOK
  <1>2. block' = [block EXCEPT ![m] = [issued |-> issued, expires |-> issued + Ttl]]
    BY DEF SignMessage
  <1>3. block'[m] # Unsent
    BY <1>1, <1>2, TimeAssumption DEF Unsent, AuthTypeOK
  <1> HIDE DEF issued
  <1>4. block' \in [Messages -> [issued : Int, expires : Int]]
    BY <1>1, <1>2 DEF AuthTypeOK
  <1>5. ASSUME NEW x \in Threads PROVE VerifyOK(x)'
    BY <1>2, <1>3 DEF SignMessage, AuthTypeOK, VerifyOK, Msg, Copy, Sent
  <1> QED
    BY <1>4, <1>5 DEF SignMessage, AuthTypeOK

(* Type correctness of the verification of messages. *)
THEOREM AuthTypeCorrect == AuthSpec => []AuthTypeOK
  <1>1. AuthTypeOK /\ [AuthNext]_authVars => AuthTypeOK'
    <2> SUFFICES ASSUME AuthTypeOK, [AuthNext]_authVars PROVE AuthTypeOK'
      OBVIOUS
    <2>1. CASE Tick
      BY <2>1, TimeAssumption DEF Tick, AuthTypeOK, VerifyOK, Msg, Copy, Sent
    <2>2. CASE UNCHANGED authVars
      BY <2>2 DEF authVars, AuthTypeOK, VerifyOK, Msg, Copy, Sent
    <2> QED
      BY <2>1, <2>2, SignType, ReceiveType, VerifyStepType DEF AuthNext
  <1> QED
    BY <1>1, InitTypeAuth, PTL DEF AuthSpec

-----------------------------------------------------------------------------
(* Nonces.                                                                  *)

(* NonceInv, message by message. *)
NonceOK(m) ==
    /\ accepted[m] > 1 => doubt[m] # {}
    /\ accepted[m] > 0 => InCache(m) \/ doubt[m] # {}
    /\ \A th \in Threads :
          /\ Passing(th, m) => InCache(m) \/ doubt[m] # {}
          /\ Past(th, m) /\ accepted[m] > 0 => doubt[m] # {}
          /\ \A other \in Threads \ {th} : Past(th, m) /\ Past(other, m) => doubt[m] # {}
    /\ InCache(m) \/ "replay_detected" \in results[m] =>
          \/ accepted[m] > 0
          \/ \E th \in Threads : Passing(th, m)
          \/ Burnt(m)

(* The invariant, message by message. *)
LEMMA NoncesOK == NonceInv <=> \A m \in Messages : NonceOK(m)
  BY DEF NonceInv, NonceOK

(* Nothing about m changes. *)
LEMMA NonceFrame ==
  ASSUME NEW m \in Messages, NonceOK(m),
         InCache(m)' <=> InCache(m), accepted'[m] = accepted[m], doubt'[m] = doubt[m],
         \A x \in Threads : /\ Past(x, m)' <=> Past(x, m)
                            /\ Passing(x, m)' <=> Passing(x, m),
         results[m] \subseteq results'[m],
         "replay_detected" \in results'[m] => "replay_detected" \in results[m] \/ InCache(m)
  PROVE  NonceOK(m)'
  BY DEF NonceOK, Burnt

(* A verification moves on, or ends without a replay. *)
LEMMA GotoEffect ==
  ASSUME AuthTypeOK, NEW th \in Threads, verify[th].at # "idle", NEW at, Goto(th, at)
  PROVE  /\ \A x \in Threads \ {th} : verify'[x] = verify[x]
         /\ verify'[th].at = at /\ verify'[th].msg = verify[th].msg
  <1>1. verify[th] \in [at : VerifyPoints, msg : Messages, form : Forms, clock : 0 .. MaxTime]
    BY DEF AuthTypeOK, VerifyOK, NoVerify
  <1> QED
    BY <1>1 DEF Goto, AuthTypeOK

(* What the end of a verification changes. *)
LEMMA EndsEffect ==
  ASSUME AuthTypeOK, NEW th \in Threads, NEW m \in Messages, NEW result, Ends(th, m, result)
  PROVE  /\ \A x \in Threads \ {th} : verify'[x] = verify[x]
         /\ verify'[th].at = "idle"
         /\ \A y \in Messages : results[y] \subseteq results'[y]
         /\ result \in results'[m]
         /\ \A y \in Messages : "replay_detected" \in results'[y] =>
               \/ "replay_detected" \in results[y]
               \/ y = m /\ result = "replay_detected"
  BY DEF Ends, NoVerify, AuthTypeOK

(* Steps of one thread, before the replay check. *)
LEMMA EarlyNonces ==
  ASSUME AuthTypeOK, NonceInv, NEW th \in Threads,
         CheckWindow(th) \/ Trim(th) \/ \E m \in Messages : \E form \in Arrives[m] : Receive(th, m, form)
  PROVE  NonceInv'
  <1>1. /\ bucket' = bucket /\ accepted' = accepted /\ doubt' = doubt
        /\ \A x \in Threads \ {th} : verify'[x] = verify[x]
        /\ verify[th].at \notin {"record", "checks"}
        /\ verify'[th].at \notin {"record", "checks"}
        /\ \A m \in Messages : results[m] \subseteq results'[m]
        /\ \A m \in Messages : "replay_detected" \in results'[m] => "replay_detected" \in results[m]
    <2>1. CASE CheckWindow(th)
      <3>1. Msg(th) \in Messages
        BY <2>1, MsgType DEF CheckWindow
      <3>2. CASE Goto(th, "sweep") /\ UNCHANGED results
        BY <2>1, <3>2, GotoEffect DEF CheckWindow
      <3>3. CASE \/ Ends(th, Msg(th), "expired_or_skewed")
                 \/ Ends(th, Msg(th), "KeyError")
        BY <2>1, <3>1, <3>3, EndsEffect DEF CheckWindow
      <3> QED
        BY <2>1, <3>2, <3>3 DEF CheckWindow
    <2>2. CASE Trim(th)
      BY <2>2, GotoEffect DEF Trim
    <2>3. ASSUME NEW m \in Messages, NEW form \in Arrives[m], Receive(th, m, form)
          PROVE  /\ bucket' = bucket /\ accepted' = accepted /\ doubt' = doubt
                 /\ \A x \in Threads \ {th} : verify'[x] = verify[x]
                 /\ verify[th].at \notin {"record", "checks"}
                 /\ verify'[th].at \notin {"record", "checks"}
                 /\ \A y \in Messages : results[y] \subseteq results'[y]
                 /\ \A y \in Messages :
                       "replay_detected" \in results'[y] => "replay_detected" \in results[y]
      <3>1. Admission(form) # "replay_detected"
        BY DEF Admission
      <3> QED
        BY <2>3, <3>1, EndsEffect DEF Receive, AuthTypeOK
    <2> QED
      BY <2>1, <2>2, <2>3
  <1>2. \A m \in Messages, x \in Threads : /\ Past(x, m)' <=> Past(x, m)
                                           /\ Passing(x, m)' <=> Passing(x, m)
    BY <1>1 DEF Past, Passing, Msg
  <1>3. ASSUME NEW m \in Messages PROVE NonceOK(m)'
    BY <1>1, <1>2, <1>3, NoncesOK, NonceFrame DEF InCache
  <1> QED
    BY <1>3 DEF NonceInv, NonceOK

(* Nonces that leave a bucket are put in doubt. *)
LEMMA DropNonces ==
  ASSUME AuthTypeOK, NonceInv, NEW th \in Threads, NEW s \in Senders,
         NEW D \in SUBSET bucket[s], NEW why, Drop(s, D, why),
         accepted' = accepted, results' = results,
         \A x \in Threads \ {th} : verify'[x] = verify[x],
         verify[th].at \notin {"record", "checks"},
         verify'[th].at \notin {"record", "checks"}
  PROVE  NonceInv'
  <1>1. \A m \in Messages, x \in Threads : /\ Past(x, m)' <=> Past(x, m)
                                           /\ Passing(x, m)' <=> Passing(x, m)
    BY DEF Past, Passing, Msg
  <1>2. ASSUME NEW m \in Messages PROVE NonceOK(m)'
    <2>1. NonceOK(m)
      BY NoncesOK
    <2>2. CASE m \in D
      <3>1. doubt'[m] # {} /\ InCache(m)
        BY <2>2 DEF Drop, InCache, AuthTypeOK
      <3> QED
        BY <1>1, <2>1, <3>1 DEF NonceOK, Burnt
    <2>3. CASE m \notin D
      <3>1. doubt'[m] = doubt[m] /\ (InCache(m)' <=> InCache(m))
        BY <2>3 DEF Drop, InCache, AuthTypeOK
      <3> QED
        BY <1>1, <2>1, <3>1, NonceFrame
    <2> QED
      BY <2>2, <2>3
  <1> QED
    BY <1>2 DEF NonceInv, NonceOK

(* The two ways a nonce leaves a bucket. *)
LEMMA CollectNonces ==
  ASSUME AuthTypeOK, NonceInv, NEW th \in Threads, Sweep(th) \/ PopOldest(th)
  PROVE  NonceInv'
  <1>1. verify[th].at \notin {"record", "checks"}
    BY DEF Sweep, PopOldest
  <1>2. Home(th) \in Senders
    BY MsgType DEF Sweep, PopOldest
  <1>3. CASE UNCHANGED <<bucket, doubt>>
    <2>1. /\ accepted' = accepted
          /\ \A x \in Threads \ {th} : verify'[x] = verify[x]
          /\ verify'[th].at \notin {"record", "checks"}
          /\ \A m \in Messages : results[m] \subseteq results'[m]
          /\ \A m \in Messages :
                "replay_detected" \in results'[m] => "replay_detected" \in results[m]
      <3>1. Msg(th) \in Messages
        BY MsgType DEF Sweep, PopOldest
      <3>2. CASE Sweep(th)
        BY <3>2 DEF Sweep, AuthTypeOK, VerifyOK, NoVerify
      <3>3. CASE PopOldest(th) /\ Ends(th, Msg(th), "KeyError")
        BY <3>1, <3>3, EndsEffect DEF PopOldest
      <3>4. CASE PopOldest(th) /\ Goto(th, "trim") /\ UNCHANGED results
        BY <3>4, GotoEffect DEF PopOldest
      <3> QED
        BY <3>2, <3>3, <3>4 DEF PopOldest
    <2>2. \A m \in Messages, x \in Threads : /\ Past(x, m)' <=> Past(x, m)
                                             /\ Passing(x, m)' <=> Passing(x, m)
      BY <1>1, <2>1 DEF Past, Passing, Msg
    <2>3. ASSUME NEW m \in Messages PROVE NonceOK(m)'
      BY <1>3, <2>1, <2>2, NoncesOK, NonceFrame DEF InCache
    <2> QED
      BY <2>3 DEF NonceInv, NonceOK
  <1>4. ASSUME NEW D \in SUBSET bucket[Home(th)], NEW why, Drop(Home(th), D, why),
               results' = results, accepted' = accepted,
               \A x \in Threads \ {th} : verify'[x] = verify[x],
               verify'[th].at = "trim"
        PROVE  NonceInv'
    BY <1>1, <1>2, <1>4, DropNonces
  <1>5. CASE Sweep(th) /\ Drop(Home(th), {m \in bucket[Home(th)] : Expired(m)}, "lapsed")
    <2> DEFINE D == {m \in bucket[Home(th)] : Expired(m)}
    <2>1. D \in SUBSET bucket[Home(th)] /\ Drop(Home(th), D, "lapsed")
      BY <1>5
    <2>2. /\ results' = results /\ accepted' = accepted
          /\ \A x \in Threads \ {th} : verify'[x] = verify[x]
          /\ verify'[th].at = "trim"
      BY <1>5 DEF Sweep, AuthTypeOK, VerifyOK, NoVerify
    <2> HIDE DEF D
    <2> QED
      BY <1>4, <2>1, <2>2
  <1>6. ASSUME PopOldest(th), NEW oldest \in bucket[Home(th)],
               Drop(Home(th), {oldest}, "evicted"), Goto(th, "trim"), UNCHANGED results
        PROVE  NonceInv'
    <2>1. verify[th] \in [at : VerifyPoints, msg : Messages, form : Forms, clock : 0 .. MaxTime]
      BY <1>6 DEF PopOldest, AuthTypeOK, VerifyOK, NoVerify
    <2>2. /\ accepted' = accepted
          /\ \A x \in Threads \ {th} : verify'[x] = verify[x]
          /\ verify'[th].at = "trim"
      BY <1>6, <2>1 DEF PopOldest, Goto, AuthTypeOK
    <2> QED
      BY <1>4, <1>6, <2>2
  <1> QED
    BY <1>3, <1>5, <1>6 DEF Sweep, PopOldest

(* The lookup: a miss puts the message in doubt unless no copy of it is ahead. *)
LEMMA LookupNonces ==
  ASSUME AuthTypeOK, NonceInv, NEW th \in Threads, Lookup(th)
  PROVE  NonceInv'
  <1>1. PICK m0 \in Messages : m0 = Msg(th)
    BY MsgType DEF Lookup
  <1>2. verify[th].at = "lookup" /\ bucket' = bucket /\ accepted' = accepted
    BY DEF Lookup
  <1>3. CASE Seen(th) /\ Ends(th, m0, "replay_detected") /\ UNCHANGED doubt
    <2>1. \A m \in Messages, x \in Threads : /\ Past(x, m)' <=> Past(x, m)
                                             /\ Passing(x, m)' <=> Passing(x, m)
      BY <1>2, <1>3, EndsEffect DEF Past, Passing, Msg
    <2>2. \A m \in Messages : "replay_detected" \in results'[m] =>
                                 "replay_detected" \in results[m] \/ InCache(m)
      BY <1>1, <1>3, EndsEffect DEF Seen
    <2>3. ASSUME NEW m \in Messages PROVE NonceOK(m)'
      <3>1. results[m] \subseteq results'[m]
        BY <1>3, EndsEffect
      <3> QED
        BY <1>2, <1>3, <2>1, <2>2, <3>1, NoncesOK, NonceFrame DEF InCache
    <2> QED
      BY <2>3 DEF NonceInv, NonceOK
  <1>4. CASE ~Seen(th) /\ Goto(th, "record") /\ UNCHANGED results
    <2>1. /\ \A x \in Threads \ {th} : verify'[x] = verify[x]
          /\ verify'[th].at = "record" /\ verify'[th].msg = m0
      BY <1>1, <1>2, <1>4, GotoEffect DEF Msg
    <2>2. /\ \A m \in Messages \ {m0} : doubt'[m] = doubt[m]
          /\ doubt'[m0] = doubt[m0] \cup (IF Lapsed(th) THEN {"lapsed"} ELSE {})
                                    \cup (IF Overlaps(th) THEN {"overlap"} ELSE {})
      BY <1>1, <1>4 DEF Lookup, Seen, AuthTypeOK, Ends, Goto, NoVerify
    <2>3. InCache(m0) => Lapsed(th)
      <3>1. block[m0].expires \in Int /\ verify[th].clock \in Int
        BY <1>1, <1>2, TimeAssumption DEF AuthTypeOK, VerifyOK, NoVerify
      <3> QED
        BY <1>1, <1>4, <3>1 DEF Seen, Lapsed
    <2>4. \A m \in Messages, x \in Threads : Passing(x, m)' <=> Passing(x, m)
      BY <1>2, <2>1 DEF Passing, Msg
    <2>5. \A m \in Messages, x \in Threads \ {th} : Past(x, m)' <=> Past(x, m)
      BY <2>1 DEF Past, Msg
    <2>6. \A m \in Messages : (Past(th, m)' <=> m = m0) /\ ~Past(th, m)
      BY <1>2, <2>1 DEF Past, Msg
    <2>7. \A m \in Messages : InCache(m)' <=> InCache(m)
      BY <1>2 DEF InCache
    <2>8. ASSUME NEW m \in Messages, m # m0 PROVE NonceOK(m)'
      BY <1>2, <1>4, <2>2, <2>4, <2>5, <2>6, <2>7, <2>8, NoncesOK, NonceFrame
    <2>9. NonceOK(m0)'
      <3>1. NonceOK(m0)
        BY NoncesOK
      <3>2. doubt[m0] # {} \/ Lapsed(th) \/ Overlaps(th) => doubt'[m0] # {}
        BY <2>2
      <3>3. \A x \in Threads : Passing(x, m0) => doubt'[m0] # {}
        BY <2>3, <3>1, <3>2 DEF NonceOK
      <3>4. accepted[m0] > 0 => doubt'[m0] # {}
        BY <2>3, <3>1, <3>2 DEF NonceOK
      <3>5. ASSUME NEW x \in Threads \ {th}, Past(x, m0) PROVE doubt'[m0] # {}
        BY <1>1, <3>2, <3>3, <3>5 DEF Past, Passing, Overlaps
      <3>6. accepted[m0] > 1 => doubt'[m0] # {}
        BY <3>1, <3>2 DEF NonceOK
      <3>7. \A x, y \in Threads : x # y /\ Past(x, m0)' /\ Past(y, m0)' => doubt'[m0] # {}
        BY <2>5, <3>5
      <3>8. InCache(m0) \/ "replay_detected" \in results[m0] =>
               accepted[m0] > 0 \/ (\E x \in Threads : Passing(x, m0)) \/ Burnt(m0)
        BY <3>1 DEF NonceOK
      <3> QED
        BY <1>2, <1>4, <2>4, <2>7, <3>3, <3>4, <3>6, <3>7, <3>8 DEF NonceOK, Burnt
    <2>10. \A m \in Messages : NonceOK(m)'
      BY <2>8, <2>9
    <2> QED
      BY <2>10 DEF NonceInv, NonceOK
  <1> QED
    BY <1>1, <1>3, <1>4 DEF Lookup

(* The record: from here on the cache, or a doubt, speaks for the message. *)
LEMMA RecordNonces ==
  ASSUME AuthTypeOK, NonceInv, NEW th \in Threads, Record(th)
  PROVE  NonceInv'
  <1>1. PICK m0 \in Messages : m0 = Msg(th)
    BY MsgType DEF Record
  <1>2. /\ verify[th].at = "record" /\ accepted' = accepted /\ results' = results /\ doubt' = doubt
        /\ \A x \in Threads \ {th} : verify'[x] = verify[x]
        /\ verify'[th].at = "checks" /\ verify'[th].msg = m0
    BY <1>1, GotoEffect DEF Record, Msg
  <1>3. \A m \in Messages : InCache(m)' <=> InCache(m) \/ m = m0
    <2>1. m0 \in Messages /\ Sender[m0] \in Senders
      BY SenderAssumption
    <2> QED
      BY <1>1, <2>1, SenderAssumption DEF Record, Recorded, InCache, AuthTypeOK
  <1>4. \A m \in Messages, x \in Threads : Past(x, m)' <=> Past(x, m)
    BY <1>1, <1>2 DEF Past, Msg
  <1>5. \A m \in Messages, x \in Threads : x # th \/ m # m0 => (Passing(x, m)' <=> Passing(x, m))
    BY <1>1, <1>2 DEF Passing, Msg
  <1>6. Passing(th, m0)'
    BY <1>2 DEF Passing, Msg
  <1>7. ASSUME NEW m \in Messages PROVE NonceOK(m)'
    <2>1. NonceOK(m)
      BY NoncesOK
    <2>2. CASE m = m0
      BY <1>2, <1>3, <1>4, <1>6, <2>1, <2>2 DEF NonceOK
    <2>3. CASE m # m0
      BY <1>2, <1>3, <1>4, <1>5, <2>1, <2>3, NonceFrame
    <2> QED
      BY <2>2, <2>3
  <1> QED
    BY <1>7 DEF NonceInv, NonceOK

(* The content checks: an acceptance is the first, or one in doubt. *)
LEMMA ContentNonces ==
  ASSUME AuthTypeOK, NonceInv, NEW th \in Threads, CheckContent(th)
  PROVE  NonceInv'
  <1>1. PICK m0 \in Messages : m0 = Msg(th)
    BY MsgType DEF CheckContent
  <1>2. /\ verify[th].at = "checks" /\ bucket' = bucket /\ doubt' = doubt
        /\ \A x \in Threads \ {th} : verify'[x] = verify[x]
        /\ verify'[th].at = "idle"
    BY <1>1, EndsEffect DEF CheckContent
  <1>3. /\ \A m \in Messages : results[m] \subseteq results'[m]
        /\ \A m \in Messages :
              "replay_detected" \in results'[m] => "replay_detected" \in results[m]
        /\ Verdict(Copy(th)) \in results'[m0]
    <2>1. Verdict(Copy(th)) # "replay_detected"
      BY DEF Verdict
    <2> QED
      BY <1>1, <2>1, EndsEffect DEF CheckContent
  <1>4. /\ \A m \in Messages \ {m0} : accepted'[m] = accepted[m]
        /\ accepted'[m0] = IF Verdict(Copy(th)) = "signed" THEN accepted[m0] + 1 ELSE accepted[m0]
        /\ accepted[m0] \in Nat
    BY <1>1 DEF CheckContent, AuthTypeOK
  <1>5. Passing(th, m0) /\ Past(th, m0)
    BY <1>1, <1>2 DEF Passing, Past
  <1>6. \A m \in Messages, x \in Threads \ {th} : /\ Past(x, m)' <=> Past(x, m)
                                                  /\ Passing(x, m)' <=> Passing(x, m)
    BY <1>2 DEF Past, Passing, Msg
  <1>7. \A m \in Messages : ~Past(th, m)' /\ ~Passing(th, m)'
    BY <1>2 DEF Past, Passing
  <1>8. \A m \in Messages : InCache(m)' <=> InCache(m)
    BY <1>2 DEF InCache
  <1>9. ASSUME NEW m \in Messages, m # m0 PROVE NonceOK(m)'
    <2>1. ~Past(th, m) /\ ~Passing(th, m)
      BY <1>1, <1>9 DEF Past, Passing
    <2> QED
      BY <1>2, <1>3, <1>4, <1>6, <1>7, <1>8, <1>9, <2>1, NoncesOK, NonceFrame
  <1>10. NonceOK(m0)'
    <2>1. NonceOK(m0)
      BY NoncesOK
    <2>2. InCache(m0) \/ doubt[m0] # {}
      BY <1>5, <2>1 DEF NonceOK
    <2>3. accepted[m0] > 0 => doubt[m0] # {}
      BY <1>5, <2>1 DEF NonceOK
    <2>4. \A x \in Threads \ {th} : Past(x, m0) => doubt[m0] # {}
      BY <1>5, <2>1 DEF NonceOK
    <2>5. accepted'[m0] > 1 => doubt[m0] # {}
      BY <1>4, <2>1, <2>3 DEF NonceOK
    <2>6. accepted'[m0] > 0 \/ Burnt(m0)'
      <3>1. CASE Verdict(Copy(th)) = "signed"
        BY <1>4, <3>1
      <3>2. CASE Verdict(Copy(th)) # "signed"
        <4>1. Verdict(Copy(th)) \in LateFailures
          BY <3>2 DEF Verdict, LateFailures
        <4> QED
          BY <1>3, <4>1 DEF Burnt
      <3> QED
        BY <3>1, <3>2
    <2>8. \A x \in Threads : Past(x, m0)' => doubt[m0] # {}
      BY <1>6, <1>7, <2>4
    <2>9. \A x \in Threads : Passing(x, m0)' => Past(x, m0)'
      BY DEF Passing, Past
    <2> QED
      BY <1>2, <1>8, <2>2, <2>5, <2>6, <2>8, <2>9 DEF NonceOK
  <1> QED
    <2>1. \A m \in Messages : NonceOK(m)'
      BY <1>9, <1>10
    <2> QED
      BY <2>1 DEF NonceInv, NonceOK

(* The replay cache keeps what AcceptedOnce and ReplayedNotLost rely on. *)
THEOREM NoncesCorrect == AuthSpec => []NonceInv
  <1>1. AuthInit => NonceInv
    BY SenderAssumption DEF AuthInit, NonceInv, NoVerify, Past, Passing, InCache
  <1>2. AuthTypeOK /\ NonceInv /\ [AuthNext]_authVars => NonceInv'
    <2> SUFFICES ASSUME AuthTypeOK, NonceInv, [AuthNext]_authVars PROVE NonceInv'
      OBVIOUS
    <2>1. ASSUME bucket' = bucket, accepted' = accepted, doubt' = doubt, verify' = verify,
                 results' = results
          PROVE  NonceInv'
      BY <2>1 DEF NonceInv, Past, Passing, Msg, InCache, Burnt
    <2>2. CASE Tick \/ (\E m \in Messages : SignMessage(m)) \/ UNCHANGED authVars
      BY <2>1, <2>2 DEF Tick, SignMessage, authVars
    <2>3. ASSUME NEW th \in Threads, VerifyStep(th) PROVE NonceInv'
      BY <2>3, EarlyNonces, CollectNonces, LookupNonces, RecordNonces, ContentNonces
         DEF VerifyStep
    <2> QED
      BY <2>2, <2>3, EarlyNonces DEF AuthNext
  <1> QED
    BY <1>1, <1>2, AuthTypeCorrect, PTL DEF AuthSpec

(* A signed message is accepted once, but for the three limits of the cache. *)
THEOREM AcceptedAtMostOnce == AuthSpec => []AcceptedOnce
  <1>1. NonceInv => AcceptedOnce
    BY DEF NonceInv, AcceptedOnce
  <1> QED
    BY <1>1, NoncesCorrect, PTL

(* A refusal as a replay speaks for an earlier copy of the message that was accepted,
   is in its checks, or failed them with the nonce recorded. *)
THEOREM ReplaysAreNotLost == AuthSpec => []ReplayedNotLost
  <1>1. NonceInv => ReplayedNotLost
    BY DEF NonceInv, ReplayedNotLost
  <1> QED
    BY <1>1, NoncesCorrect, PTL
-----------------------------------------------------------------------------
(* The size of a bucket.                                                    *)

(* The threads that have found the bucket of s within its limit and have not yet
   inserted into it. *)
Due(s) == {th \in Threads : verify[th].at \in {"lookup", "record"} /\ Home(th) = s}

SizeOK(s) ==
    /\ IsFiniteSet(bucket[s])
    /\ Cardinality(bucket[s]) + Cardinality(Due(s)) <= MaxNonces + Cardinality(Threads)

(* A bucket and the insertions that are due to it never outgrow the limit by more
   than one nonce per thread. *)
BucketInv == \A s \in Senders : SizeOK(s)

(* The threads that are about to insert are finitely many. *)
LEMMA DueFinite ==
  ASSUME NEW s
  PROVE  /\ IsFiniteSet(Due(s)) /\ Cardinality(Due(s)) \in Nat
         /\ Cardinality(Due(s)) <= Cardinality(Threads) /\ Cardinality(Threads) \in Nat
  <1>1. Due(s) \in SUBSET Threads
    BY DEF Due
  <1> QED
    BY <1>1, CacheAssumption, FS_Subset, FS_CardinalityType

(* Neither the bucket nor what is due to it grows. *)
LEMMA SizeFrame ==
  ASSUME NEW s, SizeOK(s), bucket'[s] \subseteq bucket[s], Due(s)' \subseteq Due(s)
  PROVE  SizeOK(s)'
  <1>1. /\ IsFiniteSet(bucket'[s]) /\ Cardinality(bucket'[s]) \in Nat
        /\ Cardinality(bucket[s]) \in Nat /\ Cardinality(bucket'[s]) <= Cardinality(bucket[s])
    BY FS_Subset, FS_CardinalityType DEF SizeOK
  <1>2. /\ Cardinality(Due(s)') \in Nat /\ Cardinality(Due(s)) \in Nat
        /\ Cardinality(Due(s)') <= Cardinality(Due(s))
    BY DueFinite, FS_Subset, FS_CardinalityType
  <1>3. Cardinality(Threads) \in Nat /\ MaxNonces \in Nat
    BY CacheAssumption, FS_CardinalityType
  <1> QED
    BY <1>1, <1>2, <1>3 DEF SizeOK

(* A thread that is due stays so, or ceases to be. *)
LEMMA DueFrame ==
  ASSUME NEW th \in Threads, NEW s,
         \A x \in Threads \ {th} : verify'[x] = verify[x],
         \/ verify'[th].at \notin {"lookup", "record"}
         \/ verify[th].at \in {"lookup", "record"} /\ verify'[th].msg = verify[th].msg
  PROVE  Due(s)' \subseteq Due(s)
  BY DEF Due, Home, Msg

(* A step that inserts nothing and does not pass the limit. *)
LEMMA SizeKept ==
  ASSUME BucketInv, NEW th \in Threads,
         \A s \in Senders : bucket'[s] \subseteq bucket[s],
         \A x \in Threads \ {th} : verify'[x] = verify[x],
         \/ verify'[th].at \notin {"lookup", "record"}
         \/ verify[th].at \in {"lookup", "record"} /\ verify'[th].msg = verify[th].msg
  PROVE  BucketInv'
  <1>1. ASSUME NEW s \in Senders PROVE SizeOK(s)'
    <2>1. Due(s)' \subseteq Due(s)
      BY DueFrame
    <2> QED
      BY <2>1, SizeFrame DEF BucketInv
  <1> QED
    BY <1>1 DEF BucketInv

(* The nonces of s leave its bucket only. *)
LEMMA DropShrinks ==
  ASSUME AuthTypeOK, NEW t, NEW D, NEW why, Drop(t, D, why)
  PROVE  \A s \in Senders : bucket'[s] \subseteq bucket[s]
  BY DEF Drop, AuthTypeOK

(* The steps of a verification that neither pass the limit nor insert. *)
LEMMA OtherSizes ==
  ASSUME AuthTypeOK, BucketInv, NEW th \in Threads,
         \/ \E m \in Messages : \E form \in Arrives[m] : Receive(th, m, form)
         \/ CheckWindow(th) \/ Sweep(th) \/ PopOldest(th) \/ Lookup(th) \/ CheckContent(th)
  PROVE  BucketInv'
  <1>1. verify[th].at # "idle" => Msg(th) \in Messages
    BY MsgType
  <1>2. ASSUME NEW m \in Messages, NEW form \in Arrives[m], Receive(th, m, form) PROVE BucketInv'
    BY <1>2, EndsEffect, SizeKept DEF Receive, AuthTypeOK
  <1>3. CASE CheckWindow(th)
    BY <1>1, <1>3, EndsEffect, GotoEffect, SizeKept DEF CheckWindow
  <1>4. CASE Sweep(th)
    <2>1. /\ \A x \in Threads \ {th} : verify'[x] = verify[x]
          /\ verify'[th].at = "trim"
      BY <1>4 DEF Sweep, AuthTypeOK, VerifyOK, NoVerify
    <2>2. \A s \in Senders : bucket'[s] \subseteq bucket[s]
      BY <1>4, DropShrinks DEF Sweep
    <2> QED
      BY <2>1, <2>2, SizeKept
  <1>5. CASE PopOldest(th)
    <2>1. \A s \in Senders : bucket'[s] \subseteq bucket[s]
      BY <1>5, DropShrinks DEF PopOldest
    <2>2. verify[th].at = "pop" /\ (Goto(th, "trim") \/ Ends(th, Msg(th), "KeyError"))
      BY <1>5 DEF PopOldest
    <2> QED
      BY <1>1, <2>1, <2>2, EndsEffect, GotoEffect, SizeKept
  <1>6. CASE Lookup(th)
    BY <1>1, <1>6, EndsEffect, GotoEffect, SizeKept DEF Lookup
  <1>7. CASE CheckContent(th)
    BY <1>1, <1>7, EndsEffect, SizeKept DEF CheckContent
  <1> QED
    BY <1>2, <1>3, <1>4, <1>5, <1>6, <1>7

(* A thread goes on to insert only while the bucket is within its limit. *)
LEMMA TrimSize ==
  ASSUME AuthTypeOK, BucketInv, NEW th \in Threads, Trim(th)
  PROVE  BucketInv'
  <1>1. /\ bucket' = bucket /\ verify[th].at = "trim"
        /\ \A x \in Threads \ {th} : verify'[x] = verify[x]
        /\ verify'[th].at = IF Full(Home(th)) THEN "pop" ELSE "lookup"
        /\ verify'[th].msg = verify[th].msg
    BY GotoEffect DEF Trim
  <1>2. CASE Full(Home(th))
    BY <1>1, <1>2, SizeKept
  <1>3. CASE ~Full(Home(th))
    <2>1. ASSUME NEW s \in Senders PROVE SizeOK(s)'
      <3>1. CASE s = Home(th)
        <4>1. IsFiniteSet(bucket[s]) /\ Cardinality(bucket[s]) \in Nat /\ MaxNonces \in Nat
          BY CacheAssumption, FS_CardinalityType DEF BucketInv, SizeOK
        <4>2. Cardinality(bucket[s]) <= MaxNonces
          BY <1>3, <3>1, <4>1 DEF Full
        <4>3. Cardinality(Due(s)') <= Cardinality(Threads) /\ Cardinality(Due(s)') \in Nat
              /\ Cardinality(Threads) \in Nat
          <5>1. Due(s)' \in SUBSET Threads
            BY DEF Due
          <5> QED
            BY <5>1, CacheAssumption, FS_Subset, FS_CardinalityType
        <4> QED
          BY <1>1, <4>1, <4>2, <4>3 DEF SizeOK
      <3>2. CASE s # Home(th)
        <4>1. Due(s)' \subseteq Due(s)
          BY <1>1, <3>2 DEF Due, Home, Msg
        <4> QED
          BY <1>1, <4>1, SizeFrame DEF BucketInv
      <3> QED
        BY <3>1, <3>2
    <2> QED
      BY <2>1 DEF BucketInv
  <1> QED
    BY <1>2, <1>3

(* What is inserted was due. *)
LEMMA RecordSize ==
  ASSUME AuthTypeOK, BucketInv, NEW th \in Threads, Record(th)
  PROVE  BucketInv'
  <1>1. /\ verify[th].at = "record" /\ Msg(th) \in Messages /\ Home(th) \in Senders
        /\ Home(th) = Sender[Msg(th)]
        /\ \A x \in Threads \ {th} : verify'[x] = verify[x]
        /\ verify'[th].at = "checks"
        /\ bucket' = [bucket EXCEPT ![Home(th)] = @ \cup {Msg(th)}]
    BY MsgType, GotoEffect DEF Record, Recorded
  <1>2. ASSUME NEW s \in Senders PROVE SizeOK(s)'
    <2>1. CASE s = Home(th)
      <3>1. Due(s)' = Due(s) \ {th} /\ th \in Due(s)
        BY <1>1, <2>1 DEF Due, Home, Msg
      <3>2. /\ Cardinality(Due(s)') = Cardinality(Due(s)) - 1
            /\ Cardinality(Due(s)) \in Nat /\ Cardinality(Threads) \in Nat
        BY <3>1, DueFinite, FS_RemoveElement
      <3>3. bucket'[s] = bucket[s] \cup {Msg(th)}
        BY <1>1, <2>1 DEF AuthTypeOK
      <3>4. /\ IsFiniteSet(bucket'[s]) /\ Cardinality(bucket[s]) \in Nat
            /\ Cardinality(bucket'[s]) \in {Cardinality(bucket[s]), Cardinality(bucket[s]) + 1}
        <4>1. IsFiniteSet(bucket[s])
          BY DEF BucketInv, SizeOK
        <4>2. /\ IsFiniteSet(bucket[s] \cup {Msg(th)})
              /\ Cardinality(bucket[s] \cup {Msg(th)}) =
                    IF Msg(th) \in bucket[s] THEN Cardinality(bucket[s]) ELSE Cardinality(bucket[s]) + 1
          BY <4>1, FS_AddElement
        <4> QED
          BY <3>3, <4>1, <4>2, FS_CardinalityType
      <3>5. /\ Cardinality(bucket[s]) + Cardinality(Due(s)) <= MaxNonces + Cardinality(Threads)
            /\ MaxNonces \in Nat
        BY CacheAssumption DEF BucketInv, SizeOK
      <3>6. Cardinality(bucket'[s]) + Cardinality(Due(s)') <= MaxNonces + Cardinality(Threads)
        BY <3>2, <3>4, <3>5
      <3> QED
        BY <3>4, <3>6 DEF SizeOK
    <2>2. CASE s # Home(th)
      <3>1. bucket'[s] = bucket[s]
        BY <1>1, <2>2 DEF AuthTypeOK
      <3>2. Due(s)' \subseteq Due(s)
        BY <1>1, DueFrame
      <3> QED
        BY <3>1, <3>2, SizeFrame DEF BucketInv
    <2> QED
      BY <2>1, <2>2
  <1> QED
    BY <1>2 DEF BucketInv

(* A sender's bucket outgrows its limit by no more than one nonce per thread, although
   the cache has no lock: a thread that tests the limit before it inserts may find the
   nonces of all the others inserted in between, and no more. *)
THEOREM BucketsBounded == AuthSpec => []BucketBounded
  <1>1. AuthInit => BucketInv
    <2> SUFFICES ASSUME AuthInit, NEW s \in Senders PROVE SizeOK(s)
      BY DEF BucketInv
    <2>1. bucket[s] = {} /\ Cardinality({}) = 0 /\ IsFiniteSet({})
      BY FS_EmptySet DEF AuthInit
    <2>2. Cardinality(Due(s)) \in Nat /\ Cardinality(Due(s)) <= Cardinality(Threads)
          /\ Cardinality(Threads) \in Nat /\ MaxNonces \in Nat
      BY DueFinite, CacheAssumption
    <2> QED
      BY <2>1, <2>2 DEF SizeOK
  <1>2. AuthTypeOK /\ BucketInv /\ [AuthNext]_authVars => BucketInv'
    <2> SUFFICES ASSUME AuthTypeOK, BucketInv, [AuthNext]_authVars PROVE BucketInv'
      OBVIOUS
    <2>1. CASE Tick \/ (\E m \in Messages : SignMessage(m)) \/ UNCHANGED authVars
      BY <2>1 DEF Tick, SignMessage, authVars, BucketInv, SizeOK, Due, Home, Msg
    <2>2. ASSUME NEW th \in Threads,
                 \/ VerifyStep(th)
                 \/ \E m \in Messages : \E form \in Arrives[m] : Receive(th, m, form)
          PROVE  BucketInv'
      BY <2>2, OtherSizes, TrimSize, RecordSize DEF VerifyStep
    <2> QED
      BY <2>1, <2>2 DEF AuthNext
  <1>3. BucketInv => BucketBounded
    <2> SUFFICES ASSUME BucketInv, NEW s \in Senders
                 PROVE  Cardinality(bucket[s]) <= MaxNonces + Cardinality(Threads)
      BY DEF BucketBounded
    <2>1. /\ Cardinality(bucket[s]) \in Nat /\ Cardinality(Due(s)) \in Nat
          /\ Cardinality(Threads) \in Nat /\ MaxNonces \in Nat
          /\ Cardinality(bucket[s]) + Cardinality(Due(s)) <= MaxNonces + Cardinality(Threads)
      BY DueFinite, CacheAssumption, FS_CardinalityType DEF BucketInv, SizeOK
    <2> QED
      BY <2>1
  <1> QED
    BY <1>1, <1>2, <1>3, AuthTypeCorrect, PTL DEF AuthSpec
=============================================================================
