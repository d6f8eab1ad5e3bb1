--------------------------------- MODULE Auth ---------------------------------
(***************************************************************************)
(* x-zynd-auth, src/zyndai_agent/a2a/auth.py: senders sign messages, the   *)
(* network delivers copies late and more than once, and the threads of a   *)
(* server verify them against one ReplayCache, which has no lock.          *)
(*                                                                         *)
(* A message stands for its nonce (16 fresh random bytes): the cache is an *)
(* OrderedDict of nonces per sender, with the expiry of the auth block.    *)
(* Copies may be altered on the way, with the sender, the nonce and the    *)
(* window left alone: each arrives in a form of its own.                   *)
(***************************************************************************)
EXTENDS Integers, FiniteSets

CONSTANTS
    Threads,     \* the server threads that run verify_message
    Messages,    \* the messages that are sent
    Senders,     \* entity ids
    Sender,      \* the entity id in a message's auth block
    Arrives,     \* the forms in which copies of a message may arrive: see Forms
    Modes,       \* the auth modes a server may be started with
    Drift,       \* how far a sender's clock is ahead of the server's
    Ttl,         \* ttl_seconds
    Skew,        \* skew_seconds
    MaxNonces,   \* _MAX_NONCES_PER_SENDER
    MaxTime,     \* bound on the server's clock
    MaxCopies    \* bound on the copies of each message that arrive

AuthModes == {"strict", "permissive", "open"}

(* What the checks find in a copy. *)
Forms == [signed : BOOLEAN,      \* metadata carries an x-zynd-auth block
          version : BOOLEAN,     \* its v is the one the server expects
          lacks : {"nothing", "times", "nonce", "public_key", "signature"},
          entity : BOOLEAN,      \* entity_id is the hash of its public_key
          intact : BOOLEAN,      \* the signature covers the message as received
          proof : {"none", "valid", "invalid"}]   \* developer_proof

ASSUME SenderAssumption == Sender \in [Messages -> Senders] /\ Drift \in [Senders -> Int]
ASSUME FormAssumption == Arrives \in [Messages -> SUBSET Forms] /\ Modes \subseteq AuthModes
ASSUME TimeAssumption == Ttl \in Nat /\ Skew \in Nat /\ MaxTime \in Nat
                         /\ MaxCopies \in [Messages -> Nat]
ASSUME CacheAssumption == IsFiniteSet(Threads) /\ MaxNonces \in Nat

VARIABLES
    now,         \* the server's clock
    mode,        \* auth_mode, fixed when the server is built
    block,       \* the auth block of each message once it is sent
    copies,      \* how many copies of each message have arrived
    verify,      \* where each thread is inside verify_message, and with which copy
    bucket,      \* _per_sender: the nonces kept for each sender
    place,       \* their insertion order; 0 for a nonce that is in no bucket
    inserted,    \* how many nonces have been inserted
    results,     \* how verifications of each message have ended
    accepted,    \* how often each message was accepted as signed
    doubt        \* why the cache may have let a second copy of a message through

authVars == <<now, mode, block, copies, verify, bucket, place, inserted, results, accepted, doubt>>

Unsent == [issued |-> 0, expires |-> -1]    \* no sent block: it expires after it is issued
NoMessage == "no message"
NoForm == "no form"
NoVerify == [at |-> "idle", msg |-> NoMessage, form |-> NoForm, clock |-> 0]

Sent(m) == block[m] # Unsent

(* The message a thread verifies a copy of, the copy's form, and the bucket the
   nonce goes to.                                                            *)
Msg(th) == verify[th].msg
Copy(th) == verify[th].form
Home(th) == Sender[Msg(th)]

InCache(m) == m \in bucket[Sender[m]]

AuthInit ==
    /\ now = 0
    /\ mode \in Modes
    /\ block = [m \in Messages |-> Unsent]
    /\ copies = [m \in Messages |-> 0]
    /\ verify = [th \in Threads |-> NoVerify]
    /\ bucket = [s \in Senders |-> {}]
    /\ place = [m \in Messages |-> 0]
    /\ inserted = 0
    /\ results = [m \in Messages |-> {}]
    /\ accepted = [m \in Messages |-> 0]
    /\ doubt = [m \in Messages |-> {}]

-----------------------------------------------------------------------------
(* The sender, and time.                                                    *)

Tick ==
    /\ now < MaxTime
    /\ now' = now + 1
    /\ UNCHANGED <<mode, block, copies, verify, bucket, place, inserted, results, accepted, doubt>>

(* sign_message: the window starts at the sender's clock. *)
SignMessage(m) ==
    LET issued == now + Drift[Sender[m]] IN
    /\ ~Sent(m)
    /\ block' = [block EXCEPT ![m] = [issued |-> issued, expires |-> issued + Ttl]]
    /\ UNCHANGED <<now, mode, copies, verify, bucket, place, inserted, results, accepted, doubt>>

-----------------------------------------------------------------------------
(* verify_message.                                                          *)

Goto(th, at) == verify' = [verify EXCEPT ![th].at = at]

(* The verification of m by th ends: a reason to refuse, or a way to admit it. *)
Ends(th, m, result) ==
    /\ verify' = [verify EXCEPT ![th] = NoVerify]
    /\ results' = [results EXCEPT ![m] = @ \cup {result}]

(* Variant: a block that is present is verified in mode open, too. *)
AdmissionVerifies(form) ==
    IF ~form.signed THEN "unsigned"
    ELSE IF ~form.version THEN "unsupported_version"
    ELSE "window"

(* What mode, a missing block and its version decide without looking at the
   clock; "window" when the checks go on. *)
Admission(form) ==
    IF mode = "open" THEN "unverified"
    ELSE IF ~form.signed THEN (IF mode = "strict" THEN "missing_auth" ELSE "unsigned")
    ELSE IF ~form.version THEN "unsupported_version"
    ELSE "window"

(* Another copy arrives. *)
Receive(th, m, form) ==
    /\ verify[th].at = "idle" /\ Sent(m) /\ copies[m] < MaxCopies[m]
    /\ copies' = [copies EXCEPT ![m] = @ + 1]
    /\ \/ /\ Admission(form) = "window"
          /\ verify' = [verify EXCEPT ![th] =
                          [at |-> "window", msg |-> m, form |-> form, clock |-> 0]]
          /\ UNCHANGED results
       \/ /\ Admission(form) # "window"
          /\ Ends(th, m, Admission(form))
    /\ UNCHANGED <<now, mode, block, bucket, place, inserted, accepted, doubt>>

InWindow(m) == now <= block[m].expires /\ now >= block[m].issued - Skew

(* A block without its two times is refused like one out of its window; one
   without entity_id or nonce raises before the cache is asked.              *)
CheckWindow(th) ==
    /\ verify[th].at = "window"
    /\ \/ /\ Copy(th).lacks = "times" \/ ~InWindow(Msg(th))
          /\ Ends(th, Msg(th), "expired_or_skewed")
       \/ /\ Copy(th).lacks = "nonce" /\ InWindow(Msg(th))
          /\ Ends(th, Msg(th), "KeyError")
       \/ /\ Copy(th).lacks \notin {"times", "nonce"} /\ InWindow(Msg(th))
          /\ Goto(th, "sweep")
          /\ UNCHANGED results
    /\ UNCHANGED <<now, mode, block, copies, bucket, place, inserted, accepted, doubt>>

(* ReplayCache.check_and_record reads the clock a second time.  If the bucket
   exceeds its limit it first drops the nonces that expired ... *)
Expired(m) == block[m].expires < now

(* Variant: the limit is not enforced. *)
FullNever(s) == FALSE

Full(s) == Cardinality(bucket[s]) > MaxNonces

(* The nonces of D leave the bucket, for this reason. *)
Drop(s, D, why) ==
    /\ bucket' = [bucket EXCEPT ![s] = @ \ D]
    /\ place' = [m \in Messages |-> IF m \in D THEN 0 ELSE place[m]]
    /\ doubt' = [m \in Messages |-> IF m \in D THEN doubt[m] \cup {why} ELSE doubt[m]]

Sweep(th) ==
    LET s == Home(th) IN
    /\ verify[th].at = "sweep"
    /\ verify' = [verify EXCEPT ![th].at = "trim", ![th].clock = now]
    /\ \/ Full(s) /\ Drop(s, {m \in bucket[s] : Expired(m)}, "lapsed")
       \/ ~Full(s) /\ UNCHANGED <<bucket, place, doubt>>
    /\ UNCHANGED <<now, mode, block, copies, inserted, results, accepted>>

(* ... and then the oldest, one at a time, while it still does. *)
Trim(th) ==
    /\ verify[th].at = "trim"
    /\ Goto(th, IF Full(Home(th)) THEN "pop" ELSE "lookup")
    /\ UNCHANGED <<now, mode, block, copies, bucket, place, inserted, results, accepted, doubt>>

PopOldest(th) ==
    LET s == Home(th) IN
    /\ verify[th].at = "pop"
    /\ \/ /\ \E oldest \in bucket[s] :
                /\ \A m \in bucket[s] : place[oldest] <= place[m]
                /\ Drop(s, {oldest}, "evicted")
          /\ Goto(th, "trim")
          /\ UNCHANGED results
       \/ /\ bucket[s] = {}       \* popitem() raises: another thread was faster
          /\ Ends(th, Msg(th), "KeyError")
          /\ UNCHANGED <<bucket, place, doubt>>
    /\ UNCHANGED <<now, mode, block, copies, inserted, accepted>>

(* Variant: the expiry is compared with > instead of >=. *)
SeenStrictly(th) == InCache(Msg(th)) /\ block[Msg(th)].expires > verify[th].clock

(* Variant: any unexpired nonce of the sender counts as this one. *)
SeenByAnyNonce(th) ==
    \E m \in bucket[Home(th)] : block[m].expires >= verify[th].clock

(* `existing is not None and existing >= now_ms` *)
Seen(th) == InCache(Msg(th)) /\ block[Msg(th)].expires >= verify[th].clock

(* The nonce is in the cache, and expired when the clock was read again. *)
Lapsed(th) == InCache(Msg(th)) /\ block[Msg(th)].expires < verify[th].clock

(* Another thread has looked the nonce up and not recorded it yet. *)
Overlaps(th) ==
    \E other \in Threads \ {th} : verify[other].at = "record" /\ Msg(other) = Msg(th)

Lookup(th) ==
    /\ verify[th].at = "lookup"
    /\ \/ /\ Seen(th)
          /\ Ends(th, Msg(th), "replay_detected")
          /\ UNCHANGED doubt
       \/ /\ ~Seen(th)
          /\ Goto(th, "record")
          /\ doubt' = [doubt EXCEPT ![Msg(th)] =
                         @ \cup (IF Lapsed(th) THEN {"lapsed"} ELSE {})
                           \cup (IF Overlaps(th) THEN {"overlap"} ELSE {})]
          /\ UNCHANGED results
    /\ UNCHANGED <<now, mode, block, copies, bucket, place, inserted, accepted>>

(* Variant: the nonce is not recorded. *)
RecordedNever(m) == UNCHANGED <<bucket, place, inserted>>

(* bucket[nonce] = exp: a key that is there keeps its place. *)
Recorded(m) ==
    /\ bucket' = [bucket EXCEPT ![Sender[m]] = @ \cup {m}]
    /\ place' = [place EXCEPT ![m] = IF InCache(m) THEN @ ELSE inserted + 1]
    /\ inserted' = IF InCache(m) THEN inserted ELSE inserted + 1

Record(th) ==
    /\ verify[th].at = "record"
    /\ Recorded(Msg(th))
    /\ Goto(th, "checks")
    /\ UNCHANGED <<now, mode, block, copies, results, accepted, doubt>>

(* Only then: entity_id, signature, developer_proof.  A block without public_key
   or signature raises a KeyError here, the nonce being recorded: "malformed". *)
Verdict(form) ==
    IF form.lacks = "public_key" THEN "malformed"
    ELSE IF ~form.entity THEN "entity_id_mismatch"
    ELSE IF form.lacks = "signature" THEN "malformed"
    ELSE IF ~form.intact THEN "bad_signature"
    ELSE IF form.proof = "invalid" THEN "bad_developer_proof"
    ELSE "signed"

CheckContent(th) ==
    /\ verify[th].at = "checks"
    /\ Ends(th, Msg(th), Verdict(Copy(th)))
    /\ accepted' = IF Verdict(Copy(th)) = "signed"
                   THEN [accepted EXCEPT ![Msg(th)] = @ + 1] ELSE accepted
    /\ UNCHANGED <<now, mode, block, copies, bucket, place, inserted, doubt>>

VerifyStep(th) ==
    \/ CheckWindow(th) \/ Sweep(th) \/ Trim(th) \/ PopOldest(th)
    \/ Lookup(th) \/ Record(th) \/ CheckContent(th)

AuthNext ==
    \/ Tick
    \/ \E m \in Messages :
          SignMessage(m) \/ \E th \in Threads, form \in Arrives[m] : Receive(th, m, form)
    \/ \E th \in Threads : VerifyStep(th)

AuthSpec == AuthInit /\ [][AuthNext]_authVars

-----------------------------------------------------------------------------
(* Properties.                                                              *)

(* How a copy fails whose nonce was recorded. *)
LateFailures == {"malformed", "entity_id_mismatch", "bad_signature", "bad_developer_proof"}

Results == LateFailures \cup
           {"unverified", "missing_auth", "unsigned", "unsupported_version",
            "expired_or_skewed", "replay_detected", "KeyError", "signed"}

VerifyPoints == {"window", "sweep", "trim", "pop", "lookup", "record", "checks"}

(* A thread is outside verify_message, or verifies a copy that came with a block,
   of a message that was sent, in a mode that verifies. *)
VerifyOK(th) ==
    \/ verify[th] = NoVerify
    \/ /\ verify[th] \in [at : VerifyPoints, msg : Messages, form : Forms, clock : 0 .. MaxTime]
       /\ Sent(Msg(th)) /\ Copy(th).signed /\ mode # "open"

(* Every variable holds a value the program can hold; a bucket holds nonces of its
   own sender, and only what a mode that verifies is concerned with is verified. *)
AuthTypeOK ==
    /\ now \in 0 .. MaxTime /\ mode \in AuthModes
    /\ block \in [Messages -> [issued : Int, expires : Int]]
    /\ copies \in [Messages -> Nat]
    /\ \A th \in Threads : VerifyOK(th)
    /\ DOMAIN verify = Threads
    /\ bucket \in [Senders -> SUBSET Messages]
    /\ \A s \in Senders : \A m \in bucket[s] : Sender[m] = s /\ place[m] \in 1 .. inserted
    /\ place \in [Messages -> Nat] /\ inserted \in Nat
    /\ results \in [Messages -> SUBSET Results]
    /\ accepted \in [Messages -> Nat]
    /\ doubt \in [Messages -> SUBSET {"lapsed", "evicted", "overlap"}]

(* The thread has passed the replay check for m. *)
Past(th, m) == verify[th].at \in {"record", "checks"} /\ Msg(th) = m

(* ... and has recorded its nonce. *)
Passing(th, m) == verify[th].at = "checks" /\ Msg(th) = m

(* A signed message is accepted at most once, however often the network delivers
   it, with three exceptions, which are the limits of a cache without a lock and
   with two clock readings: two copies were between the lookup and the record at
   the same time, the nonce expired between the window check and the lookup, or it
   left a full bucket. *)
AcceptedOnce == \A m \in Messages : accepted[m] > 1 => doubt[m] # {}

(* A copy of m has used the nonce up: it was recorded, and failed afterwards. *)
Burnt(m) == results[m] \cap LateFailures # {}

(* A message is refused as a replay only on behalf of an earlier copy of the same
   message that passed the replay check: one that was accepted, is in its content
   checks, or failed those.  The last is the price of recording the nonce before
   the signature is checked: an altered copy that comes first burns the nonce, and
   the message is lost; where copies arrive as they were sent, none is.       *)
ReplayedNotLost ==
    \A m \in Messages : "replay_detected" \in results[m] =>
        \/ accepted[m] > 0
        \/ \E th \in Threads : Passing(th, m)
        \/ Burnt(m)

(* A sender's bucket outgrows its limit by no more than one nonce per concurrent
   verification, although each thread tests the limit before its insertion. *)
BucketBounded == \A s \in Senders : Cardinality(bucket[s]) <= MaxNonces + Cardinality(Threads)

(* The inductive invariant behind AcceptedOnce and ReplayedNotLost. *)
NonceInv ==
    \A m \in Messages :
        /\ accepted[m] > 1 => doubt[m] # {}
        /\ accepted[m] > 0 => InCache(m) \/ doubt[m] # {}
        /\ \A th \in Threads :
              /\ Passing(th, m) => InCache(m) \/ doubt[m] # {}
              /\ Past(th, m) /\ accepted[m] > 0 => doubt[m] # {}
              /\ \A other \in Threads \ {th} :
                    Past(th, m) /\ Past(other, m) => doubt[m] # {}
        /\ InCache(m) \/ "replay_detected" \in results[m] =>
              \/ accepted[m] > 0
              \/ \E th \in Threads : Passing(th, m)
              \/ Burnt(m)
=============================================================================
