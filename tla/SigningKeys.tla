---------------------------- MODULE SigningKeys ----------------------------
(***************************************************************************)
(* The OIDC signing keys: a table shared by several server instances, each *)
(* of which signs with the key in its own cache.  Keys are rotated by hand *)
(* or when they are old, retired keys are deleted after a retention time,  *)
(* and the private keys are encrypted under a key ring that changes when   *)
(* instances are restarted one after the other.  A call to the store is    *)
(* one step; in between other calls run, of the same instance too.  Times  *)
(* are kept as ages, up to the age at which nothing depends on them, so    *)
(* that time itself has no bound.                                          *)
(***************************************************************************)
EXTENDS Integers, Sequences, FiniteSets

CONSTANTS
    Instances,
    Calls,          \* the calls in progress at a time
    Staleness,      \* the thirty seconds after which a cache is refreshed
    MaxAge,         \* CERTUS_SIGNING_KEY_ROTATION_INTERVAL
    Retention,      \* CERTUS_SIGNING_KEY_RETENTION
    TokenLife,      \* the longest life of a signed token
    MaxCall,        \* assumption: how long a call takes
    MaxIdle,        \* assumption: how long a stale cache is not refreshed
    MaxBlind,       \* assumption: how long an instance cannot decrypt the table
    MaxKeys, MaxRing, MaxStops,   \* bounds
    NoInstance

\* README.md:718: the retention is longer than the life of a token and the time
\* for which a cache may be behind.  A retired key may be late by three calls: the
\* rotation, which dates it from its own beginning, the refresh that has loaded it
\* before and applies it after, and another one that then stores its list and so
\* makes the cache look fresh.
ASSUME SigningKeysAssumption ==
    /\ {Staleness, MaxAge, TokenLife, MaxCall, MaxIdle, MaxBlind} \subseteq Nat
    /\ {MaxKeys, MaxStops} \subseteq Nat /\ MaxRing \in Nat \ {0}
    /\ Retention \in Nat
    /\ Retention >= TokenLife + Staleness + MaxIdle + MaxBlind + 3 * MaxCall
    /\ NoInstance \notin Instances

VARIABLES
    keys,       \* oidc_signing_keys, in the order of insertion
    instance,   \* the Signer of each process
    call,       \* the calls in progress
    signed,     \* for how long the last token of a key is still valid
    stops       \* how many processes were stopped

vars == <<keys, instance, call, signed, stops>>

KeyId == 1..MaxKeys
Ages == 0..(MaxAge + MaxCall + 1)     \* of a key, since it was created

Key ==
    [row : {"active", "retired", "deleted"},
     age : Ages,                      \* of the active key
     retired : 0..(Retention + 1),    \* the time since it was retired
     wrap : 1..MaxRing,               \* the master key it is encrypted under
     replaced : Ages \union {-1}]     \* of an automatic rotation: the age of
                                      \* the key it replaced

Instance ==
    [up : BOOLEAN,
     ring : 1..MaxRing,               \* the first master key of its ring
     kid : 0..MaxKeys,                \* the key it signs with
     verification : SUBSET KeyId,     \* the keys it verifies with and publishes
     lastRefresh : 0..Staleness + MaxIdle,   \* the time since then
     blind : 0..MaxBlind]             \* for how long it could not read

Call ==
    [pc : {"idle", "rewrap", "load", "save", "apply", "list", "store", "sign",
           "rotate", "check"},
     kind : {"none", "start", "sign", "refresh"},
     at : Instances \union {NoInstance},
     age : 0..MaxCall,
     kid : 0..MaxKeys, found : SUBSET KeyId]

Idle ==
    [pc |-> "idle", kind |-> "none", at |-> NoInstance, age |-> 0,
     kid |-> 0, found |-> {}]

TypeOK ==
    /\ keys \in Seq(Key) /\ Len(keys) <= MaxKeys
    /\ instance \in [Instances -> Instance]
    /\ call \in [Calls -> Call]
    /\ signed \in [KeyId -> 0..TokenLife]
    /\ stops \in 0..MaxStops

Init ==
    /\ keys = <<>>
    /\ instance = [i \in Instances |->
          [up |-> FALSE, ring |-> 1, kid |-> 0, verification |-> {},
           lastRefresh |-> 0, blind |-> 0]]
    /\ call = [c \in Calls |-> Idle]
    /\ signed = [k \in KeyId |-> 0]
    /\ stops = 0

-----------------------------------------------------------------------------
(***************************************************************************)
(* The table.                                                              *)
(***************************************************************************)
Stored == {k \in DOMAIN keys : keys[k].row # "deleted"}
ActiveKeys == {k \in DOMAIN keys : keys[k].row = "active"}

\* A ring opens what its own first key or the one before it has encrypted.
Opens(i, k) == keys[k].wrap \in {instance[i].ring, instance[i].ring - 1}

\* ListSigningKeys decrypts every row, or fails.
Readable(i) == \A k \in Stored : Opens(i, k)

\* Mutant: the private key is stored as it is.
PlainKey(i, age, replaced) ==
    [row |-> "active", age |-> age, retired |-> 0, wrap |-> 0,
     replaced |-> replaced]

\* protectSigningKey: encrypted under the first key of the ring.  Every instance has
\* one; without it, which config.Load refuses in production, a key is stored as it is.
NewKey(i, age, replaced) ==
    [row |-> "active", age |-> age, retired |-> 0, wrap |-> instance[i].ring,
     replaced |-> replaced]

\* UPDATE ... WHERE active, then INSERT, under the advisory lock.  The time is
\* the one at which the call began.
Rotated(i, age, replaced) ==
    Append([k \in DOMAIN keys |->
              IF k \in ActiveKeys
                 THEN [keys[k] EXCEPT !.row = "retired", !.retired = age,
                                     !.age = 0]
                 ELSE keys[k]],
           NewKey(i, age, replaced))

-----------------------------------------------------------------------------
(***************************************************************************)
(* Calls.                                                                  *)
(***************************************************************************)
Begin(c, kind, i, pc) ==
    /\ call[c].pc = "idle"
    /\ call' = [call EXCEPT ![c] =
          [Idle EXCEPT !.pc = pc, !.kind = kind, !.at = i]]

Older(age, max) == IF age < max THEN age + 1 ELSE max
Goto(c, pc) == call' = [call EXCEPT ![c].pc = pc]
Return(c) == call' = [call EXCEPT ![c] = Idle]

\* A failed Refresh is an error, but Sign ignores it and uses what is cached.
RefreshFailed(c) ==
    IF call[c].kind = "sign" THEN Goto(c, "sign") ELSE Return(c)

\* The database answers a call with an error, and the call changes nothing.
DatabaseError(c) ==
    /\ call[c].pc \in {"rewrap", "load", "save", "list", "rotate", "check"}
    /\ RefreshFailed(c)
    /\ UNCHANGED <<keys, instance, signed, stops>>

\* Time passes for everybody; no call takes longer than MaxCall, a cache that is
\* stale is refreshed within MaxIdle, which covers the time without a request and
\* the time in which the database answers with errors, and an instance that
\* cannot decrypt the table is restarted within MaxBlind.
Tick ==
    /\ \A c \in Calls : call[c].pc # "idle" => call[c].age < MaxCall
    /\ \A i \in Instances :
          instance[i].up =>
             IF Readable(i) THEN instance[i].lastRefresh < Staleness + MaxIdle
                            ELSE instance[i].blind < MaxBlind
    /\ instance' = [i \in Instances |->
          IF ~instance[i].up THEN instance[i]
          ELSE [instance[i] EXCEPT
                  !.lastRefresh = Older(@, Staleness + MaxIdle),
                  !.blind = IF Readable(i) THEN 0 ELSE @ + 1]]
    /\ keys' = [k \in DOMAIN keys |->
          CASE keys[k].row = "active" ->
                  [keys[k] EXCEPT !.age = Older(@, MaxAge + MaxCall + 1)]
            [] keys[k].row = "retired" ->
                  [keys[k] EXCEPT !.retired = Older(@, Retention + 1)]
            [] OTHER -> keys[k]]
    /\ call' = [c \in Calls |->
          IF call[c].pc = "idle" THEN Idle ELSE [call[c] EXCEPT !.age = @ + 1]]
    /\ signed' = [k \in KeyId |-> IF signed[k] = 0 THEN 0 ELSE signed[k] - 1]
    /\ UNCHANGED stops

\* A process ends, and its calls with it.
Stop(i) ==
    /\ instance[i].up /\ stops < MaxStops
    /\ stops' = stops + 1
    /\ instance' = [instance EXCEPT
          ![i] = [@ EXCEPT !.up = FALSE, !.kid = 0, !.verification = {},
                           !.lastRefresh = 0, !.blind = 0]]
    /\ call' = [c \in Calls |-> IF call[c].at = i THEN Idle ELSE call[c]]
    /\ UNCHANGED <<keys, signed>>

\* main: the key ring of the configuration, on a restart maybe the next one.
StartInstance(c, i, ring) ==
    /\ ~instance[i].up /\ \A d \in Calls : call[d].at # i
    /\ ring \in {instance[i].ring, instance[i].ring + 1}
    /\ ring <= MaxRing /\ (stops = 0 => ring = instance[i].ring)
    /\ instance' = [instance EXCEPT ![i].ring = ring]
    /\ Begin(c, "start", i, "rewrap")
    /\ UNCHANGED <<keys, signed, stops>>

\* One transaction; a row that cannot be decrypted ends the process.
RewrapSigningKeys(c) ==
    LET i == call[c].at IN
    /\ call[c].pc = "rewrap"
    /\ IF Readable(i)
          THEN /\ keys' = [k \in DOMAIN keys |->
                     IF k \in Stored
                        THEN [keys[k] EXCEPT !.wrap = instance[i].ring]
                        ELSE keys[k]]
               /\ Goto(c, "load")
          ELSE Return(c) /\ UNCHANGED keys
    /\ UNCHANGED <<instance, signed, stops>>

\* NewSigner generates a key when there is none; Refresh never does.
NewSigner(c) == ActiveKeys = {} /\ call[c].kind = "start" /\ Goto(c, "save")

LoadActiveSigningKey(c) ==
    LET i == call[c].at IN
    /\ call[c].pc = "load"
    /\ \/ \E k \in ActiveKeys :
            /\ Opens(i, k)
            /\ call' = [call EXCEPT ![c].pc = "apply", ![c].kid = k]
       \/ NewSigner(c)
       \/ (\E k \in ActiveKeys : ~Opens(i, k)) /\ RefreshFailed(c)
    /\ UNCHANGED <<keys, instance, signed, stops>>

\* Mutant: the unique index on the active key is missing.
SaveAlways(c) ==
    /\ call[c].pc = "save" /\ Len(keys) < MaxKeys
    /\ keys' = Append(keys, NewKey(call[c].at, 0, -1))
    /\ call' = [call EXCEPT ![c].pc = "apply", ![c].kid = Len(keys) + 1]
    /\ UNCHANGED <<instance, signed, stops>>

\* Of several instances that start at once, one inserts the first key, and the
\* others load it.
SaveActiveSigningKey(c) ==
    /\ call[c].pc = "save"
    /\ \/ /\ ActiveKeys = {} /\ Len(keys) < MaxKeys
          /\ keys' = Append(keys, NewKey(call[c].at, 0, -1))
          /\ call' = [call EXCEPT ![c].pc = "apply", ![c].kid = Len(keys) + 1]
       \/ ActiveKeys # {} /\ Goto(c, "load") /\ UNCHANGED keys
    /\ UNCHANGED <<instance, signed, stops>>

\* Refresh, under the mutex of the Signer: the key that was loaded.
ApplyActiveKey(c) ==
    /\ call[c].pc = "apply"
    /\ instance' = [instance EXCEPT ![call[c].at].kid = call[c].kid]
    /\ call' = [call EXCEPT ![c].pc = "list", ![c].kid = 0]
    /\ UNCHANGED <<keys, signed, stops>>

ListSigningKeys(c) ==
    /\ call[c].pc = "list"
    /\ IF Readable(call[c].at)
          THEN call' = [call EXCEPT ![c].pc = "store", ![c].found = Stored]
          ELSE RefreshFailed(c)
    /\ UNCHANGED <<keys, instance, signed, stops>>

\* reloadVerificationKeys, under the mutex again; the list may be older than the
\* one another call has stored meanwhile.
StoreVerificationKeys(c) ==
    /\ call[c].pc = "store"
    /\ instance' = [instance EXCEPT
          ![call[c].at] = [@ EXCEPT !.verification = call[c].found,
                                    !.lastRefresh = 0, !.up = TRUE]]
    /\ IF call[c].kind = "sign" THEN Goto(c, "sign") ELSE Return(c)
    /\ UNCHANGED <<keys, signed, stops>>

-----------------------------------------------------------------------------
(***************************************************************************)
(* What handlers and background jobs ask of a Signer.                      *)
(***************************************************************************)
refreshIfStale(i) == instance[i].lastRefresh >= Staleness

Signed(i) == signed' = [signed EXCEPT ![instance[i].kid] = TokenLife]

\* Sign looks at the age of the cache in one section of the mutex, and a stale cache
\* is refreshed ...
Sign(c, i) ==
    /\ instance[i].up
    /\ Begin(c, "sign", i, IF refreshIfStale(i) THEN "load" ELSE "sign")
    /\ UNCHANGED <<keys, instance, signed, stops>>

\* ... and SignTyped reads the key in another one, whichever it is by then.
SignTyped(c) ==
    /\ call[c].pc = "sign"
    /\ Signed(call[c].at)
    /\ Return(c)
    /\ UNCHANGED <<keys, instance, stops>>

\* Verify, of a token signed with key k: a key that is not known is looked for
\* in the table.
Verify(c, i, k) ==
    /\ instance[i].up /\ signed[k] > 0
    /\ refreshIfStale(i) \/ k \notin instance[i].verification
    /\ Begin(c, "refresh", i, "load")
    /\ UNCHANGED <<keys, instance, signed, stops>>

\* The key set that clients fetch: refreshed every time, and published as it is
\* cached when that fails.
jwks(c, i) ==
    /\ instance[i].up
    /\ Begin(c, "refresh", i, "load")
    /\ UNCHANGED <<keys, instance, signed, stops>>

Rotate(c, i) ==
    /\ Begin(c, "refresh", i, "rotate")
    /\ UNCHANGED <<keys, instance, signed, stops>>

\* By an administrator.
rotateSigningKey(c, i) == instance[i].up /\ Rotate(c, i)

RotateSigningKey(c) ==
    /\ call[c].pc = "rotate" /\ Len(keys) < MaxKeys
    /\ keys' = Rotated(call[c].at, call[c].age, -1)
    /\ Goto(c, "load")
    /\ UNCHANGED <<instance, signed, stops>>

\* Created before the cutoff of a call that began so long ago.
Old(k, before) == keys[k].age - before > MaxAge

\* The key looks old to this instance.
RotateIfOlderThan(c, i) ==
    /\ Readable(i)
    /\ \A k \in ActiveKeys : Old(k, 0)
    /\ Begin(c, "refresh", i, "check")
    /\ UNCHANGED <<keys, instance, signed, stops>>

\* The background job, at start and then at every interval.
runSigningKeyRotation(c, i) == instance[i].up /\ RotateIfOlderThan(c, i)

\* Mutant: the transaction does not look again.
StillDue(c) == TRUE

\* SELECT created_at ... FOR UPDATE, under the advisory lock.
Due(c) == \A k \in ActiveKeys : Old(k, call[c].age)

RotateSigningKeyIfOlderThan(c) ==
    /\ call[c].pc = "check"
    /\ IF Due(c)
          THEN /\ Len(keys) < MaxKeys
               /\ \E k \in ActiveKeys :
                    keys' = Rotated(call[c].at, call[c].age,
                                    keys[k].age - call[c].age)
          ELSE UNCHANGED keys
    /\ Goto(c, "load")
    /\ UNCHANGED <<instance, signed, stops>>

\* Mutant: a retired key is not kept.
DeletableAtOnce(k) == keys[k].row = "retired"

Deletable(k) == keys[k].row = "retired" /\ keys[k].retired > Retention

\* DeleteRetiredSigningKeys, the last statement of Cleanup.
Cleanup ==
    /\ \E k \in DOMAIN keys : Deletable(k)
    /\ keys' = [k \in DOMAIN keys |->
          IF Deletable(k)
             THEN [keys[k] EXCEPT !.row = "deleted", !.retired = 0, !.wrap = 1]
             ELSE keys[k]]
    /\ UNCHANGED <<instance, call, signed, stops>>

-----------------------------------------------------------------------------
Continues(c) ==
    \/ RewrapSigningKeys(c)
    \/ LoadActiveSigningKey(c) \/ SaveActiveSigningKey(c)
    \/ ApplyActiveKey(c) \/ ListSigningKeys(c) \/ StoreVerificationKeys(c)
    \/ SignTyped(c)
    \/ RotateSigningKey(c) \/ RotateSigningKeyIfOlderThan(c)
    \/ DatabaseError(c)

Starts(c, i) ==
    \/ \E ring \in 1..MaxRing : StartInstance(c, i, ring)
    \/ Sign(c, i)
    \/ jwks(c, i)
    \/ \E k \in KeyId : Verify(c, i, k)
    \/ rotateSigningKey(c, i)
    \/ runSigningKeyRotation(c, i)

Next ==
    \/ Tick \/ Cleanup
    \/ \E i \in Instances : Stop(i)
    \/ \E c \in Calls : Continues(c) \/ \E i \in Instances : Starts(c, i)

Spec == Init /\ [][Next]_vars

-----------------------------------------------------------------------------
(***************************************************************************)
(* Properties.                                                             *)
(***************************************************************************)
\* README.md:718: however many instances start and rotate at the same time, there
\* is one active key, and an instance that is up has a key to sign with.
OneActiveKey ==
    /\ Cardinality(ActiveKeys) <= 1
    /\ \A i \in Instances :
          instance[i].up => ActiveKeys # {} /\ instance[i].kid # 0

\* A key is deleted only when every token it signed has expired, though other
\* instances go on signing with a retired key until they notice: a restart of
\* the instances with a new key ring, a slow call and a cache at its age limit
\* may all delay that.
SignedTokensVerify ==
    \A k \in KeyId :
        signed[k] > 0 => k \in Stored

\* Instances that find the key old at the same time rotate it once: an automatic
\* rotation replaces a key that is really older than MaxAge.
RotationsAreSpaced ==
    \A k \in DOMAIN keys :
        keys[k].replaced # -1 => keys[k].replaced > MaxAge
=============================================================================
