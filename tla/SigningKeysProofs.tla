------------------------- MODULE SigningKeysProofs -------------------------
(***************************************************************************)
(* The signing keys for any number of instances, calls in progress, keys   *)
(* and restarts, and any choice of times that satisfies the assumption.    *)
(*                                                                         *)
(* The argument is about how late a retired key may still be in use: in a  *)
(* call that has loaded it, in the cache of an instance, in a token.  Each *)
(* holder has a bound on the time since the retirement (Kept), which grows *)
(* with the age of the holder, and no bound passes the retention.          *)
(***************************************************************************)
EXTENDS SigningKeys, FiniteSetTheorems, TLAPS

Cap == Staleness + MaxIdle

\* Key k is in the table, active or retired for no longer than late.
Kept(k, late) ==
    /\ k \in DOMAIN keys
    /\ \/ keys[k].row = "active"
       \/ keys[k].row = "retired" /\ keys[k].retired <= late

\* One active key, from the first key on.
KeyInv ==
    /\ \A k, l \in ActiveKeys : k = l
    /\ DOMAIN keys # {} => ActiveKeys # {}
    /\ RotationsAreSpaced

\* A call that has applied a key and not yet stored its list will make the cache
\* of its instance look fresh, whatever key another call has put there.
CallOK(c) ==
    /\ call[c].pc # "idle" => call[c].at \in Instances
    /\ call[c].pc = "sign" => call[c].kind = "sign"
    /\ call[c].pc # "idle" /\ call[c].kind = "sign" => instance[call[c].at].up
    /\ call[c].pc = "apply" => Kept(call[c].kid, MaxCall + call[c].age)
    /\ call[c].pc \in {"list", "store"} =>
         Kept(instance[call[c].at].kid, 2 * MaxCall + call[c].age)

\* The blind time counts only when the cache is already as old as can be.
InstanceOK(i) ==
    instance[i].up =>
      /\ Kept(instance[i].kid, 3 * MaxCall + instance[i].lastRefresh + instance[i].blind)
      /\ instance[i].lastRefresh < Cap =>
           Kept(instance[i].kid, 3 * MaxCall + instance[i].lastRefresh)

SignedOK(k) == signed[k] > 0 => Kept(k, Retention - signed[k])

HolderInv ==
    /\ \A c \in Calls : CallOK(c)
    /\ \A i \in Instances : InstanceOK(i)
    /\ \A k \in KeyId : SignedOK(k)

SigningInv == TypeOK /\ KeyInv /\ HolderInv

-----------------------------------------------------------------------------
LEMMA Times ==
    /\ Staleness \in Nat /\ MaxAge \in Nat /\ TokenLife \in Nat /\ MaxCall \in Nat
    /\ MaxIdle \in Nat /\ MaxBlind \in Nat /\ MaxKeys \in Nat /\ MaxStops \in Nat
    /\ MaxRing \in Nat \ {0} /\ Retention \in Nat /\ Cap \in Nat
    /\ Retention >= TokenLife + Cap + MaxBlind + 3 * MaxCall
    /\ NoInstance \notin Instances
BY SigningKeysAssumption DEF Cap

LEMMA MappedSeq ==
    ASSUME NEW S, NEW s \in Seq(S), NEW t \in [DOMAIN s -> S]
    PROVE  t \in Seq(S) /\ Len(t) = Len(s)
<1>1. DOMAIN s = 1..Len(s) /\ Len(s) \in Nat
  OBVIOUS
<1> QED BY <1>1

LEMMA AppendSeq ==
    ASSUME NEW S, NEW s \in Seq(S), NEW e \in S
    PROVE  /\ Append(s, e) \in Seq(S) /\ Len(Append(s, e)) = Len(s) + 1
           /\ DOMAIN Append(s, e) = 1..(Len(s) + 1) /\ DOMAIN s = 1..Len(s)
           /\ Len(s) \in Nat
           /\ \A i \in DOMAIN s : Append(s, e)[i] = s[i]
           /\ Append(s, e)[Len(s) + 1] = e
OBVIOUS

LEMMA KeyFields ==
    ASSUME TypeOK, NEW k \in DOMAIN keys
    PROVE  /\ keys[k] \in Key /\ k \in KeyId /\ k # 0
           /\ keys[k].row \in {"active", "retired", "deleted"}
           /\ keys[k].age \in Ages /\ keys[k].retired \in 0..(Retention + 1)
           /\ keys[k].wrap \in 1..MaxRing /\ keys[k].replaced \in Ages \union {-1}
<1>1. keys \in Seq(Key) /\ Len(keys) <= MaxKeys
  BY DEF TypeOK
<1>2. keys[k] \in Key /\ k \in KeyId /\ k # 0
  BY <1>1, Times DEF KeyId
<1> QED  BY <1>2 DEF Key

LEMMA CallFields ==
    ASSUME TypeOK, NEW c \in Calls
    PROVE  /\ call[c] \in Call
           /\ call[c].at \in Instances \union {NoInstance}
           /\ call[c].age \in 0..MaxCall
           /\ call[c].kid \in 0..MaxKeys /\ call[c].found \in SUBSET KeyId
           /\ call[c].kind \in {"none", "start", "sign", "refresh"}
<1>1. call[c] \in Call
  BY DEF TypeOK
<1> QED  BY <1>1 DEF Call

LEMMA InstanceFields ==
    ASSUME TypeOK, NEW i \in Instances
    PROVE  /\ instance[i] \in Instance
           /\ instance[i].up \in BOOLEAN /\ instance[i].ring \in 1..MaxRing
           /\ instance[i].kid \in 0..MaxKeys /\ instance[i].verification \in SUBSET KeyId
           /\ instance[i].lastRefresh \in 0..Cap
           /\ instance[i].blind \in 0..MaxBlind
<1>1. instance[i] \in Instance
  BY DEF TypeOK
<1> QED  BY <1>1 DEF Instance, Cap

-----------------------------------------------------------------------------
(***************************************************************************)
(* Steps that take no time: a bound that a rotation under way may reach    *)
(* stays a bound.                                                          *)
(***************************************************************************)
Steady ==
    \A k, late : late \in MaxCall..Retention /\ Kept(k, late) => Kept(k, late)'

LEMMA CallKept ==
    ASSUME TypeOK, Steady, NEW c \in Calls, CallOK(c), call'[c] = call[c],
           call[c].at \in Instances =>
             /\ instance'[call[c].at].kid = instance[call[c].at].kid
             /\ instance[call[c].at].up => instance'[call[c].at].up
    PROVE  CallOK(c)'
<1>1. /\ MaxCall + call[c].age \in MaxCall..Retention
      /\ 2 * MaxCall + call[c].age \in MaxCall..Retention
  BY Times, CallFields
<1> QED  BY <1>1 DEF CallOK, Steady

LEMMA InstanceKept ==
    ASSUME TypeOK, Steady, NEW i \in Instances, InstanceOK(i),
           instance'[i].up = instance[i].up, instance'[i].kid = instance[i].kid,
           instance'[i].lastRefresh = instance[i].lastRefresh,
           instance'[i].blind = instance[i].blind
    PROVE  InstanceOK(i)'
<1>1. /\ 3 * MaxCall + instance[i].lastRefresh + instance[i].blind \in MaxCall..Retention
      /\ 3 * MaxCall + instance[i].lastRefresh \in MaxCall..Retention
  BY Times, InstanceFields
<1> QED  BY <1>1 DEF InstanceOK, Steady

LEMMA SignedKept ==
    ASSUME TypeOK, Steady, NEW k \in KeyId, SignedOK(k), signed'[k] = signed[k]
    PROVE  SignedOK(k)'
<1>1. signed[k] \in 0..TokenLife
  BY DEF TypeOK
<1>2. Retention - signed[k] \in MaxCall..Retention
  BY <1>1, Times
<1> QED  BY <1>2 DEF SignedOK, Steady

\* One call moves on.
LEMMA CallMoves ==
    ASSUME TypeOK, HolderInv, Steady, NEW c \in Calls, NEW q,
           call' = [call EXCEPT ![c] = q], CallOK(c)', UNCHANGED signed,
           \A i \in Instances :
             /\ instance'[i].up = instance[i].up /\ instance'[i].kid = instance[i].kid
             /\ instance'[i].lastRefresh = instance[i].lastRefresh
             /\ instance'[i].blind = instance[i].blind
    PROVE  HolderInv'
<1>1. \A d \in Calls : d # c => call'[d] = call[d]
  BY DEF TypeOK
<1>2. \A d \in Calls : CallOK(d)'
  BY <1>1, CallKept DEF HolderInv
<1>3. \A i \in Instances : InstanceOK(i)'
  BY InstanceKept DEF HolderInv
<1>4. \A k \in KeyId : SignedOK(k)'
  BY SignedKept DEF HolderInv
<1> QED  BY <1>2, <1>3, <1>4 DEF HolderInv

LEMMA SameKeys ==
    ASSUME UNCHANGED keys
    PROVE  Steady /\ (KeyInv => KeyInv')
BY DEF Steady, Kept, KeyInv, ActiveKeys, RotationsAreSpaced

\* The rows are the same in what the bounds are about.
LEMMA SameRows ==
    ASSUME TypeOK, NEW f \in [DOMAIN keys -> Key], keys' = f,
           \A k \in DOMAIN keys :
             /\ f[k].row = keys[k].row /\ f[k].retired = keys[k].retired
             /\ f[k].replaced = keys[k].replaced
    PROVE  /\ Steady /\ (KeyInv => KeyInv')
           /\ keys' \in Seq(Key) /\ Len(keys') = Len(keys)
<1>1. keys' \in Seq(Key) /\ Len(keys') = Len(keys)
  BY MappedSeq DEF TypeOK
<1>2. DOMAIN keys' = DOMAIN keys
  OBVIOUS
<1>3. ActiveKeys' = ActiveKeys
  BY <1>2 DEF ActiveKeys
<1>4. RotationsAreSpaced => RotationsAreSpaced'
  BY <1>2 DEF RotationsAreSpaced
<1> QED  BY <1>1, <1>2, <1>3, <1>4 DEF Steady, Kept, KeyInv

\* A rotation retires the active key and adds another one.
LEMMA Rotation ==
    ASSUME TypeOK, KeyInv, NEW i \in Instances, NEW age \in 0..MaxCall,
           NEW r \in Ages \union {-1}, r # -1 => r > MaxAge,
           Len(keys) < MaxKeys, keys' = Rotated(i, age, r)
    PROVE  /\ Steady /\ KeyInv'
           /\ keys' \in Seq(Key) /\ Len(keys') <= MaxKeys
<1> DEFINE f == [k \in DOMAIN keys |->
                   IF k \in ActiveKeys
                     THEN [keys[k] EXCEPT !.row = "retired", !.retired = age, !.age = 0]
                     ELSE keys[k]]
           e == NewKey(i, age, r)
<1>1. e \in Key /\ e.row = "active" /\ e.replaced = r
  BY Times, InstanceFields DEF NewKey, Key, Ages
<1>2. ASSUME NEW k \in DOMAIN keys
      PROVE  /\ f[k] \in Key /\ f[k].replaced = keys[k].replaced
             /\ f[k].row # "active"
             /\ keys[k].row # "active" => f[k] = keys[k]
             /\ keys[k].row = "active" => f[k].row = "retired" /\ f[k].retired = age
  <2>1. CASE keys[k].row = "active"
    <3>1. f[k] = [keys[k] EXCEPT !.row = "retired", !.retired = age, !.age = 0]
      BY <2>1 DEF ActiveKeys
    <3>2. keys[k] \in Key /\ age \in 0..(Retention + 1) /\ 0 \in Ages
      BY KeyFields, Times DEF Ages
    <3> QED  BY <2>1, <3>1, <3>2 DEF Key
  <2>2. CASE keys[k].row # "active"
    BY <2>2, KeyFields DEF ActiveKeys
  <2> QED  BY <2>1, <2>2
<1>3. f \in Seq(Key) /\ Len(f) = Len(keys) /\ DOMAIN f = DOMAIN keys
  <2>1. f \in [DOMAIN keys -> Key]
    BY <1>2
  <2> QED  BY <2>1, MappedSeq DEF TypeOK
<1>4. keys' = Append(f, e)
  BY DEF Rotated
<1> HIDE DEF f, e
<1>5. /\ keys' \in Seq(Key) /\ Len(keys') = Len(keys) + 1
      /\ DOMAIN keys' = 1..(Len(keys) + 1) /\ DOMAIN keys = 1..Len(keys) /\ Len(keys) \in Nat
      /\ \A k \in DOMAIN keys : keys'[k] = f[k]
      /\ keys'[Len(keys) + 1] = e
  BY <1>1, <1>3, <1>4, AppendSeq
<1>6. PICK n : n = Len(keys) + 1
  OBVIOUS
<1>7. /\ DOMAIN keys' = DOMAIN keys \union {n} /\ n \notin DOMAIN keys
      /\ keys'[n] = e
  BY <1>5, <1>6
<1>8. ActiveKeys' = {n}
  <2>1. \A k \in DOMAIN keys : keys'[k].row # "active"
    BY <1>2, <1>5
  <2> QED  BY <1>1, <1>7, <2>1 DEF ActiveKeys
<1>9. RotationsAreSpaced'
  BY <1>1, <1>2, <1>5, <1>7 DEF RotationsAreSpaced, KeyInv
<1>10. KeyInv'
  BY <1>8, <1>9 DEF KeyInv
<1>11. Steady
  <2> SUFFICES ASSUME NEW k, NEW late \in MaxCall..Retention, Kept(k, late)
               PROVE  Kept(k, late)'
    BY DEF Steady
  <2>1. k \in DOMAIN keys /\ k \in DOMAIN keys' /\ keys'[k] = f[k]
    BY <1>5, <1>7 DEF Kept
  <2>2. age <= late
    BY Times
  <2> QED  BY <1>2, <2>1, <2>2 DEF Kept
<1> QED  BY <1>5, <1>10, <1>11, Times

\* The first key.
LEMMA FirstKey ==
    ASSUME TypeOK, KeyInv, NEW i \in Instances, ActiveKeys = {}, Len(keys) < MaxKeys,
           keys' = Append(keys, NewKey(i, 0, -1))
    PROVE  /\ Steady /\ KeyInv'
           /\ keys' \in Seq(Key) /\ Len(keys') <= MaxKeys
           /\ Len(keys) + 1 \in 0..MaxKeys
           /\ \A n : n = Len(keys) + 1 => n \in DOMAIN keys' /\ keys'[n].row = "active"
<1> DEFINE e == NewKey(i, 0, -1)
<1>1. e \in Key /\ e.row = "active" /\ e.replaced = -1
  BY Times, InstanceFields DEF NewKey, Key, Ages
<1> HIDE DEF e
<1>2. keys' = Append(keys, e) /\ keys \in Seq(Key)
  BY DEF e, TypeOK
<1>3. /\ keys' \in Seq(Key) /\ Len(keys') = Len(keys) + 1
      /\ DOMAIN keys' = 1..(Len(keys) + 1) /\ DOMAIN keys = 1..Len(keys) /\ Len(keys) \in Nat
      /\ \A k \in DOMAIN keys : keys'[k] = keys[k]
      /\ keys'[Len(keys) + 1] = e
  BY <1>1, <1>2, AppendSeq
<1>4. PICK n : n = Len(keys) + 1
  OBVIOUS
<1>5. /\ DOMAIN keys' = DOMAIN keys \union {n} /\ n \notin DOMAIN keys
      /\ keys'[n] = e
  BY <1>3, <1>4
<1>6. ActiveKeys' = {n}
  BY <1>1, <1>3, <1>5 DEF ActiveKeys
<1>7. RotationsAreSpaced'
  BY <1>1, <1>3, <1>5 DEF RotationsAreSpaced, KeyInv
<1>8. Steady
  BY <1>3, <1>5 DEF Steady, Kept
<1>9. keys'[n].row = "active" /\ n \in DOMAIN keys' /\ n \in 0..MaxKeys
  BY <1>1, <1>3, <1>4, <1>5, Times
<1> QED  BY <1>3, <1>4, <1>6, <1>7, <1>8, <1>9, Times DEF KeyInv

-----------------------------------------------------------------------------
(***************************************************************************)
(* The actions.                                                            *)
(***************************************************************************)
LEMMA Initial == Init => SigningInv
<1> SUFFICES ASSUME Init PROVE SigningInv
  OBVIOUS
<1>1. TypeOK
  <2>1. keys \in Seq(Key) /\ Len(keys) <= MaxKeys
    BY Times DEF Init
  <2>2. instance \in [Instances -> Instance]
    BY Times DEF Init, Instance, Cap
  <2>3. call \in [Calls -> Call]
    BY Times DEF Init, Idle, Call
  <2>4. signed \in [KeyId -> 0..TokenLife] /\ stops \in 0..MaxStops
    BY Times DEF Init
  <2> QED  BY <2>1, <2>2, <2>3, <2>4 DEF TypeOK
<1>2. KeyInv
  BY DEF Init, KeyInv, ActiveKeys, RotationsAreSpaced
<1>3. HolderInv
  BY DEF Init, HolderInv, CallOK, InstanceOK, SignedOK, Idle
<1> QED  BY <1>1, <1>2, <1>3 DEF SigningInv

\* A call that moves on without touching a table or a cache.
LEMMA CallOnly ==
    ASSUME SigningInv, NEW c \in Calls, NEW q \in Call, call' = [call EXCEPT ![c] = q],
           UNCHANGED <<keys, instance, signed, stops>>, CallOK(c)'
    PROVE  SigningInv'
<1>1. Steady /\ KeyInv'
  BY SameKeys DEF SigningInv
<1>2. HolderInv'
  BY <1>1, CallMoves DEF SigningInv
<1>3. TypeOK'
  BY DEF SigningInv, TypeOK
<1> QED  BY <1>1, <1>2, <1>3 DEF SigningInv

LEMMA IdleOK ==
    ASSUME NEW c \in Calls, TypeOK, call' = [call EXCEPT ![c] = Idle]
    PROVE  CallOK(c)' /\ Idle \in Call
<1>1. call'[c] = Idle
  BY DEF TypeOK
<1> QED  BY <1>1, Times DEF CallOK, Idle, Call

\* A call that goes on to a step where it holds no key.
LEMMA Harmless ==
    ASSUME TypeOK, NEW c \in Calls, CallOK(c), call[c].pc # "idle",
           NEW pc \in {"load", "save", "sign"}, Goto(c, pc),
           pc = "sign" => call[c].kind = "sign",
           \A i \in Instances : instance'[i].up = instance[i].up
    PROVE  /\ CallOK(c)'
           /\ \E q \in Call : call' = [call EXCEPT ![c] = q]
<1>1. call[c] \in Call /\ call \in [Calls -> Call]
  BY DEF TypeOK
<1>2. PICK q : q = [call[c] EXCEPT !.pc = pc]
  OBVIOUS
<1>3. /\ q.pc = pc /\ q.at = call[c].at /\ q.kind = call[c].kind
      /\ q \in Call
  BY <1>1, <1>2 DEF Call
<1>4. call' = [call EXCEPT ![c] = q]
  BY <1>2 DEF Goto
<1>5. call'[c] = q
  BY <1>1, <1>4
<1> QED  BY <1>3, <1>4, <1>5 DEF CallOK

LEMMA RefreshFails ==
    ASSUME SigningInv, NEW c \in Calls, call[c].pc # "idle", RefreshFailed(c),
           UNCHANGED <<keys, instance, signed, stops>>
    PROVE  SigningInv'
<1>1. CASE call[c].kind = "sign"
  <2>1. Goto(c, "sign") /\ CallOK(c) /\ TypeOK
    BY <1>1 DEF RefreshFailed, SigningInv, HolderInv
  <2>2. CallOK(c)' /\ \E q \in Call : call' = [call EXCEPT ![c] = q]
    BY <1>1, <2>1, Harmless
  <2> QED  BY <2>2, CallOnly
<1>2. CASE call[c].kind # "sign"
  <2>1. call' = [call EXCEPT ![c] = Idle] /\ TypeOK
    BY <1>2 DEF RefreshFailed, Return, SigningInv
  <2> QED  BY <2>1, IdleOK, CallOnly
<1> QED  BY <1>1, <1>2

\* A new call.
LEMMA Begins ==
    ASSUME TypeOK, NEW c \in Calls, NEW i \in Instances,
           NEW kind \in {"start", "sign", "refresh"},
           NEW pc \in {"rewrap", "load", "rotate", "check", "sign"}, Begin(c, kind, i, pc),
           pc = "sign" => kind = "sign",
           kind = "sign" => instance'[i].up
    PROVE  /\ CallOK(c)'
           /\ \E q \in Call : call' = [call EXCEPT ![c] = q]
<1>1. PICK q : q = [Idle EXCEPT !.pc = pc, !.kind = kind, !.at = i]
  OBVIOUS
<1>2. q.pc = pc /\ q.kind = kind /\ q.at = i /\ q \in Call
  <2>1. q = [pc |-> pc, kind |-> kind, at |-> i, age |-> 0, kid |-> 0, found |-> {}]
    BY <1>1 DEF Idle
  <2>2. 0 \in 0..MaxCall /\ 0 \in 0..MaxKeys /\ {} \in SUBSET KeyId
    BY Times
  <2> QED  BY <2>1, <2>2 DEF Call
<1>3. call' = [call EXCEPT ![c] = q]
  BY <1>1 DEF Begin
<1>4. call'[c] = q
  BY <1>3 DEF TypeOK
<1> QED  BY <1>2, <1>3, <1>4 DEF CallOK

LEMMA BeginsOnly ==
    ASSUME SigningInv, NEW c \in Calls, NEW i \in Instances,
           NEW kind \in {"start", "sign", "refresh"},
           NEW pc \in {"rewrap", "load", "rotate", "check", "sign"}, Begin(c, kind, i, pc),
           pc = "sign" => kind = "sign",
           kind = "sign" => instance[i].up,
           UNCHANGED <<keys, instance, signed, stops>>
    PROVE  SigningInv'
<1>1. CallOK(c)' /\ \E q \in Call : call' = [call EXCEPT ![c] = q]
  BY Begins DEF SigningInv
<1> QED  BY <1>1, CallOnly

LEMMA StartsStep ==
    ASSUME SigningInv, NEW c \in Calls, NEW i \in Instances, Starts(c, i)
    PROVE  SigningInv'
<1>1. ASSUME NEW ring \in 1..MaxRing, StartInstance(c, i, ring)
      PROVE  SigningInv'
  <2>1. TypeOK /\ instance \in [Instances -> Instance]
    BY DEF SigningInv, TypeOK
  <2>2. instance' = [instance EXCEPT ![i].ring = ring]
        /\ Begin(c, "start", i, "rewrap") /\ UNCHANGED <<keys, signed, stops>>
    BY <1>1 DEF StartInstance
  <2>3. /\ instance' \in [Instances -> Instance]
        /\ \A j \in Instances :
             /\ instance'[j].up = instance[j].up /\ instance'[j].kid = instance[j].kid
             /\ instance'[j].lastRefresh = instance[j].lastRefresh
             /\ instance'[j].blind = instance[j].blind
    BY <2>1, <2>2 DEF Instance
  <2>4. PICK q \in Call : call' = [call EXCEPT ![c] = q]
    BY <2>1, <2>2, Begins
  <2>5. CallOK(c)'
    BY <2>1, <2>2, Begins
  <2>6. Steady /\ KeyInv'
    BY <2>2, SameKeys DEF SigningInv
  <2>7. HolderInv'
    BY <2>1, <2>2, <2>3, <2>4, <2>5, <2>6, CallMoves DEF SigningInv
  <2>8. TypeOK'
    BY <2>1, <2>2, <2>3, <2>4 DEF TypeOK
  <2> QED  BY <2>6, <2>7, <2>8 DEF SigningInv
<1>2. CASE Sign(c, i)
  <2>1. PICK pc \in {"load", "sign"} : Begin(c, "sign", i, pc)
    BY <1>2 DEF Sign
  <2> QED  BY <1>2, <2>1, BeginsOnly DEF Sign
<1>6. CASE jwks(c, i)
  BY <1>6, BeginsOnly DEF jwks
<1>3. ASSUME NEW k \in KeyId, Verify(c, i, k)
      PROVE  SigningInv'
  BY <1>3, BeginsOnly DEF Verify
<1>4. CASE rotateSigningKey(c, i)
  BY <1>4, BeginsOnly DEF rotateSigningKey, Rotate
<1>5. CASE runSigningKeyRotation(c, i)
  BY <1>5, BeginsOnly DEF runSigningKeyRotation, RotateIfOlderThan
<1> QED  BY <1>1, <1>2, <1>3, <1>4, <1>5, <1>6 DEF Starts

-----------------------------------------------------------------------------
LEMMA RewrapStep ==
    ASSUME SigningInv, NEW c \in Calls, RewrapSigningKeys(c)
    PROVE  SigningInv'
<1>1. TypeOK /\ KeyInv /\ HolderInv /\ CallOK(c) /\ call[c].pc # "idle"
  BY DEF SigningInv, HolderInv, RewrapSigningKeys
<1>2. call[c].at \in Instances /\ UNCHANGED <<instance, signed, stops>>
  BY <1>1 DEF CallOK, RewrapSigningKeys
<1>3. CASE Readable(call[c].at)
  <2>1. PICK ring : ring = instance[call[c].at].ring
    OBVIOUS
  <2>2. ring \in 1..MaxRing
    BY <1>1, <1>2, <2>1, InstanceFields
  <2> DEFINE f == [k \in DOMAIN keys |->
                     IF k \in Stored THEN [keys[k] EXCEPT !.wrap = ring] ELSE keys[k]]
  <2>3. keys' = f /\ Goto(c, "load")
    BY <1>3, <2>1 DEF RewrapSigningKeys
  <2>4. ASSUME NEW k \in DOMAIN keys
        PROVE  /\ f[k] \in Key /\ f[k].row = keys[k].row /\ f[k].retired = keys[k].retired
               /\ f[k].replaced = keys[k].replaced
    <3>1. keys[k] \in Key
      BY <1>1, KeyFields
    <3>2. [keys[k] EXCEPT !.wrap = ring] \in Key
      BY <2>2, <3>1 DEF Key
    <3> QED  BY <3>1, <3>2 DEF Key
  <2>5. f \in [DOMAIN keys -> Key]
    BY <2>4
  <2> HIDE DEF f
  <2>6. Steady /\ KeyInv' /\ keys' \in Seq(Key) /\ Len(keys') = Len(keys)
    BY <1>1, <2>3, <2>4, <2>5, SameRows
  <2>7. CallOK(c)' /\ \E q \in Call : call' = [call EXCEPT ![c] = q]
    BY <1>1, <1>2, <2>3, Harmless
  <2>8. PICK q \in Call : call' = [call EXCEPT ![c] = q]
    BY <2>7
  <2>9. HolderInv'
    BY <1>1, <1>2, <2>6, <2>7, <2>8, CallMoves
  <2>10. TypeOK'
    BY <1>1, <1>2, <2>6, <2>8 DEF TypeOK
  <2> QED  BY <2>6, <2>9, <2>10 DEF SigningInv
<1>4. CASE ~Readable(call[c].at)
  <2>1. call' = [call EXCEPT ![c] = Idle] /\ UNCHANGED <<keys, instance, signed, stops>>
    BY <1>4 DEF RewrapSigningKeys, Return
  <2> QED  BY <1>1, <2>1, IdleOK, CallOnly
<1> QED  BY <1>3, <1>4

LEMMA LoadStep ==
    ASSUME SigningInv, NEW c \in Calls, LoadActiveSigningKey(c)
    PROVE  SigningInv'
<1>1. TypeOK /\ CallOK(c) /\ call[c].pc # "idle" /\ call \in [Calls -> Call]
  BY DEF SigningInv, HolderInv, LoadActiveSigningKey, TypeOK
<1>2. UNCHANGED <<keys, instance, signed, stops>>
  BY DEF LoadActiveSigningKey
<1>3. ASSUME NEW k \in ActiveKeys, call' = [call EXCEPT ![c].pc = "apply", ![c].kid = k]
      PROVE  SigningInv'
  <2>1. k \in DOMAIN keys /\ keys[k].row = "active" /\ k \in 0..MaxKeys
    BY <1>1, KeyFields, Times DEF ActiveKeys, KeyId
  <2>2. PICK q : q = [call[c] EXCEPT !.pc = "apply", !.kid = k]
    OBVIOUS
  <2>3. call' = [call EXCEPT ![c] = q] /\ call'[c] = q
    BY <1>1, <1>3, <2>2
  <2>4. /\ q \in Call /\ q.pc = "apply" /\ q.kid = k /\ q.at = call[c].at
        /\ q.kind = call[c].kind
    BY <1>1, <2>1, <2>2 DEF Call
  <2>5. CallOK(c)'
    BY <1>1, <1>2, <2>1, <2>3, <2>4 DEF CallOK, Kept
  <2> QED  BY <1>2, <2>3, <2>4, <2>5, CallOnly
<1>4. CASE NewSigner(c)
  <2>1. CallOK(c)' /\ \E q \in Call : call' = [call EXCEPT ![c] = q]
    BY <1>1, <1>2, <1>4, Harmless DEF NewSigner
  <2> QED  BY <1>2, <2>1, CallOnly
<1>5. CASE RefreshFailed(c)
  BY <1>1, <1>2, <1>5, RefreshFails
<1> QED  BY <1>3, <1>4, <1>5 DEF LoadActiveSigningKey

LEMMA SaveStep ==
    ASSUME SigningInv, NEW c \in Calls, SaveActiveSigningKey(c)
    PROVE  SigningInv'
<1>1. /\ TypeOK /\ KeyInv /\ HolderInv /\ CallOK(c) /\ call[c].pc # "idle"
      /\ call \in [Calls -> Call]
  BY DEF SigningInv, HolderInv, SaveActiveSigningKey, TypeOK
<1>2. call[c].at \in Instances /\ UNCHANGED <<instance, signed, stops>>
  BY <1>1 DEF CallOK, SaveActiveSigningKey
<1>3. CASE /\ ActiveKeys = {} /\ Len(keys) < MaxKeys
           /\ keys' = Append(keys, NewKey(call[c].at, 0, -1))
           /\ call' = [call EXCEPT ![c].pc = "apply", ![c].kid = Len(keys) + 1]
  <2>1. PICK n : n = Len(keys) + 1
    OBVIOUS
  <2>2. /\ Steady /\ KeyInv' /\ keys' \in Seq(Key) /\ Len(keys') <= MaxKeys
        /\ n \in 0..MaxKeys /\ n \in DOMAIN keys' /\ keys'[n].row = "active"
    BY <1>1, <1>2, <1>3, <2>1, FirstKey
  <2>3. PICK q : q = [call[c] EXCEPT !.pc = "apply", !.kid = n]
    OBVIOUS
  <2>4. call' = [call EXCEPT ![c] = q] /\ call'[c] = q
    BY <1>1, <1>3, <2>1, <2>3
  <2>5. /\ q \in Call /\ q.pc = "apply" /\ q.kid = n /\ q.at = call[c].at
        /\ q.kind = call[c].kind
    BY <1>1, <2>2, <2>3 DEF Call
  <2>6. CallOK(c)'
    BY <1>1, <1>2, <2>2, <2>4, <2>5 DEF CallOK, Kept
  <2>7. HolderInv'
    BY <1>1, <1>2, <2>2, <2>4, <2>6, CallMoves
  <2>8. TypeOK'
    BY <1>1, <1>2, <2>2, <2>4, <2>5 DEF TypeOK
  <2> QED  BY <2>2, <2>7, <2>8 DEF SigningInv
<1>4. CASE Goto(c, "load") /\ UNCHANGED keys
  <2>1. CallOK(c)' /\ \E q \in Call : call' = [call EXCEPT ![c] = q]
    BY <1>1, <1>2, <1>4, Harmless
  <2> QED  BY <1>2, <1>4, <2>1, CallOnly
<1> QED  BY <1>3, <1>4 DEF SaveActiveSigningKey

LEMMA ListStep ==
    ASSUME SigningInv, NEW c \in Calls, ListSigningKeys(c)
    PROVE  SigningInv'
<1>1. TypeOK /\ CallOK(c) /\ call[c].pc = "list" /\ call \in [Calls -> Call]
  BY DEF SigningInv, HolderInv, ListSigningKeys, TypeOK
<1>2. UNCHANGED <<keys, instance, signed, stops>>
  BY DEF ListSigningKeys
<1>3. CASE Readable(call[c].at)
  <2>1. Stored \in SUBSET KeyId
    BY <1>1, KeyFields DEF Stored
  <2>2. PICK q : q = [call[c] EXCEPT !.pc = "store", !.found = Stored]
    OBVIOUS
  <2>3. call' = [call EXCEPT ![c] = q] /\ call'[c] = q
    BY <1>1, <1>3, <2>2 DEF ListSigningKeys
  <2>4. /\ q \in Call /\ q.pc = "store" /\ q.at = call[c].at
        /\ q.kind = call[c].kind /\ q.age = call[c].age
    BY <1>1, <2>1, <2>2 DEF Call
  <2>5. CallOK(c)'
    BY <1>1, <1>2, <2>3, <2>4 DEF CallOK, Kept
  <2> QED  BY <1>2, <2>3, <2>4, <2>5, CallOnly
<1>4. CASE ~Readable(call[c].at)
  BY <1>1, <1>2, <1>4, RefreshFails DEF ListSigningKeys
<1> QED  BY <1>3, <1>4

LEMMA KeptLonger ==
    ASSUME TypeOK, NEW k, NEW a \in Int, NEW b \in Int, a <= b, Kept(k, a)
    PROVE  Kept(k, b)
<1>1. k \in DOMAIN keys /\ keys[k].retired \in Int
  BY KeyFields, Times DEF Kept
<1> QED  BY <1>1 DEF Kept

LEMMA ApplyStep ==
    ASSUME SigningInv, NEW c \in Calls, ApplyActiveKey(c)
    PROVE  SigningInv'
<1>1. /\ TypeOK /\ KeyInv /\ HolderInv /\ CallOK(c) /\ call[c].pc = "apply"
      /\ call \in [Calls -> Call] /\ instance \in [Instances -> Instance]
  BY DEF SigningInv, HolderInv, ApplyActiveKey, TypeOK
<1>2. PICK i, k : i = call[c].at /\ k = call[c].kid
  OBVIOUS
<1>3. i \in Instances /\ k \in 0..MaxKeys /\ UNCHANGED <<keys, signed, stops>>
  BY <1>1, <1>2, CallFields DEF CallOK, ApplyActiveKey
<1>4. Steady /\ KeyInv'
  BY <1>1, <1>3, SameKeys
<1>5. Kept(k, 2 * MaxCall)
  <2>1. Kept(k, MaxCall + call[c].age)
    BY <1>1, <1>2 DEF CallOK
  <2>2. call[c].age \in 0..MaxCall
    BY <1>1, CallFields
  <2> QED  BY <1>1, <2>1, <2>2, KeptLonger, Times
<1>6. \A late \in Int : late >= 2 * MaxCall => Kept(k, late)'
  <2>1. \A late \in Int : late >= 2 * MaxCall => Kept(k, late)
    BY <1>1, <1>5, KeptLonger, Times
  <2> QED  BY <1>3, <2>1 DEF Kept
<1>7. /\ instance' = [instance EXCEPT ![i].kid = k]
      /\ call' = [call EXCEPT ![c].pc = "list", ![c].kid = 0]
  BY <1>2 DEF ApplyActiveKey
<1>8. /\ instance' \in [Instances -> Instance]
      /\ instance'[i].kid = k /\ instance'[i].up = instance[i].up
      /\ instance'[i].lastRefresh = instance[i].lastRefresh
      /\ instance'[i].blind = instance[i].blind
      /\ \A j \in Instances : j # i => instance'[j] = instance[j]
  BY <1>1, <1>3, <1>7 DEF Instance
<1>9. PICK q : q = [call[c] EXCEPT !.pc = "list", !.kid = 0]
  OBVIOUS
<1>10. call' = [call EXCEPT ![c] = q] /\ call'[c] = q /\ \A d \in Calls : d # c => call'[d] = call[d]
  BY <1>1, <1>7, <1>9
<1>11. /\ q \in Call /\ q.pc = "list" /\ q.at = i
       /\ q.kind = call[c].kind /\ q.age = call[c].age
  <2>1. call[c] \in Call /\ 0 \in 0..MaxKeys
    BY <1>1, Times
  <2> QED  BY <1>2, <1>9, <2>1 DEF Call
<1>12. TypeOK'
  BY <1>1, <1>3, <1>8, <1>10, <1>11 DEF TypeOK
<1>13. CallOK(c)'
  <2>1. 2 * MaxCall + q.age \in Int /\ 2 * MaxCall + q.age >= 2 * MaxCall
    BY <1>1, <1>11, CallFields, Times
  <2> QED  BY <1>1, <1>2, <1>3, <1>6, <1>8, <1>10, <1>11, <2>1 DEF CallOK
<1>14. ASSUME NEW d \in Calls, d # c
       PROVE  CallOK(d)'
  <2>1. CallOK(d) /\ call'[d] = call[d]
    BY <1>1, <1>10, <1>14 DEF HolderInv
  <2>2. CASE call[d].at # i
    BY <1>1, <1>4, <1>8, <2>1, <2>2, CallKept
  <2>3. CASE call[d].at = i
    <3>1. call[d].age \in 0..MaxCall
      BY <1>1, CallFields
    <3>2. Kept(k, 2 * MaxCall + call[d].age)'
      BY <1>6, <2>1, <3>1, Times
    <3>3. call[d].pc = "apply" => Kept(call[d].kid, MaxCall + call[d].age)'
      BY <1>3, <2>1 DEF CallOK, Kept
    <3> QED  BY <1>8, <2>1, <2>3, <3>2, <3>3 DEF CallOK
  <2> QED  BY <2>2, <2>3
<1>15. ASSUME NEW j \in Instances
       PROVE  InstanceOK(j)'
  <2>1. CASE j # i
    BY <1>1, <1>4, <1>8, <2>1, InstanceKept DEF HolderInv
  <2>2. CASE j = i
    <3>1. /\ instance[i].lastRefresh \in 0..Cap /\ instance[i].blind \in 0..MaxBlind
      BY <1>1, <1>3, InstanceFields
    <3>2. PICK l, b : l = instance[i].lastRefresh /\ b = instance[i].blind
      OBVIOUS
    <3>3. Kept(k, 3 * MaxCall + l + b)' /\ Kept(k, 3 * MaxCall + l)'
      BY <1>6, <3>1, <3>2, Times
    <3> QED  BY <1>8, <2>2, <3>2, <3>3 DEF InstanceOK
  <2> QED  BY <2>1, <2>2
<1>16. \A x \in KeyId : SignedOK(x)'
  BY <1>1, <1>3, <1>4, SignedKept DEF HolderInv
<1> QED  BY <1>4, <1>12, <1>13, <1>14, <1>15, <1>16 DEF SigningInv, HolderInv

LEMMA StoreStep ==
    ASSUME SigningInv, NEW c \in Calls, StoreVerificationKeys(c)
    PROVE  SigningInv'
<1>1. /\ TypeOK /\ KeyInv /\ HolderInv /\ CallOK(c) /\ call[c].pc = "store"
      /\ call \in [Calls -> Call] /\ instance \in [Instances -> Instance]
  BY DEF SigningInv, HolderInv, StoreVerificationKeys, TypeOK
<1>2. PICK i, found : i = call[c].at /\ found = call[c].found
  OBVIOUS
<1>3. i \in Instances /\ found \in SUBSET KeyId /\ UNCHANGED <<keys, signed, stops>>
  BY <1>1, <1>2, CallFields DEF CallOK, StoreVerificationKeys
<1>4. Steady /\ KeyInv'
  BY <1>1, <1>3, SameKeys
<1>5. instance' = [instance EXCEPT ![i] =
          [instance[i] EXCEPT !.verification = found, !.lastRefresh = 0, !.up = TRUE]]
  BY <1>2 DEF StoreVerificationKeys
<1>6. /\ instance' \in [Instances -> Instance]
      /\ instance'[i].kid = instance[i].kid /\ instance'[i].up = TRUE
      /\ instance'[i].lastRefresh = 0
      /\ instance'[i].blind = instance[i].blind
      /\ \A j \in Instances : j # i => instance'[j] = instance[j]
  <2>1. instance[i] \in Instance /\ 0 \in 0..(Staleness + MaxIdle)
    BY <1>1, <1>3, Times
  <2>2. PICK r : r = [instance[i] EXCEPT !.verification = found, !.lastRefresh = 0, !.up = TRUE]
    OBVIOUS
  <2>3. r \in Instance /\ r.kid = instance[i].kid /\ r.up = TRUE /\ r.lastRefresh = 0
        /\ r.blind = instance[i].blind
    BY <1>3, <2>1, <2>2 DEF Instance
  <2> QED  BY <1>1, <1>3, <1>5, <2>2, <2>3
<1>7. /\ \E q \in Call : call' = [call EXCEPT ![c] = q]
      /\ CallOK(c)'
  <2>1. CASE call[c].kind = "sign"
    <3>1. Goto(c, "sign") /\ instance[i].up
      BY <1>1, <1>2, <2>1 DEF StoreVerificationKeys, CallOK
    <3> QED  BY <1>1, <1>3, <1>6, <2>1, <3>1, Harmless
  <2>2. CASE call[c].kind # "sign"
    BY <1>1, <2>2, IdleOK DEF StoreVerificationKeys, Return
  <2> QED  BY <2>1, <2>2
<1>8. PICK q \in Call : call' = [call EXCEPT ![c] = q]
  BY <1>7
<1>9. TypeOK'
  BY <1>1, <1>3, <1>6, <1>8 DEF TypeOK
<1>10. ASSUME NEW d \in Calls, d # c
       PROVE  CallOK(d)'
  <2>1. call'[d] = call[d] /\ CallOK(d)
    BY <1>1, <1>8, <1>10 DEF HolderInv
  <2>2. call[d].at \in Instances =>
             /\ instance'[call[d].at].kid = instance[call[d].at].kid
             /\ instance[call[d].at].up => instance'[call[d].at].up
    BY <1>3, <1>6
  <2> QED  BY <1>1, <1>4, <2>1, <2>2, CallKept
<1>11. ASSUME NEW j \in Instances
       PROVE  InstanceOK(j)'
  <2>1. CASE j # i
    BY <1>1, <1>4, <1>6, <2>1, InstanceKept DEF HolderInv
  <2>2. CASE j = i
    <3>1. Kept(instance[i].kid, 2 * MaxCall + call[c].age)
      BY <1>1, <1>2 DEF CallOK
    <3>2. call[c].age \in 0..MaxCall /\ instance[i].blind \in 0..MaxBlind
      BY <1>1, <1>3, CallFields, InstanceFields
    <3>3. PICK k, b : k = instance[i].kid /\ b = instance[i].blind
      OBVIOUS
    <3>4. Kept(k, 3 * MaxCall + 0 + b) /\ Kept(k, 3 * MaxCall + 0)
      BY <1>1, <3>1, <3>2, <3>3, KeptLonger, Times
    <3>5. Kept(k, 3 * MaxCall + 0 + b)' /\ Kept(k, 3 * MaxCall + 0)'
      BY <1>3, <3>4 DEF Kept
    <3> QED  BY <1>6, <2>2, <3>3, <3>5 DEF InstanceOK
  <2> QED  BY <2>1, <2>2
<1>12. \A x \in KeyId : SignedOK(x)'
  BY <1>1, <1>3, <1>4, SignedKept DEF HolderInv
<1> QED  BY <1>4, <1>7, <1>9, <1>10, <1>11, <1>12 DEF SigningInv, HolderInv

\* The process has ended: its calls are gone, and it is not asked any more.
LEMMA StopStep ==
    ASSUME SigningInv, NEW i \in Instances, Stop(i)
    PROVE  SigningInv'
<1>1. /\ TypeOK /\ KeyInv /\ HolderInv
      /\ call \in [Calls -> Call] /\ instance \in [Instances -> Instance]
      /\ stops \in 0..MaxStops
  BY DEF SigningInv, TypeOK
<1>2. UNCHANGED <<keys, signed>> /\ stops' \in 0..MaxStops
  BY <1>1, Times DEF Stop
<1>3. Steady /\ KeyInv'
  BY <1>1, <1>2, SameKeys
<1>4. /\ instance' \in [Instances -> Instance]
      /\ instance'[i].up = FALSE
      /\ \A j \in Instances : j # i => instance'[j] = instance[j]
  <2>1. PICK r : r = [instance[i] EXCEPT !.up = FALSE, !.kid = 0, !.verification = {},
                                         !.lastRefresh = 0, !.blind = 0]
    OBVIOUS
  <2>2. instance[i] \in Instance /\ 0 \in 0..(Staleness + MaxIdle) /\ 0 \in 0..MaxBlind
        /\ 0 \in 0..MaxKeys
    BY <1>1, Times
  <2>3. r \in Instance /\ r.up = FALSE
    BY <2>1, <2>2 DEF Instance
  <2>4. instance' = [instance EXCEPT ![i] = r]
    BY <2>1 DEF Stop
  <2> QED  BY <1>1, <2>3, <2>4
<1>5. /\ Idle \in Call /\ call' \in [Calls -> Call]
      /\ \A c \in Calls : IF call[c].at = i THEN call'[c] = Idle ELSE call'[c] = call[c]
  <2>1. Idle \in Call
    BY Times DEF Idle, Call
  <2> QED  BY <1>1, <2>1 DEF Stop
<1>6. TypeOK'
  BY <1>1, <1>2, <1>4, <1>5 DEF TypeOK
<1>7. ASSUME NEW c \in Calls
      PROVE  CallOK(c)'
  <2>1. CASE call[c].at = i
    BY <1>5, <2>1 DEF CallOK, Idle
  <2>2. CASE call[c].at # i
    BY <1>1, <1>3, <1>4, <1>5, <2>2, CallKept DEF HolderInv
  <2> QED  BY <2>1, <2>2
<1>8. ASSUME NEW j \in Instances
      PROVE  InstanceOK(j)'
  <2>1. CASE j = i
    BY <1>4, <2>1 DEF InstanceOK
  <2>2. CASE j # i
    BY <1>1, <1>3, <1>4, <2>2, InstanceKept DEF HolderInv
  <2> QED  BY <2>1, <2>2
<1>9. \A x \in KeyId : SignedOK(x)'
  BY <1>1, <1>2, <1>3, SignedKept DEF HolderInv
<1> QED  BY <1>3, <1>6, <1>7, <1>8, <1>9 DEF SigningInv, HolderInv

\* A token is signed with a key that will be there as long as the token lives.
LEMMA SignedWith ==
    ASSUME SigningInv, NEW i \in Instances, instance[i].up, Signed(i),
           UNCHANGED <<keys, instance, stops>>
    PROVE  /\ \A k \in KeyId : SignedOK(k)'
           /\ signed' \in [KeyId -> 0..TokenLife]
<1>1. /\ TypeOK /\ HolderInv /\ InstanceOK(i) /\ signed \in [KeyId -> 0..TokenLife]
  BY DEF SigningInv, HolderInv, TypeOK
<1>2. PICK x : x = instance[i].kid
  OBVIOUS
<1>3. signed' = [signed EXCEPT ![x] = TokenLife]
  BY <1>2 DEF Signed
<1>4. Kept(x, Retention - TokenLife)
  <2>1. instance[i].lastRefresh \in 0..Cap /\ instance[i].blind \in 0..MaxBlind
    BY <1>1, InstanceFields
  <2>2. Kept(x, 3 * MaxCall + instance[i].lastRefresh + instance[i].blind)
    BY <1>1, <1>2 DEF InstanceOK
  <2> QED  BY <1>1, <2>1, <2>2, KeptLonger, Times
<1>5. x \in KeyId
  BY <1>1, <1>4, KeyFields DEF Kept
<1>6. Kept(x, Retention - TokenLife)'
  BY <1>4 DEF Kept
<1>7. Steady
  BY SameKeys
<1>8. ASSUME NEW k \in KeyId PROVE SignedOK(k)'
  <2>1. CASE k = x
    BY <1>1, <1>3, <1>5, <1>6, <2>1 DEF SignedOK
  <2>2. CASE k # x
    BY <1>1, <1>3, <1>7, <2>2, SignedKept DEF HolderInv
  <2> QED  BY <2>1, <2>2
<1>9. signed' \in [KeyId -> 0..TokenLife]
  <2>1. TokenLife \in 0..TokenLife
    BY Times
  <2> QED  BY <1>1, <1>3, <2>1
<1> QED  BY <1>8, <1>9

LEMMA SignTypedStep ==
    ASSUME SigningInv, NEW c \in Calls, SignTyped(c)
    PROVE  SigningInv'
<1>1. /\ TypeOK /\ CallOK(c) /\ call[c].pc = "sign" /\ Signed(call[c].at)
      /\ UNCHANGED <<keys, instance, stops>> /\ call' = [call EXCEPT ![c] = Idle]
  BY DEF SignTyped, Return, SigningInv, HolderInv
<1>2. call[c].at \in Instances /\ instance[call[c].at].up
  BY <1>1 DEF CallOK
<1>3. /\ \A k \in KeyId : SignedOK(k)'
      /\ signed' \in [KeyId -> 0..TokenLife]
  BY <1>1, <1>2, SignedWith
<1>4. Idle \in Call /\ CallOK(c)'
  BY <1>1, IdleOK
<1>5. TypeOK' /\ KeyInv' /\ Steady
  BY <1>1, <1>3, <1>4, SameKeys DEF SigningInv, TypeOK
<1>6. ASSUME NEW d \in Calls, d # c
      PROVE  CallOK(d)'
  <2>1. call'[d] = call[d]
    BY <1>1, <1>6 DEF TypeOK
  <2> QED  BY <1>1, <1>5, <2>1, CallKept DEF SigningInv, HolderInv
<1>7. \A j \in Instances : InstanceOK(j)'
  BY <1>1, <1>5, InstanceKept DEF SigningInv, HolderInv
<1> QED  BY <1>3, <1>4, <1>5, <1>6, <1>7 DEF SigningInv, HolderInv

\* A rotation of either kind, and the call that asked for it goes on to load.
LEMMA RotationStep ==
    ASSUME SigningInv, NEW c \in Calls, call[c].pc # "idle",
           NEW r \in Ages \union {-1}, r # -1 => r > MaxAge, Len(keys) < MaxKeys,
           keys' = Rotated(call[c].at, call[c].age, r), Goto(c, "load"),
           UNCHANGED <<instance, signed, stops>>
    PROVE  SigningInv'
<1>1. TypeOK /\ KeyInv /\ HolderInv /\ CallOK(c)
  BY DEF SigningInv, HolderInv
<1>2. call[c].at \in Instances /\ call[c].age \in 0..MaxCall
  BY <1>1, CallFields DEF CallOK
<1>3. Steady /\ KeyInv' /\ keys' \in Seq(Key) /\ Len(keys') <= MaxKeys
  BY <1>1, <1>2, Rotation
<1>4. CallOK(c)' /\ \E q \in Call : call' = [call EXCEPT ![c] = q]
  BY <1>1, Harmless
<1>5. PICK q \in Call : call' = [call EXCEPT ![c] = q]
  BY <1>4
<1>6. HolderInv'
  BY <1>1, <1>3, <1>4, <1>5, CallMoves
<1>7. TypeOK'
  BY <1>1, <1>3, <1>5 DEF TypeOK
<1> QED  BY <1>3, <1>6, <1>7 DEF SigningInv

LEMMA RotateStep ==
    ASSUME SigningInv, NEW c \in Calls, RotateSigningKey(c)
    PROVE  SigningInv'
<1>1. -1 \in Ages \union {-1}
  OBVIOUS
<1> QED  BY <1>1, RotationStep DEF RotateSigningKey

\* The transaction looks again: what it replaces is older than MaxAge.
LEMMA RotateIfOlderStep ==
    ASSUME SigningInv, NEW c \in Calls, RotateSigningKeyIfOlderThan(c)
    PROVE  SigningInv'
<1>1. /\ call[c].pc # "idle" /\ Goto(c, "load") /\ UNCHANGED <<instance, signed, stops>>
      /\ TypeOK /\ CallOK(c)
  BY DEF RotateSigningKeyIfOlderThan, SigningInv, HolderInv
<1>2. CASE Due(c)
  <2>1. PICK k \in ActiveKeys :
             keys' = Rotated(call[c].at, call[c].age, keys[k].age - call[c].age)
    BY <1>2 DEF RotateSigningKeyIfOlderThan
  <2>2. PICK r : r = keys[k].age - call[c].age
    OBVIOUS
  <2>3. keys[k].age \in Ages /\ call[c].age \in 0..MaxCall
    BY <1>1, <2>1, KeyFields, CallFields DEF ActiveKeys
  <2>4. r > MaxAge
    BY <1>2, <2>1, <2>2 DEF Due, Old
  <2>5. r \in Ages
    BY <2>2, <2>3, <2>4, Times DEF Ages
  <2>6. Len(keys) < MaxKeys /\ keys' = Rotated(call[c].at, call[c].age, r)
    BY <1>2, <2>1, <2>2 DEF RotateSigningKeyIfOlderThan
  <2> QED  BY <1>1, <2>4, <2>5, <2>6, RotationStep
<1>3. CASE ~Due(c)
  <2>1. UNCHANGED keys
    BY <1>3 DEF RotateSigningKeyIfOlderThan
  <2>2. CallOK(c)' /\ \E q \in Call : call' = [call EXCEPT ![c] = q]
    BY <1>1, Harmless
  <2> QED  BY <1>1, <2>1, <2>2, CallOnly
<1> QED  BY <1>2, <1>3

\* Nothing that somebody still holds is deleted.
LEMMA CleanupStep ==
    ASSUME SigningInv, Cleanup
    PROVE  SigningInv'
<1>1. TypeOK /\ KeyInv /\ HolderInv /\ UNCHANGED <<instance, call, signed, stops>>
  BY DEF SigningInv, Cleanup
<1> DEFINE f == [k \in DOMAIN keys |->
                   IF Deletable(k)
                     THEN [keys[k] EXCEPT !.row = "deleted", !.retired = 0, !.wrap = 1]
                     ELSE keys[k]]
<1>2. keys' = f
  BY DEF Cleanup
<1>3. ASSUME NEW k \in DOMAIN keys
      PROVE  /\ f[k] \in Key /\ f[k].replaced = keys[k].replaced
             /\ f[k].row = "active" <=> keys[k].row = "active"
             /\ ~Deletable(k) => f[k] = keys[k]
  <2>1. keys[k] \in Key
    BY <1>1, KeyFields
  <2>2. CASE Deletable(k)
    <3>1. 0 \in 0..(Retention + 1) /\ 1 \in 1..MaxRing
      BY Times
    <3>2. f[k] = [keys[k] EXCEPT !.row = "deleted", !.retired = 0, !.wrap = 1]
      BY <2>2
    <3>3. f[k] \in Key /\ f[k].replaced = keys[k].replaced /\ f[k].row = "deleted"
      BY <2>1, <3>1, <3>2 DEF Key
    <3> QED  BY <2>2, <3>3 DEF Deletable
  <2>3. CASE ~Deletable(k)
    BY <2>1, <2>3
  <2> QED  BY <2>2, <2>3
<1>4. f \in [DOMAIN keys -> Key]
  BY <1>3
<1> HIDE DEF f
<1>5. keys' \in Seq(Key) /\ Len(keys') = Len(keys) /\ DOMAIN keys' = DOMAIN keys
  BY <1>1, <1>2, <1>4, MappedSeq DEF TypeOK
<1>6. ActiveKeys' = ActiveKeys
  BY <1>2, <1>3, <1>5 DEF ActiveKeys
<1>7. KeyInv'
  BY <1>1, <1>2, <1>3, <1>5, <1>6 DEF KeyInv, RotationsAreSpaced
<1>8. Steady
  <2> SUFFICES ASSUME NEW k, NEW late \in MaxCall..Retention, Kept(k, late)
               PROVE  Kept(k, late)'
    BY DEF Steady
  <2>1. k \in DOMAIN keys /\ keys[k].retired \in 0..(Retention + 1)
    BY <1>1, KeyFields DEF Kept
  <2>2. ~Deletable(k)
    BY <2>1, Times DEF Kept, Deletable
  <2> QED  BY <1>2, <1>3, <1>5, <2>1, <2>2 DEF Kept
<1>9. HolderInv'
  BY <1>1, <1>8, CallKept, InstanceKept, SignedKept DEF HolderInv
<1>10. TypeOK'
  BY <1>1, <1>5 DEF TypeOK
<1> QED  BY <1>7, <1>9, <1>10 DEF SigningInv

-----------------------------------------------------------------------------
(***************************************************************************)
(* Time passes: every bound grows by one, and so do the ages it is made of.*)
(***************************************************************************)
LEMMA TickKeys ==
    ASSUME TypeOK, KeyInv, Tick
    PROVE  /\ keys' \in Seq(Key) /\ Len(keys') = Len(keys) /\ KeyInv'
           /\ \A k, late : late \in 0..Retention /\ Kept(k, late) => Kept(k, late + 1)'
<1> DEFINE f == [k \in DOMAIN keys |->
          CASE keys[k].row = "active" ->
                  [keys[k] EXCEPT !.age = Older(@, MaxAge + MaxCall + 1)]
            [] keys[k].row = "retired" ->
                  [keys[k] EXCEPT !.retired = Older(@, Retention + 1)]
            [] OTHER -> keys[k]]
<1>1. keys' = f
  BY DEF Tick
<1>2. ASSUME NEW k \in DOMAIN keys
      PROVE  /\ f[k] \in Key /\ f[k].replaced = keys[k].replaced
             /\ f[k].row = keys[k].row
             /\ \A late \in 0..Retention :
                  keys[k].row = "retired" /\ keys[k].retired <= late
                    => f[k].retired <= late + 1
  <2>1. /\ keys[k] \in Key /\ keys[k].age \in Ages
        /\ keys[k].retired \in 0..(Retention + 1)
        /\ keys[k].row \in {"active", "retired", "deleted"}
    BY KeyFields
  <2>2. CASE keys[k].row = "active"
    <3>1. PICK a : a = Older(keys[k].age, MaxAge + MaxCall + 1)
      OBVIOUS
    <3>2. a \in Ages
      BY <2>1, <3>1, Times DEF Older, Ages
    <3>3. f[k] = [keys[k] EXCEPT !.age = a]
      BY <2>2, <3>1
    <3>4. f[k] \in Key /\ f[k].replaced = keys[k].replaced /\ f[k].row = keys[k].row
      BY <2>1, <3>2, <3>3 DEF Key
    <3> QED  BY <2>2, <3>4
  <2>3. CASE keys[k].row = "retired"
    <3>1. PICK a : a = Older(keys[k].retired, Retention + 1)
      OBVIOUS
    <3>2. /\ a \in 0..(Retention + 1)
          /\ \A late \in 0..Retention : keys[k].retired <= late => a <= late + 1
      BY <2>1, <3>1, Times DEF Older
    <3>3. f[k] = [keys[k] EXCEPT !.retired = a]
      BY <2>3, <3>1
    <3>4. /\ f[k] \in Key /\ f[k].replaced = keys[k].replaced /\ f[k].row = keys[k].row
          /\ f[k].retired = a
      BY <2>1, <3>2, <3>3 DEF Key
    <3> QED  BY <3>2, <3>4
  <2>4. CASE keys[k].row = "deleted"
    <3>1. f[k] = keys[k]
      BY <2>4
    <3> QED  BY <2>1, <2>4, <3>1
  <2> QED  BY <2>1, <2>2, <2>3, <2>4
<1>3. f \in [DOMAIN keys -> Key]
  BY <1>2
<1> HIDE DEF f
<1>4. keys' \in Seq(Key) /\ Len(keys') = Len(keys) /\ DOMAIN keys' = DOMAIN keys
  BY <1>1, <1>3, MappedSeq DEF TypeOK
<1>5. ActiveKeys' = ActiveKeys
  BY <1>1, <1>2, <1>4 DEF ActiveKeys
<1>6. KeyInv'
  BY <1>1, <1>2, <1>4, <1>5 DEF KeyInv, RotationsAreSpaced
<1>7. ASSUME NEW k, NEW late \in 0..Retention, Kept(k, late)
      PROVE  Kept(k, late + 1)'
  BY <1>1, <1>2, <1>4, <1>7 DEF Kept
<1> QED  BY <1>4, <1>6, <1>7

LEMMA TickCalls ==
    ASSUME TypeOK, Tick
    PROVE  /\ call' \in [Calls -> Call]
           /\ \A c \in Calls :
                /\ call'[c].pc = call[c].pc
                /\ call[c].pc # "idle" =>
                     /\ call'[c].at = call[c].at /\ call'[c].kind = call[c].kind
                     /\ call'[c].kid = call[c].kid /\ call'[c].age = call[c].age + 1
<1>1. Idle \in Call /\ Idle.pc = "idle"
  BY Times DEF Idle, Call
<1>2. ASSUME NEW c \in Calls
      PROVE  /\ call'[c] \in Call /\ call'[c].pc = call[c].pc
             /\ call[c].pc # "idle" =>
                  /\ call'[c].at = call[c].at /\ call'[c].kind = call[c].kind
                  /\ call'[c].kid = call[c].kid /\ call'[c].age = call[c].age + 1
  <2>1. CASE call[c].pc = "idle"
    <3>1. call'[c] = Idle
      BY <2>1 DEF Tick
    <3> QED  BY <1>1, <2>1, <3>1
  <2>2. CASE call[c].pc # "idle"
    <3>0. call[c].age < MaxCall
      BY <2>2 DEF Tick
    <3>1. call[c] \in Call /\ call[c].age + 1 \in 0..MaxCall
      BY <3>0, CallFields, Times
    <3>2. call'[c] = [call[c] EXCEPT !.age = call[c].age + 1]
      BY <2>2 DEF Tick
    <3> QED  BY <3>1, <3>2 DEF Call
  <2> QED  BY <2>1, <2>2
<1>3. call' = [c \in Calls |-> call'[c]]
  BY DEF Tick
<1> QED  BY <1>2, <1>3

LEMMA TickInstances ==
    ASSUME TypeOK, Tick
    PROVE  /\ instance' \in [Instances -> Instance]
           /\ \A i \in Instances :
                /\ instance'[i].up = instance[i].up /\ instance'[i].kid = instance[i].kid
                /\ instance[i].up =>
                     \/ /\ instance[i].lastRefresh < Cap
                        /\ instance'[i].lastRefresh = instance[i].lastRefresh + 1
                     \/ /\ instance[i].lastRefresh = Cap /\ instance'[i].lastRefresh = Cap
                        /\ instance'[i].blind = instance[i].blind + 1
<1>1. ASSUME NEW i \in Instances
      PROVE  /\ instance'[i] \in Instance
             /\ instance'[i].up = instance[i].up /\ instance'[i].kid = instance[i].kid
             /\ instance[i].up =>
                  \/ /\ instance[i].lastRefresh < Cap
                     /\ instance'[i].lastRefresh = instance[i].lastRefresh + 1
                  \/ /\ instance[i].lastRefresh = Cap /\ instance'[i].lastRefresh = Cap
                     /\ instance'[i].blind = instance[i].blind + 1
  <2>1. /\ instance[i] \in Instance /\ instance[i].lastRefresh \in 0..Cap
        /\ instance[i].blind \in 0..MaxBlind
    BY InstanceFields
  <2>2. CASE ~instance[i].up
    <3>1. instance'[i] = instance[i]
      BY <2>2 DEF Tick
    <3> QED  BY <2>1, <2>2, <3>1
  <2>3. CASE instance[i].up
    <3>1. PICK l, b : /\ l = Older(instance[i].lastRefresh, Cap)
                      /\ b = IF Readable(i) THEN 0 ELSE instance[i].blind + 1
      OBVIOUS
    <3>2. instance'[i] = [instance[i] EXCEPT !.lastRefresh = l, !.blind = b]
      BY <2>3, <3>1 DEF Tick, Cap
    <3>3. IF Readable(i) THEN instance[i].lastRefresh < Cap ELSE instance[i].blind < MaxBlind
      BY <2>3 DEF Tick, Cap
    <3>4. l \in 0..Cap /\ b \in 0..MaxBlind
      BY <2>1, <3>1, <3>3, Times DEF Older
    <3>5. instance'[i] \in Instance /\ instance'[i].up = instance[i].up
          /\ instance'[i].kid = instance[i].kid
          /\ instance'[i].lastRefresh = l /\ instance'[i].blind = b
      BY <2>1, <3>2, <3>4 DEF Instance, Cap
    <3>6. \/ instance[i].lastRefresh < Cap /\ l = instance[i].lastRefresh + 1
          \/ instance[i].lastRefresh = Cap /\ l = Cap /\ b = instance[i].blind + 1
      BY <2>1, <3>1, <3>3, Times DEF Older
    <3> QED  BY <3>5, <3>6
  <2> QED  BY <2>2, <2>3
<1>2. instance' = [i \in Instances |-> instance'[i]]
  BY DEF Tick
<1> QED  BY <1>1, <1>2

LEMMA TickStep ==
    ASSUME SigningInv, Tick
    PROVE  SigningInv'
<1>1. TypeOK /\ KeyInv /\ HolderInv
  BY DEF SigningInv
<1>2. /\ keys' \in Seq(Key) /\ Len(keys') = Len(keys) /\ KeyInv'
      /\ \A k, late : late \in 0..Retention /\ Kept(k, late) => Kept(k, late + 1)'
  BY <1>1, TickKeys
<1>3. /\ signed \in [KeyId -> 0..TokenLife] /\ signed' \in [KeyId -> 0..TokenLife]
      /\ \A k \in KeyId : signed'[k] > 0 => signed'[k] = signed[k] - 1
  <2>1. signed' = [k \in KeyId |-> IF signed[k] = 0 THEN 0 ELSE signed[k] - 1]
    BY DEF Tick
  <2>2. signed \in [KeyId -> 0..TokenLife]
    BY <1>1 DEF TypeOK
  <2> QED  BY <2>1, <2>2, Times
<1>4. TypeOK'
  BY <1>1, <1>2, <1>3, TickCalls, TickInstances DEF TypeOK, Tick
<1>5. ASSUME NEW c \in Calls PROVE CallOK(c)'
  <2>1. CallOK(c) /\ call[c].age \in 0..MaxCall
    BY <1>1, CallFields DEF HolderInv
  <2>2. CASE call[c].pc = "idle"
    BY <1>1, <2>2, TickCalls DEF CallOK
  <2>3. CASE call[c].pc # "idle"
    <3>1. /\ call'[c].pc = call[c].pc /\ call'[c].at = call[c].at
          /\ call'[c].kind = call[c].kind /\ call'[c].kid = call[c].kid
          /\ call'[c].age = call[c].age + 1 /\ call[c].at \in Instances
      BY <1>1, <2>1, <2>3, TickCalls DEF CallOK
    <3>2. /\ instance'[call[c].at].up = instance[call[c].at].up
          /\ instance'[call[c].at].kid = instance[call[c].at].kid
      BY <1>1, <3>1, TickInstances
    <3>3. PICK a, k, x : a = call[c].age /\ k = call[c].kid /\ x = instance[call[c].at].kid
      OBVIOUS
    <3>4. /\ MaxCall + a \in 0..Retention /\ 2 * MaxCall + a \in 0..Retention
          /\ (MaxCall + a) + 1 = MaxCall + (a + 1)
          /\ (2 * MaxCall + a) + 1 = 2 * MaxCall + (a + 1)
      BY <2>1, <3>3, Times
    <3>5. /\ call[c].pc = "apply" => Kept(k, MaxCall + (a + 1))'
          /\ call[c].pc \in {"list", "store"} => Kept(x, 2 * MaxCall + (a + 1))'
      BY <1>2, <2>1, <3>3, <3>4 DEF CallOK
    <3> QED  BY <2>1, <3>1, <3>2, <3>3, <3>5 DEF CallOK
  <2> QED  BY <2>2, <2>3
<1>6. ASSUME NEW i \in Instances, instance[i].up PROVE InstanceOK(i)'
  <2>1. PICK k, l, b : k = instance[i].kid /\ l = instance[i].lastRefresh /\ b = instance[i].blind
    OBVIOUS
  <2>2. PICK m, e : m = instance'[i].lastRefresh /\ e = instance'[i].blind
    OBVIOUS
  <2>3. l \in 0..Cap /\ b \in 0..MaxBlind /\ m \in 0..Cap /\ e \in 0..MaxBlind
    <3>1. instance'[i] \in Instance
      BY <1>1, TickInstances
    <3> QED  BY <1>1, <2>1, <2>2, <3>1, InstanceFields DEF Instance, Cap
  <2>4. /\ instance'[i].kid = k
        /\ \/ l < Cap /\ m = l + 1
           \/ l = Cap /\ m = Cap /\ e = b + 1
    BY <1>1, <1>6, <2>1, <2>2, TickInstances
  <2>5. Kept(k, 3 * MaxCall + l + b) /\ (l < Cap => Kept(k, 3 * MaxCall + l))
    BY <1>1, <1>6, <2>1 DEF HolderInv, InstanceOK
  <2>6. CASE l < Cap
    <3>1. 3 * MaxCall + l \in 0..Retention /\ (3 * MaxCall + l) + 1 = 3 * MaxCall + m
      BY <2>3, <2>4, <2>6, Times
    <3>2. Kept(k, 3 * MaxCall + m)'
      BY <1>2, <2>5, <2>6, <3>1
    <3>3. Kept(k, 3 * MaxCall + m + e)'
      <4>1. 3 * MaxCall + m \in Int /\ 3 * MaxCall + m + e \in Int /\ 3 * MaxCall + m <= 3 * MaxCall + m + e
        BY <2>3, Times
      <4>2. k \in DOMAIN keys' /\ keys'[k].retired \in Int
        <5>1. k \in DOMAIN keys' /\ keys'[k] \in Key
          BY <1>2, <3>2 DEF Kept
        <5> QED  BY <5>1, Times DEF Key
      <4> QED  BY <3>2, <4>1, <4>2 DEF Kept
    <3> QED  BY <2>2, <2>4, <3>2, <3>3 DEF InstanceOK
  <2>7. CASE l = Cap
    <3>1. /\ 3 * MaxCall + l + b \in 0..Retention
          /\ (3 * MaxCall + l + b) + 1 = 3 * MaxCall + m + e /\ ~(m < Cap)
      BY <2>3, <2>4, <2>7, Times
    <3>2. Kept(k, 3 * MaxCall + m + e)'
      BY <1>2, <2>5, <3>1
    <3> QED  BY <2>2, <2>4, <3>1, <3>2 DEF InstanceOK, Cap
  <2> QED  BY <2>3, <2>6, <2>7, Times
<1>7. ASSUME NEW i \in Instances, ~instance[i].up PROVE InstanceOK(i)'
  BY <1>1, <1>7, TickInstances DEF InstanceOK
<1>8. ASSUME NEW k \in KeyId PROVE SignedOK(k)'
  <2>1. SUFFICES ASSUME signed'[k] > 0 PROVE SignedOK(k)'
    BY DEF SignedOK
  <2>2. PICK s : s = signed[k]
    OBVIOUS
  <2>3. s \in 0..TokenLife /\ signed'[k] = s - 1 /\ s > 0
    BY <1>3, <2>1, <2>2
  <2>4. Kept(k, Retention - s) /\ Retention - s \in 0..Retention
        /\ (Retention - s) + 1 = Retention - (s - 1)
    BY <1>1, <2>2, <2>3, Times DEF HolderInv, SignedOK
  <2>5. Kept(k, Retention - (s - 1))'
    BY <1>2, <2>4
  <2> QED  BY <2>3, <2>5 DEF SignedOK
<1> QED  BY <1>2, <1>4, <1>5, <1>6, <1>7, <1>8 DEF SigningInv, HolderInv

-----------------------------------------------------------------------------
LEMMA SigningStep == SigningInv /\ [Next]_vars => SigningInv'
<1> SUFFICES ASSUME SigningInv, [Next]_vars PROVE SigningInv'
  OBVIOUS
<1>1. ASSUME NEW c \in Calls, Continues(c) PROVE SigningInv'
  BY <1>1, RewrapStep, LoadStep, SaveStep, ApplyStep, ListStep, StoreStep, SignTypedStep,
     RotateStep, RotateIfOlderStep, RefreshFails DEF Continues, DatabaseError
<1>2. CASE UNCHANGED vars
  BY <1>2 DEF vars, SigningInv, TypeOK, KeyInv, HolderInv, CallOK, InstanceOK, SignedOK, Kept,
     ActiveKeys, RotationsAreSpaced
<1> QED  BY <1>1, <1>2, TickStep, CleanupStep, StopStep, StartsStep DEF Next

LEMMA SigningInvariant == Spec => []SigningInv
BY Initial, SigningStep, PTL DEF Spec

\* The table of keys, the caches of the instances and the calls in progress keep
\* their form, the ages stay below the values at which they are cut off.
THEOREM SigningTypes == Spec => []TypeOK
BY SigningInvariant, PTL DEF SigningInv

\* SaveActiveSigningKey and the two rotations leave one active key, and an instance
\* that has started has a key, whatever the instances do at the same time.
THEOREM OneKeyActive == Spec => []OneActiveKey
<1>1. SigningInv => OneActiveKey
  <2> SUFFICES ASSUME SigningInv PROVE OneActiveKey
    OBVIOUS
  <2>1. ActiveKeys = {} \/ \E k : ActiveKeys = {k}
    BY DEF SigningInv, KeyInv
  <2>2. Cardinality(ActiveKeys) <= 1
    <3>1. CASE ActiveKeys = {}
      <4>1. Cardinality(ActiveKeys) = 0
        BY <3>1, FS_EmptySet
      <4> QED  BY <4>1
    <3>2. ASSUME NEW k, ActiveKeys = {k} PROVE Cardinality(ActiveKeys) <= 1
      <4>1. Cardinality(ActiveKeys) = 1
        BY <3>2, FS_Singleton
      <4> QED  BY <4>1
    <3> QED  BY <2>1, <3>1, <3>2
  <2>3. ASSUME NEW i \in Instances, instance[i].up
        PROVE  ActiveKeys # {} /\ instance[i].kid # 0
    <3>1. instance[i].kid \in DOMAIN keys
      BY <2>3 DEF SigningInv, HolderInv, InstanceOK, Kept
    <3> QED  BY <3>1, KeyFields DEF SigningInv, KeyInv
  <2> QED  BY <2>2, <2>3 DEF OneActiveKey
<1> QED  BY <1>1, SigningInvariant, PTL

\* DeleteRetiredSigningKeys takes no key of a token that is still valid, for every
\* retention that is as long as the assumption says.
THEOREM TokensVerify == Spec => []SignedTokensVerify
<1>1. SigningInv => SignedTokensVerify
  BY DEF SigningInv, HolderInv, SignedOK, Kept, SignedTokensVerify, Stored
<1> QED  BY <1>1, SigningInvariant, PTL

\* RotateSigningKeyIfOlderThan looks again under its lock, so that instances which
\* find the key old at the same time rotate it once.
THEOREM Spaced == Spec => []RotationsAreSpaced
BY SigningInvariant, PTL DEF SigningInv, KeyInv

=============================================================================
