------------------------- MODULE StoredVaultProofs -------------------------
(***************************************************************************)
(* Theorems about the bytes of the two accounts: no setter writes beside   *)
(* its field, and the instructions over the bytes implement HybridVault,   *)
(* for every length of keys and words and every value of the constants.    *)
(***************************************************************************)
EXTENDS StoredVault, TLAPS

LEMMA PutType ==
  ASSUME NEW n \in Nat, NEW data \in Array(n), NEW at \in Nat, NEW len \in Nat,
         NEW bytes \in Array(len)
  PROVE  Put(data, at, bytes) \in Array(n)
BY DEF Put, Array

LEMMA GetType ==
  ASSUME NEW n \in Nat, NEW data \in Array(n), NEW at \in Nat, NEW len \in Nat,
         at + len <= n
  PROVE  Get(data, at, len) \in Array(len)
BY DEF Get, Array

\* What was written is read back.
LEMMA GetOfPut ==
  ASSUME NEW n \in Nat, NEW data \in Array(n), NEW at \in Nat, NEW len \in Nat,
         NEW bytes \in Array(len), at + len <= n
  PROVE  Get(Put(data, at, bytes), at, len) = bytes
BY DEF Put, Get, Array

\* What lies before or behind the bytes that are written stays.
LEMMA GetBesidePut ==
  ASSUME NEW n \in Nat, NEW data \in Array(n), NEW at \in Nat, NEW len \in Nat,
         NEW bytes \in Array(len),
         NEW from \in Nat, NEW size \in Nat, from + size <= n,
         at + len <= from \/ from + size <= at
  PROVE  Get(Put(data, at, bytes), from, size) = Get(data, from, size)
BY DEF Put, Get, Array
-----------------------------------------------------------------------------
(* The fields of the HybridAccount.                                        *)

Fields == {"VERSION", "BUMP", "POLICY", "FLAGS", "ACCOUNT_INDEX", "OWNER_ED25519",
           "FALCON_PUBLIC_KEY_HASH", "NONCE", "FALCON_REQUIRED_ABOVE", "RESERVED1",
           "PREPARED_FALCON_PUBLIC_KEY"}
AccountData == Array(ACCOUNT_DATA_LEN)

LEMMA FieldFits ==
  ASSUME NEW f \in Fields
  PROVE  /\ offsets[f] \in Nat /\ sizes[f] \in Nat /\ ACCOUNT_DATA_LEN \in Nat
         /\ offsets[f] + sizes[f] <= ACCOUNT_DATA_LEN
BY SizesAssumption DEF Fields, offsets, sizes, ACCOUNT_DATA_LEN

LEMMA FieldsAreDisjoint ==
  ASSUME NEW f \in Fields, NEW g \in Fields, f # g
  PROVE  \/ offsets[f] + sizes[f] <= offsets[g]
         \/ offsets[g] + sizes[g] <= offsets[f]
BY SizesAssumption DEF Fields, offsets, sizes

LEMMA FieldOfSet ==
  ASSUME NEW data \in AccountData, NEW f \in Fields, NEW bytes \in Array(sizes[f])
  PROVE  /\ set_field(data, f, bytes) \in AccountData
         /\ field(set_field(data, f, bytes), f) = bytes
         /\ \A g \in Fields \ {f} :
              field(set_field(data, f, bytes), g) = field(data, g)
<1>1. set_field(data, f, bytes) \in AccountData
  BY FieldFits, PutType DEF AccountData, set_field
<1>2. field(set_field(data, f, bytes), f) = bytes
  BY FieldFits, GetOfPut DEF AccountData, set_field, field
<1>3. ASSUME NEW g \in Fields \ {f}
      PROVE  field(set_field(data, f, bytes), g) = field(data, g)
  <2>1. \/ offsets[f] + sizes[f] <= offsets[g]
        \/ offsets[g] + sizes[g] <= offsets[f]
    BY FieldsAreDisjoint
  <2> QED
    BY <2>1, FieldFits, GetBesidePut DEF AccountData, set_field, field
<1> QED
  BY <1>1, <1>2, <1>3

LEMMA FieldType ==
  ASSUME NEW data \in AccountData, NEW f \in Fields
  PROVE  field(data, f) \in Array(sizes[f])
BY FieldFits, GetType DEF AccountData, field

LEMMA FieldOfZeros ==
  /\ Zeros(ACCOUNT_DATA_LEN) \in AccountData
  /\ \A f \in Fields : field(Zeros(ACCOUNT_DATA_LEN), f) = Zeros(sizes[f])
<1>1. Zeros(ACCOUNT_DATA_LEN) \in AccountData
  BY DEF AccountData, Array, Zeros, Bytes
<1>2. ASSUME NEW f \in Fields
      PROVE  field(Zeros(ACCOUNT_DATA_LEN), f) = Zeros(sizes[f])
  BY FieldFits DEF field, Get, Zeros
<1> QED
  BY <1>1, <1>2
-----------------------------------------------------------------------------
(* What a field means.                                                     *)

LEMMA WordIsRead ==
  ASSUME NEW n \in U64
  PROVE  FromLE(ToLE(n)) = n
BY WordAssumption DEF FromLE

LEMMA PolicyByte ==
  /\ \A p \in Policies : as_u8[p] \in Bytes
  /\ \A p, q \in Policies : as_u8[p] = as_u8[q] => p = q
<1>1. /\ as_u8["Ed25519Only"] = 0 /\ as_u8["FalconOnly"] = 1
      /\ as_u8["HybridAnd"] = 2 /\ as_u8["HybridOr"] = 3
      /\ as_u8["FalconForPrivileged"] = 4 /\ as_u8["FalconAboveThreshold"] = 5
  BY DEF as_u8, Policies
<1> QED
  BY <1>1 DEF Policies, Bytes

LEMMA FlagBits ==
  ASSUME NEW fl \in 0..3, NEW on \in BOOLEAN
  PROVE  /\ WithFlag(fl, 1, on) \in 0..3 /\ WithFlag(fl, 2, on) \in 0..3
         /\ HasFlag(WithFlag(fl, 1, on), 1) = on /\ HasFlag(WithFlag(fl, 2, on), 2) = on
         /\ HasFlag(WithFlag(fl, 1, on), 2) = HasFlag(fl, 2)
         /\ HasFlag(WithFlag(fl, 2, on), 1) = HasFlag(fl, 1)
<1>1. CASE fl = 0
  BY <1>1 DEF WithFlag, HasFlag
<1>2. CASE fl = 1
  BY <1>2 DEF WithFlag, HasFlag
<1>3. CASE fl = 2
  BY <1>3 DEF WithFlag, HasFlag
<1>4. CASE fl = 3
  BY <1>4 DEF WithFlag, HasFlag
<1> QED
  BY <1>1, <1>2, <1>3, <1>4

\* The accessors' view of an account, the well-formed accounts, and the same
\* of a config.
View(data) ==
  [policy |-> policy_of(data), threshold |-> falcon_required_above(data),
   recoveryEnabled |-> recovery_enabled(data), owner |-> owner_ed25519(data),
   falconKeyHash |-> falcon_public_key_hash(data), preparedKey |-> prepared_key(data),
   nonce |-> nonce_of(data)]

AccountOK(data) ==
  /\ data \in AccountData
  /\ field(data, "VERSION") = <<Version>> /\ field(data, "BUMP") = <<Bump>>
  /\ field(data, "ACCOUNT_INDEX") = AccountIndex
  /\ field(data, "RESERVED1") = Zeros(WordLen)
  /\ \E p \in Policies : field(data, "POLICY") = <<as_u8[p]>>
  /\ \E fl \in 0..3 : field(data, "FLAGS") = <<fl>>
  /\ field(data, "OWNER_ED25519") \in Ed25519Keys
  /\ field(data, "FALCON_PUBLIC_KEY_HASH") \in FalconKeys
  /\ \E n \in U64 : field(data, "NONCE") = ToLE(n)
  /\ \E n \in U64 : field(data, "FALCON_REQUIRED_ABOVE") = ToLE(n)
  /\ \E f \in FalconKeys : field(data, "PREPARED_FALCON_PUBLIC_KEY") = Prepared(f)

\* A field is read from its own bytes, the two that share a byte excepted.
LEMMA Accessors ==
  ASSUME NEW data
  PROVE  /\ \A p \in Policies :
              field(data, "POLICY") = <<as_u8[p]>> => policy_of(data) = p
         /\ \A n \in U64 : field(data, "NONCE") = ToLE(n) => nonce_of(data) = n
         /\ \A f \in FalconKeys :
              field(data, "PREPARED_FALCON_PUBLIC_KEY") = Prepared(f)
                => prepared_key(data) = f
         /\ \A fl : field(data, "FLAGS") = <<fl>> =>
              /\ flags(data) = fl
              /\ recovery_enabled(data) = HasFlag(fl, 1)
              /\ ~HasFlag(fl, 2) => falcon_required_above(data) = NoThreshold
              /\ \A n \in U64 :
                   HasFlag(fl, 2) /\ field(data, "FALCON_REQUIRED_ABOVE") = ToLE(n)
                     => falcon_required_above(data) = SomeThreshold(n)
<1>1. ASSUME NEW p \in Policies, field(data, "POLICY") = <<as_u8[p]>>
      PROVE  policy_of(data) = p
  BY <1>1, PolicyByte DEF policy_of
<1>2. ASSUME NEW n \in U64, field(data, "NONCE") = ToLE(n)
      PROVE  nonce_of(data) = n
  BY <1>2, WordIsRead DEF nonce_of
<1>3. ASSUME NEW f \in FalconKeys, field(data, "PREPARED_FALCON_PUBLIC_KEY") = Prepared(f)
      PROVE  prepared_key(data) = f
  BY <1>3, KeyBytesAssumption DEF prepared_key
<1>4. ASSUME NEW fl, field(data, "FLAGS") = <<fl>>
      PROVE  /\ flags(data) = fl
             /\ recovery_enabled(data) = HasFlag(fl, 1)
             /\ ~HasFlag(fl, 2) => falcon_required_above(data) = NoThreshold
             /\ \A n \in U64 :
                  HasFlag(fl, 2) /\ field(data, "FALCON_REQUIRED_ABOVE") = ToLE(n)
                    => falcon_required_above(data) = SomeThreshold(n)
  <2>1. flags(data) = fl
    BY <1>4 DEF flags
  <2> QED
    BY <2>1, WordIsRead
    DEF recovery_enabled, falcon_required_above, FLAG_RECOVERY_ENABLED,
        FLAG_FALCON_THRESHOLD_SET
<1> QED
  BY <1>1, <1>2, <1>3, <1>4

\* A well-formed account is read field by field.
LEMMA ViewOfAccount ==
  ASSUME NEW data, AccountOK(data)
  PROVE  /\ data # <<>>
         /\ View(data) \in [policy: Policies,
                            threshold: {NoThreshold} \cup {SomeThreshold(n) : n \in U64},
                            recoveryEnabled: BOOLEAN, owner: Ed25519Keys,
                            falconKeyHash: FalconKeys, preparedKey: FalconKeys, nonce: U64]
<1>1. data # <<>>
  <2>1. DOMAIN data = 1..ACCOUNT_DATA_LEN
    BY DEF AccountOK, AccountData, Array
  <2>2. 1 \in 1..ACCOUNT_DATA_LEN
    BY SizesAssumption DEF ACCOUNT_DATA_LEN, offsets
  <2>3. 1 \notin DOMAIN <<>>
    OBVIOUS
  <2> QED
    BY <2>1, <2>2, <2>3
<1>2. policy_of(data) \in Policies
  BY Accessors DEF AccountOK
<1>3. nonce_of(data) \in U64
  BY Accessors DEF AccountOK
<1>4. prepared_key(data) \in FalconKeys
  BY Accessors DEF AccountOK
<1>5. owner_ed25519(data) \in Ed25519Keys /\ falcon_public_key_hash(data) \in FalconKeys
  BY DEF AccountOK, owner_ed25519, falcon_public_key_hash
<1>6. recovery_enabled(data) \in BOOLEAN
  BY DEF recovery_enabled, HasFlag
<1>7. falcon_required_above(data) \in {NoThreshold} \cup {SomeThreshold(n) : n \in U64}
  <2>1. PICK fl \in 0..3 : field(data, "FLAGS") = <<fl>>
    BY DEF AccountOK
  <2>2. PICK n \in U64 : field(data, "FALCON_REQUIRED_ABOVE") = ToLE(n)
    BY DEF AccountOK
  <2> QED
    BY <2>1, <2>2, Accessors
<1> QED
  BY <1>1, <1>2, <1>3, <1>4, <1>5, <1>6, <1>7 DEF View

\* What is read of two well-formed accounts agrees where their bytes agree.
LEMMA SameBytesSameValue ==
  ASSUME NEW data, AccountOK(data), NEW new, AccountOK(new)
  PROVE  /\ field(new, "POLICY") = field(data, "POLICY") => policy_of(new) = policy_of(data)
         /\ field(new, "NONCE") = field(data, "NONCE") => nonce_of(new) = nonce_of(data)
         /\ field(new, "PREPARED_FALCON_PUBLIC_KEY") = field(data, "PREPARED_FALCON_PUBLIC_KEY")
              => prepared_key(new) = prepared_key(data)
         /\ field(new, "OWNER_ED25519") = field(data, "OWNER_ED25519")
              => owner_ed25519(new) = owner_ed25519(data)
         /\ field(new, "FALCON_PUBLIC_KEY_HASH") = field(data, "FALCON_PUBLIC_KEY_HASH")
              => falcon_public_key_hash(new) = falcon_public_key_hash(data)
         /\ field(new, "FLAGS") = field(data, "FLAGS")
              => recovery_enabled(new) = recovery_enabled(data)
         /\ /\ HasFlag(flags(new), 2) = HasFlag(flags(data), 2)
            /\ field(new, "FALCON_REQUIRED_ABOVE") = field(data, "FALCON_REQUIRED_ABOVE")
            => falcon_required_above(new) = falcon_required_above(data)
<1>1. PICK p \in Policies : field(data, "POLICY") = <<as_u8[p]>>
  BY DEF AccountOK
<1>2. PICK n \in U64 : field(data, "NONCE") = ToLE(n)
  BY DEF AccountOK
<1>3. PICK f \in FalconKeys : field(data, "PREPARED_FALCON_PUBLIC_KEY") = Prepared(f)
  BY DEF AccountOK
<1>4. PICK t \in U64 : field(data, "FALCON_REQUIRED_ABOVE") = ToLE(t)
  BY DEF AccountOK
<1>5. PICK fl \in 0..3 : field(data, "FLAGS") = <<fl>>
  BY DEF AccountOK
<1>6. PICK newFl \in 0..3 : field(new, "FLAGS") = <<newFl>>
  BY DEF AccountOK
<1>7. field(new, "POLICY") = field(data, "POLICY") => policy_of(new) = policy_of(data)
  BY <1>1, Accessors
<1>8. field(new, "NONCE") = field(data, "NONCE") => nonce_of(new) = nonce_of(data)
  BY <1>2, Accessors
<1>9. field(new, "PREPARED_FALCON_PUBLIC_KEY") = field(data, "PREPARED_FALCON_PUBLIC_KEY")
        => prepared_key(new) = prepared_key(data)
  BY <1>3, Accessors
<1>10. field(new, "FLAGS") = field(data, "FLAGS")
         => recovery_enabled(new) = recovery_enabled(data)
  BY DEF recovery_enabled, flags
<1>11. /\ HasFlag(flags(new), 2) = HasFlag(flags(data), 2)
       /\ field(new, "FALCON_REQUIRED_ABOVE") = field(data, "FALCON_REQUIRED_ABOVE")
       => falcon_required_above(new) = falcon_required_above(data)
  <2>1. flags(new) = newFl /\ flags(data) = fl
    BY <1>5, <1>6, Accessors
  <2> QED
    BY <2>1, <1>4, <1>5, <1>6, Accessors
<1> QED
  BY <1>7, <1>8, <1>9, <1>10, <1>11 DEF owner_ed25519, falcon_public_key_hash

\* Each setter changes its own entry of the view.
LEMMA SetPolicy ==
  ASSUME NEW data, AccountOK(data), NEW p \in Policies
  PROVE  /\ AccountOK(set_policy(data, p))
         /\ View(set_policy(data, p)) = [View(data) EXCEPT !.policy = p]
<1> DEFINE new == set_policy(data, p)
<1>1. <<as_u8[p]>> \in Array(sizes["POLICY"]) /\ data \in AccountData
  BY PolicyByte DEF sizes, Array, AccountOK
<1>2. /\ new \in AccountData /\ field(new, "POLICY") = <<as_u8[p]>>
      /\ \A g \in Fields \ {"POLICY"} : field(new, g) = field(data, g)
  BY <1>1, FieldOfSet DEF set_policy, Fields
<1> HIDE DEF new
<1>3. AccountOK(new)
  BY <1>2 DEF AccountOK, Fields
<1>4. policy_of(new) = p
  BY <1>2, Accessors
<1>5. View(new) = [View(data) EXCEPT !.policy = p]
  BY <1>2, <1>4, <1>3, SameBytesSameValue DEF View, Fields, flags
<1> QED
  BY <1>3, <1>5 DEF new

LEMMA SetOwner ==
  ASSUME NEW data, AccountOK(data), NEW k \in Ed25519Keys
  PROVE  /\ AccountOK(set_owner_ed25519(data, k))
         /\ View(set_owner_ed25519(data, k)) = [View(data) EXCEPT !.owner = k]
<1> DEFINE new == set_owner_ed25519(data, k)
<1>1. k \in Array(sizes["OWNER_ED25519"]) /\ data \in AccountData
  BY KeyBytesAssumption DEF sizes, AccountOK
<1>2. /\ new \in AccountData /\ field(new, "OWNER_ED25519") = k
      /\ \A g \in Fields \ {"OWNER_ED25519"} : field(new, g) = field(data, g)
  BY <1>1, FieldOfSet DEF set_owner_ed25519, Fields
<1> HIDE DEF new
<1>3. AccountOK(new)
  BY <1>2 DEF AccountOK, Fields
<1>4. View(new) = [View(data) EXCEPT !.owner = k]
  BY <1>2, <1>3, SameBytesSameValue DEF View, Fields, flags, owner_ed25519
<1> QED
  BY <1>3, <1>4 DEF new

LEMMA SetFalconHash ==
  ASSUME NEW data, AccountOK(data), NEW f \in FalconKeys
  PROVE  /\ AccountOK(set_falcon_public_key_hash(data, f))
         /\ View(set_falcon_public_key_hash(data, f))
              = [View(data) EXCEPT !.falconKeyHash = f]
<1> DEFINE new == set_falcon_public_key_hash(data, f)
<1>1. f \in Array(sizes["FALCON_PUBLIC_KEY_HASH"]) /\ data \in AccountData
  BY KeyBytesAssumption DEF sizes, AccountOK
<1>2. /\ new \in AccountData /\ field(new, "FALCON_PUBLIC_KEY_HASH") = f
      /\ \A g \in Fields \ {"FALCON_PUBLIC_KEY_HASH"} : field(new, g) = field(data, g)
  BY <1>1, FieldOfSet DEF set_falcon_public_key_hash, Fields
<1> HIDE DEF new
<1>3. AccountOK(new)
  BY <1>2 DEF AccountOK, Fields
<1>4. View(new) = [View(data) EXCEPT !.falconKeyHash = f]
  BY <1>2, <1>3, SameBytesSameValue DEF View, Fields, flags, falcon_public_key_hash
<1> QED
  BY <1>3, <1>4 DEF new

LEMMA SetPrepared ==
  ASSUME NEW data, AccountOK(data), NEW f \in FalconKeys
  PROVE  /\ AccountOK(set_prepared(data, f))
         /\ View(set_prepared(data, f)) = [View(data) EXCEPT !.preparedKey = f]
<1> DEFINE new == set_prepared(data, f)
<1>1. Prepared(f) \in Array(sizes["PREPARED_FALCON_PUBLIC_KEY"]) /\ data \in AccountData
  BY KeyBytesAssumption DEF sizes, AccountOK
<1>2. /\ new \in AccountData /\ field(new, "PREPARED_FALCON_PUBLIC_KEY") = Prepared(f)
      /\ \A g \in Fields \ {"PREPARED_FALCON_PUBLIC_KEY"} : field(new, g) = field(data, g)
  BY <1>1, FieldOfSet DEF set_prepared, Fields
<1> HIDE DEF new
<1>3. AccountOK(new)
  BY <1>2 DEF AccountOK, Fields
<1>4. prepared_key(new) = f
  BY <1>2, Accessors
<1>5. View(new) = [View(data) EXCEPT !.preparedKey = f]
  BY <1>2, <1>4, <1>3, SameBytesSameValue DEF View, Fields, flags
<1> QED
  BY <1>3, <1>5 DEF new

LEMMA SetNonce ==
  ASSUME NEW data, AccountOK(data), NEW n \in U64
  PROVE  /\ AccountOK(set_nonce(data, n))
         /\ View(set_nonce(data, n)) = [View(data) EXCEPT !.nonce = n]
<1> DEFINE new == set_nonce(data, n)
<1>1. ToLE(n) \in Array(sizes["NONCE"]) /\ data \in AccountData
  BY WordAssumption DEF sizes, AccountOK
<1>2. /\ new \in AccountData /\ field(new, "NONCE") = ToLE(n)
      /\ \A g \in Fields \ {"NONCE"} : field(new, g) = field(data, g)
  BY <1>1, FieldOfSet DEF set_nonce, Fields
<1> HIDE DEF new
<1>3. AccountOK(new)
  BY <1>2 DEF AccountOK, Fields
<1>4. nonce_of(new) = n
  BY <1>2, Accessors
<1>5. View(new) = [View(data) EXCEPT !.nonce = n]
  BY <1>2, <1>4, <1>3, SameBytesSameValue DEF View, Fields, flags
<1> QED
  BY <1>3, <1>5 DEF new

LEMMA SetRecovery ==
  ASSUME NEW data, AccountOK(data), NEW on \in BOOLEAN
  PROVE  /\ AccountOK(set_recovery_enabled(data, on))
         /\ View(set_recovery_enabled(data, on)) = [View(data) EXCEPT !.recoveryEnabled = on]
<1> DEFINE new == set_recovery_enabled(data, on)
<1>1. PICK fl \in 0..3 : field(data, "FLAGS") = <<fl>>
  BY DEF AccountOK
<1>2. flags(data) = fl /\ data \in AccountData
  BY <1>1, Accessors DEF AccountOK
<1> DEFINE byte == WithFlag(fl, 1, on)
<1>3. /\ byte \in 0..3 /\ HasFlag(byte, 1) = on /\ HasFlag(byte, 2) = HasFlag(fl, 2)
  BY FlagBits
<1>4. new = set_field(data, "FLAGS", <<byte>>)
  BY <1>2 DEF set_recovery_enabled, set_flag, FLAG_RECOVERY_ENABLED
<1> HIDE DEF byte
<1>5. <<byte>> \in Array(sizes["FLAGS"])
  BY <1>3 DEF sizes, Array, Bytes
<1>6. /\ new \in AccountData /\ field(new, "FLAGS") = <<byte>>
      /\ \A g \in Fields \ {"FLAGS"} : field(new, g) = field(data, g)
  BY <1>2, <1>4, <1>5, FieldOfSet DEF Fields
<1> HIDE DEF new
<1>7. AccountOK(new)
  BY <1>3, <1>6 DEF AccountOK, Fields
<1>8. recovery_enabled(new) = on /\ flags(new) = byte
  BY <1>3, <1>6, Accessors
<1>9. View(new) = [View(data) EXCEPT !.recoveryEnabled = on]
  BY <1>2, <1>3, <1>6, <1>7, <1>8, SameBytesSameValue DEF View, Fields
<1> QED
  BY <1>7, <1>9 DEF new

LEMMA SetThreshold ==
  ASSUME NEW data, AccountOK(data),
         NEW t \in {NoThreshold} \cup {SomeThreshold(n) : n \in U64}
  PROVE  /\ AccountOK(set_falcon_required_above(data, t))
         /\ View(set_falcon_required_above(data, t)) = [View(data) EXCEPT !.threshold = t]
<1> DEFINE written == set_field(data, "FALCON_REQUIRED_ABOVE", ToLE(t.value))
           new == set_falcon_required_above(data, t)
<1>1. PICK fl \in 0..3 : field(data, "FLAGS") = <<fl>>
  BY DEF AccountOK
<1>2. /\ t.value \in U64 /\ t.set \in BOOLEAN
      /\ t = IF t.set THEN SomeThreshold(t.value) ELSE NoThreshold
  <2>1. CASE t = NoThreshold
    BY <2>1, SizesAssumption DEF NoThreshold, U64
  <2>2. CASE \E n \in U64 : t = SomeThreshold(n)
    BY <2>2 DEF SomeThreshold
  <2> QED
    BY <2>1, <2>2
<1>3. ToLE(t.value) \in Array(sizes["FALCON_REQUIRED_ABOVE"]) /\ data \in AccountData
  BY <1>2, WordAssumption DEF sizes, AccountOK
<1>4. /\ written \in AccountData /\ field(written, "FALCON_REQUIRED_ABOVE") = ToLE(t.value)
      /\ \A g \in Fields \ {"FALCON_REQUIRED_ABOVE"} : field(written, g) = field(data, g)
  BY <1>3, FieldOfSet DEF Fields
<1>5. new = set_flag(written, 2, t.set)
  BY DEF set_falcon_required_above, FLAG_FALCON_THRESHOLD_SET
<1> HIDE DEF written
<1> DEFINE byte == WithFlag(fl, 2, t.set)
<1>6. byte \in 0..3 /\ HasFlag(byte, 2) = t.set /\ HasFlag(byte, 1) = HasFlag(fl, 1)
  BY <1>2, FlagBits
<1>7. flags(data) = fl /\ flags(written) = fl
  BY <1>1, <1>4, Accessors DEF Fields
<1>8. new = set_field(written, "FLAGS", <<byte>>)
  BY <1>5, <1>7 DEF set_flag
<1> HIDE DEF byte
<1>9. <<byte>> \in Array(sizes["FLAGS"])
  BY <1>6 DEF sizes, Array, Bytes
<1>10. /\ new \in AccountData /\ field(new, "FLAGS") = <<byte>>
       /\ \A g \in Fields \ {"FLAGS"} : field(new, g) = field(written, g)
  BY <1>4, <1>8, <1>9, FieldOfSet DEF Fields
<1> HIDE DEF new
<1>11. /\ field(new, "FALCON_REQUIRED_ABOVE") = ToLE(t.value)
       /\ \A g \in Fields \ {"FLAGS", "FALCON_REQUIRED_ABOVE"} :
            field(new, g) = field(data, g)
  BY <1>4, <1>10 DEF Fields
<1>12. AccountOK(new)
  BY <1>2, <1>6, <1>10, <1>11 DEF AccountOK, Fields
<1>13. falcon_required_above(new) = t
  BY <1>2, <1>6, <1>10, <1>11, Accessors
<1>14. recovery_enabled(new) = recovery_enabled(data)
  BY <1>1, <1>6, <1>10, Accessors
<1>15. View(new) = [View(data) EXCEPT !.threshold = t]
  BY <1>11, <1>12, <1>13, <1>14, SameBytesSameValue DEF View, Fields
<1> QED
  BY <1>12, <1>15 DEF new

\* The account as Initialize leaves it.
LEMMA Initialized ==
  ASSUME NEW k \in Ed25519Keys, NEW f \in FalconKeys, NEW p \in Policies
  PROVE  LET new == set_prepared(initialize_without_falcon_key(k, f, p), f)
         IN  /\ AccountOK(new)
             /\ View(new) = [policy |-> p, threshold |-> NoThreshold,
                             recoveryEnabled |-> FALSE, owner |-> k,
                             falconKeyHash |-> f, preparedKey |-> f, nonce |-> 0]
<1> DEFINE d0 == Zeros(ACCOUNT_DATA_LEN)
           d1 == set_field(d0, "VERSION", <<Version>>)
           d2 == set_field(d1, "BUMP", <<Bump>>)
           d3 == set_field(d2, "ACCOUNT_INDEX", AccountIndex)
           d4 == set_policy(d3, p)
           d5 == set_owner_ed25519(d4, k)
           d6 == set_falcon_public_key_hash(d5, f)
           d7 == set_nonce(d6, 0)
           new == set_prepared(d7, f)
<1>1. set_prepared(initialize_without_falcon_key(k, f, p), f) = new
  BY DEF initialize_without_falcon_key, account_header
<1>2. /\ d0 \in AccountData /\ field(d0, "FLAGS") = <<0>>
      /\ field(d0, "RESERVED1") = Zeros(WordLen)
      /\ field(d0, "FALCON_REQUIRED_ABOVE") = ToLE(0)
  <2>1. Zeros(sizes["FLAGS"]) = <<0>>
    BY DEF Zeros, sizes
  <2> QED
    BY <2>1, FieldOfZeros, WordAssumption DEF Fields, sizes
<1>3. /\ d1 \in AccountData /\ field(d1, "VERSION") = <<Version>>
      /\ \A g \in Fields \ {"VERSION"} : field(d1, g) = field(d0, g)
  <2>1. <<Version>> \in Array(sizes["VERSION"])
    BY DEF Version, Array, sizes, Bytes
  <2> HIDE DEF d0
  <2> QED
    BY <2>1, <1>2, FieldOfSet DEF Fields
<1>4. /\ d2 \in AccountData /\ field(d2, "BUMP") = <<Bump>>
      /\ \A g \in Fields \ {"BUMP"} : field(d2, g) = field(d1, g)
  <2>1. <<Bump>> \in Array(sizes["BUMP"])
    BY HeaderAssumption DEF Array, sizes
  <2> HIDE DEF d1
  <2> QED
    BY <2>1, <1>3, FieldOfSet DEF Fields
<1>5. /\ d3 \in AccountData /\ field(d3, "ACCOUNT_INDEX") = AccountIndex
      /\ \A g \in Fields \ {"ACCOUNT_INDEX"} : field(d3, g) = field(d2, g)
  <2>1. AccountIndex \in Array(sizes["ACCOUNT_INDEX"])
    BY HeaderAssumption DEF sizes
  <2> HIDE DEF d2
  <2> QED
    BY <2>1, <1>4, FieldOfSet DEF Fields
<1>6. /\ d4 \in AccountData /\ field(d4, "POLICY") = <<as_u8[p]>>
      /\ \A g \in Fields \ {"POLICY"} : field(d4, g) = field(d3, g)
  <2>1. <<as_u8[p]>> \in Array(sizes["POLICY"])
    BY PolicyByte DEF sizes, Array
  <2> HIDE DEF d3
  <2> QED
    BY <2>1, <1>5, FieldOfSet DEF Fields, set_policy
<1>7. /\ d5 \in AccountData /\ field(d5, "OWNER_ED25519") = k
      /\ \A g \in Fields \ {"OWNER_ED25519"} : field(d5, g) = field(d4, g)
  <2>1. k \in Array(sizes["OWNER_ED25519"])
    BY KeyBytesAssumption DEF sizes
  <2> HIDE DEF d4
  <2> QED
    BY <2>1, <1>6, FieldOfSet DEF Fields, set_owner_ed25519
<1>8. /\ d6 \in AccountData /\ field(d6, "FALCON_PUBLIC_KEY_HASH") = f
      /\ \A g \in Fields \ {"FALCON_PUBLIC_KEY_HASH"} : field(d6, g) = field(d5, g)
  <2>1. f \in Array(sizes["FALCON_PUBLIC_KEY_HASH"])
    BY KeyBytesAssumption DEF sizes
  <2> HIDE DEF d5
  <2> QED
    BY <2>1, <1>7, FieldOfSet DEF Fields, set_falcon_public_key_hash
<1>9. 0 \in U64
  BY SizesAssumption DEF U64
<1>10. /\ d7 \in AccountData /\ field(d7, "NONCE") = ToLE(0)
       /\ \A g \in Fields \ {"NONCE"} : field(d7, g) = field(d6, g)
  <2>1. ToLE(0) \in Array(sizes["NONCE"])
    BY <1>9, WordAssumption DEF sizes
  <2> HIDE DEF d6
  <2> QED
    BY <2>1, <1>8, FieldOfSet DEF Fields, set_nonce
<1>11. /\ new \in AccountData /\ field(new, "PREPARED_FALCON_PUBLIC_KEY") = Prepared(f)
       /\ \A g \in Fields \ {"PREPARED_FALCON_PUBLIC_KEY"} : field(new, g) = field(d7, g)
  <2>1. Prepared(f) \in Array(sizes["PREPARED_FALCON_PUBLIC_KEY"])
    BY KeyBytesAssumption DEF sizes
  <2> HIDE DEF d7
  <2> QED
    BY <2>1, <1>10, FieldOfSet DEF Fields, set_prepared
<1> HIDE DEF d0, d1, d2, d3, d4, d5, d6, d7, new
<1>12. /\ new \in AccountData
       /\ field(new, "VERSION") = <<Version>> /\ field(new, "BUMP") = <<Bump>>
       /\ field(new, "ACCOUNT_INDEX") = AccountIndex
       /\ field(new, "RESERVED1") = Zeros(WordLen)
       /\ field(new, "POLICY") = <<as_u8[p]>> /\ field(new, "FLAGS") = <<0>>
       /\ field(new, "OWNER_ED25519") = k
       /\ field(new, "FALCON_PUBLIC_KEY_HASH") = f
       /\ field(new, "NONCE") = ToLE(0)
       /\ field(new, "FALCON_REQUIRED_ABOVE") = ToLE(0)
       /\ field(new, "PREPARED_FALCON_PUBLIC_KEY") = Prepared(f)
  BY <1>2, <1>3, <1>4, <1>5, <1>6, <1>7, <1>8, <1>10, <1>11 DEF Fields
<1>13. AccountOK(new)
  BY <1>9, <1>12 DEF AccountOK
<1>14. ~HasFlag(0, 1) /\ ~HasFlag(0, 2)
  BY DEF HasFlag
<1>15. /\ policy_of(new) = p /\ nonce_of(new) = 0 /\ prepared_key(new) = f
       /\ recovery_enabled(new) = HasFlag(0, 1)
       /\ falcon_required_above(new) = NoThreshold
  BY <1>9, <1>12, <1>14, Accessors
<1>16. recovery_enabled(new) = FALSE
  BY <1>14, <1>15
<1>17. View(new) = [policy |-> p, threshold |-> NoThreshold,
                    recoveryEnabled |-> FALSE, owner |-> k,
                    falconKeyHash |-> f, preparedKey |-> f, nonce |-> 0]
  BY <1>12, <1>15, <1>16 DEF View, owner_ed25519, falcon_public_key_hash
<1> QED
  BY <1>1, <1>13, <1>17
-----------------------------------------------------------------------------
(* The fields of the RecoveryConfig.                                       *)

ConfigFields == {"VERSION", "BUMP", "FLAGS", "RESERVED0", "GUARDIAN_ED25519",
                 "DELAY_SLOTS", "PENDING_NEW_ED25519", "PENDING_READY_SLOT", "RESERVED1"}
ConfigData == Array(RECOVERY_CONFIG_LEN)

LEMMA ConfigFieldFits ==
  ASSUME NEW f \in ConfigFields
  PROVE  /\ recovery_offsets[f] \in Nat /\ recovery_sizes[f] \in Nat
         /\ RECOVERY_CONFIG_LEN \in Nat
         /\ recovery_offsets[f] + recovery_sizes[f] <= RECOVERY_CONFIG_LEN
BY SizesAssumption DEF ConfigFields, recovery_offsets, recovery_sizes, RECOVERY_CONFIG_LEN

LEMMA ConfigFieldsAreDisjoint ==
  ASSUME NEW f \in ConfigFields, NEW g \in ConfigFields, f # g
  PROVE  \/ recovery_offsets[f] + recovery_sizes[f] <= recovery_offsets[g]
         \/ recovery_offsets[g] + recovery_sizes[g] <= recovery_offsets[f]
BY SizesAssumption DEF ConfigFields, recovery_offsets, recovery_sizes

LEMMA ConfigFieldOfSet ==
  ASSUME NEW data \in ConfigData, NEW f \in ConfigFields,
         NEW bytes \in Array(recovery_sizes[f])
  PROVE  /\ set_config_field(data, f, bytes) \in ConfigData
         /\ config_field(set_config_field(data, f, bytes), f) = bytes
         /\ \A g \in ConfigFields \ {f} :
              config_field(set_config_field(data, f, bytes), g) = config_field(data, g)
<1>1. set_config_field(data, f, bytes) \in ConfigData
  BY ConfigFieldFits, PutType DEF ConfigData, set_config_field
<1>2. config_field(set_config_field(data, f, bytes), f) = bytes
  BY ConfigFieldFits, GetOfPut DEF ConfigData, set_config_field, config_field
<1>3. ASSUME NEW g \in ConfigFields \ {f}
      PROVE  config_field(set_config_field(data, f, bytes), g) = config_field(data, g)
  <2>1. \/ recovery_offsets[f] + recovery_sizes[f] <= recovery_offsets[g]
        \/ recovery_offsets[g] + recovery_sizes[g] <= recovery_offsets[f]
    BY ConfigFieldsAreDisjoint
  <2> QED
    BY <2>1, ConfigFieldFits, GetBesidePut DEF ConfigData, set_config_field, config_field
<1> QED
  BY <1>1, <1>2, <1>3

LEMMA ConfigFieldOfZeros ==
  /\ Zeros(RECOVERY_CONFIG_LEN) \in ConfigData
  /\ \A f \in ConfigFields :
       config_field(Zeros(RECOVERY_CONFIG_LEN), f) = Zeros(recovery_sizes[f])
<1>1. Zeros(RECOVERY_CONFIG_LEN) \in ConfigData
  BY DEF ConfigData, Array, Zeros, Bytes
<1>2. ASSUME NEW f \in ConfigFields
      PROVE  config_field(Zeros(RECOVERY_CONFIG_LEN), f) = Zeros(recovery_sizes[f])
  BY ConfigFieldFits DEF config_field, Get, Zeros
<1> QED
  BY <1>1, <1>2

ConfigView(data) ==
  [guardian |-> guardian_ed25519(data), delaySlots |-> delay_slots(data),
   pendingNew |-> pending_new_ed25519(data), pendingReadySlot |-> pending_ready_slot(data)]

ConfigOK(data) ==
  /\ data \in ConfigData
  /\ config_field(data, "VERSION") = <<Version>>
  /\ config_field(data, "BUMP") = <<ConfigBump>>
  /\ config_field(data, "FLAGS") = <<0>> /\ config_field(data, "RESERVED0") = <<0>>
  /\ config_field(data, "RESERVED1") = Zeros(ConfigReservedLen)
  /\ config_field(data, "GUARDIAN_ED25519") \in Ed25519Keys
  /\ config_field(data, "PENDING_NEW_ED25519") \in Ed25519Keys
  /\ \E n \in U64 : config_field(data, "DELAY_SLOTS") = ToLE(n)
  /\ \E n \in U64 : config_field(data, "PENDING_READY_SLOT") = ToLE(n)

LEMMA ViewOfConfig ==
  ASSUME NEW data, ConfigOK(data)
  PROVE  /\ data # <<>>
         /\ ConfigView(data) \in [guardian: Ed25519Keys, delaySlots: U64,
                                  pendingNew: Ed25519Keys, pendingReadySlot: U64]
<1>1. data # <<>>
  <2>1. DOMAIN data = 1..RECOVERY_CONFIG_LEN
    BY DEF ConfigOK, ConfigData, Array
  <2>2. 1 \in 1..RECOVERY_CONFIG_LEN
    BY SizesAssumption DEF RECOVERY_CONFIG_LEN, recovery_offsets
  <2>3. 1 \notin DOMAIN <<>>
    OBVIOUS
  <2> QED
    BY <2>1, <2>2, <2>3
<1>2. delay_slots(data) \in U64 /\ pending_ready_slot(data) \in U64
  BY WordIsRead DEF ConfigOK, delay_slots, pending_ready_slot
<1> QED
  BY <1>1, <1>2 DEF ConfigOK, ConfigView, guardian_ed25519, pending_new_ed25519

LEMMA SetGuardianAndDelay ==
  ASSUME NEW data, NEW k \in Ed25519Keys, NEW n \in U64, ConfigOK(data)
  PROVE  /\ ConfigOK(set_delay_slots(set_guardian_ed25519(data, k), n))
         /\ ConfigView(set_delay_slots(set_guardian_ed25519(data, k), n))
              = [guardian |-> k, delaySlots |-> n,
                 pendingNew |-> pending_new_ed25519(data),
                 pendingReadySlot |-> pending_ready_slot(data)]
<1> DEFINE d1 == set_guardian_ed25519(data, k)
           new == set_delay_slots(d1, n)
<1>1. /\ k \in Array(recovery_sizes["GUARDIAN_ED25519"])
      /\ ToLE(n) \in Array(recovery_sizes["DELAY_SLOTS"]) /\ data \in ConfigData
  BY KeyBytesAssumption, WordAssumption DEF recovery_sizes, ConfigOK
<1>2. /\ d1 \in ConfigData /\ config_field(d1, "GUARDIAN_ED25519") = k
      /\ \A g \in ConfigFields \ {"GUARDIAN_ED25519"} :
           config_field(d1, g) = config_field(data, g)
  BY <1>1, ConfigFieldOfSet DEF ConfigFields, set_guardian_ed25519
<1> HIDE DEF d1
<1>3. /\ new \in ConfigData /\ config_field(new, "DELAY_SLOTS") = ToLE(n)
      /\ \A g \in ConfigFields \ {"DELAY_SLOTS"} :
           config_field(new, g) = config_field(d1, g)
  BY <1>1, <1>2, ConfigFieldOfSet DEF ConfigFields, set_delay_slots
<1> HIDE DEF new
<1>4. ConfigOK(new)
  BY <1>2, <1>3 DEF ConfigOK, ConfigFields
<1>5. delay_slots(new) = n
  BY <1>3, WordIsRead DEF delay_slots
<1>6. /\ guardian_ed25519(new) = k
      /\ pending_new_ed25519(new) = pending_new_ed25519(data)
      /\ pending_ready_slot(new) = pending_ready_slot(data)
  BY <1>2, <1>3
  DEF ConfigFields, guardian_ed25519, pending_new_ed25519, pending_ready_slot
<1> QED
  BY <1>4, <1>5, <1>6 DEF ConfigView, new, d1

LEMMA SetPending ==
  ASSUME NEW data, NEW k \in Ed25519Keys, NEW n \in U64, ConfigOK(data)
  PROVE  /\ ConfigOK(set_pending(data, k, n))
         /\ ConfigView(set_pending(data, k, n))
              = [guardian |-> guardian_ed25519(data), delaySlots |-> delay_slots(data),
                 pendingNew |-> k, pendingReadySlot |-> n]
<1> DEFINE d1 == set_config_field(data, "PENDING_NEW_ED25519", k)
           new == set_pending(data, k, n)
<1>1. /\ k \in Array(recovery_sizes["PENDING_NEW_ED25519"])
      /\ ToLE(n) \in Array(recovery_sizes["PENDING_READY_SLOT"]) /\ data \in ConfigData
  BY KeyBytesAssumption, WordAssumption DEF recovery_sizes, ConfigOK
<1>2. /\ d1 \in ConfigData /\ config_field(d1, "PENDING_NEW_ED25519") = k
      /\ \A g \in ConfigFields \ {"PENDING_NEW_ED25519"} :
           config_field(d1, g) = config_field(data, g)
  BY <1>1, ConfigFieldOfSet DEF ConfigFields
<1>3. new = set_config_field(d1, "PENDING_READY_SLOT", ToLE(n))
  BY DEF set_pending
<1> HIDE DEF d1
<1>4. /\ new \in ConfigData /\ config_field(new, "PENDING_READY_SLOT") = ToLE(n)
      /\ \A g \in ConfigFields \ {"PENDING_READY_SLOT"} :
           config_field(new, g) = config_field(d1, g)
  BY <1>1, <1>2, <1>3, ConfigFieldOfSet DEF ConfigFields
<1> HIDE DEF new
<1>5. ConfigOK(new)
  BY <1>2, <1>4 DEF ConfigOK, ConfigFields
<1>6. pending_ready_slot(new) = n
  BY <1>4, WordIsRead DEF pending_ready_slot
<1>7. /\ pending_new_ed25519(new) = k
      /\ guardian_ed25519(new) = guardian_ed25519(data)
      /\ delay_slots(new) = delay_slots(data)
  BY <1>2, <1>4 DEF ConfigFields, guardian_ed25519, pending_new_ed25519, delay_slots
<1> QED
  BY <1>5, <1>6, <1>7 DEF ConfigView, new

\* A config that holds no proposal yet.
LEMMA ConfigInitialized ==
  ASSUME NEW k \in Ed25519Keys, NEW n \in U64
  PROVE  /\ ConfigOK(initialize_config(k, n))
         /\ ConfigView(initialize_config(k, n))
              = [guardian |-> k, delaySlots |-> n,
                 pendingNew |-> ZeroKey, pendingReadySlot |-> 0]
<1> DEFINE d0 == Zeros(RECOVERY_CONFIG_LEN)
           d1 == set_config_field(d0, "VERSION", <<Version>>)
           d2 == config_header
           new == initialize_config(k, n)
<1>1. /\ d0 \in ConfigData
      /\ config_field(d0, "FLAGS") = <<0>> /\ config_field(d0, "RESERVED0") = <<0>>
      /\ config_field(d0, "GUARDIAN_ED25519") = ZeroKey
      /\ config_field(d0, "PENDING_NEW_ED25519") = ZeroKey
      /\ config_field(d0, "DELAY_SLOTS") = ToLE(0)
      /\ config_field(d0, "PENDING_READY_SLOT") = ToLE(0)
      /\ config_field(d0, "RESERVED1") = Zeros(ConfigReservedLen)
  <2>1. Zeros(recovery_sizes["FLAGS"]) = <<0>> /\ Zeros(recovery_sizes["RESERVED0"]) = <<0>>
    BY DEF Zeros, recovery_sizes
  <2> QED
    BY <2>1, ConfigFieldOfZeros, WordAssumption, KeyBytesAssumption
    DEF ConfigFields, recovery_sizes
<1>2. /\ d1 \in ConfigData /\ config_field(d1, "VERSION") = <<Version>>
      /\ \A g \in ConfigFields \ {"VERSION"} : config_field(d1, g) = config_field(d0, g)
  <2>1. <<Version>> \in Array(recovery_sizes["VERSION"])
    BY DEF Version, Array, recovery_sizes, Bytes
  <2> HIDE DEF d0
  <2> QED
    BY <2>1, <1>1, ConfigFieldOfSet DEF ConfigFields
<1>3. /\ d2 \in ConfigData /\ config_field(d2, "BUMP") = <<ConfigBump>>
      /\ \A g \in ConfigFields \ {"BUMP"} : config_field(d2, g) = config_field(d1, g)
  <2>1. <<ConfigBump>> \in Array(recovery_sizes["BUMP"])
    BY HeaderAssumption DEF Array, recovery_sizes
  <2>2. d2 = set_config_field(d1, "BUMP", <<ConfigBump>>)
    BY DEF config_header
  <2> HIDE DEF d1, d2
  <2> QED
    BY <2>1, <2>2, <1>2, ConfigFieldOfSet DEF ConfigFields
<1> HIDE DEF d0, d1
<1>4. 0 \in U64
  BY SizesAssumption DEF U64
<1>5. ConfigOK(d2)
  BY <1>1, <1>2, <1>3, <1>4, KeyBytesAssumption DEF ConfigOK, ConfigFields
<1>6. pending_new_ed25519(d2) = ZeroKey /\ pending_ready_slot(d2) = 0
  BY <1>1, <1>2, <1>3, <1>4, WordIsRead
  DEF ConfigFields, pending_new_ed25519, pending_ready_slot
<1>7. new = set_delay_slots(set_guardian_ed25519(d2, k), n)
  BY DEF initialize_config
<1> HIDE DEF d2, new
<1> QED
  BY <1>5, <1>6, <1>7, SetGuardianAndDelay DEF new
-----------------------------------------------------------------------------
(* What HybridVault's variables are, on well-formed data.                  *)

StoredInv ==
  /\ account # <<>> => AccountOK(account)
  /\ config # <<>> => ConfigOK(config)
  /\ slot \in Nat

LEMMA VaultReads ==
  ASSUME NEW data, AccountOK(data)
  PROVE  /\ Created(data) = TRUE
         /\ Policy(data) = View(data).policy /\ Threshold(data) = View(data).threshold
         /\ RecoveryEnabled(data) = View(data).recoveryEnabled
         /\ Owner(data) = View(data).owner
         /\ FalconKeyHash(data) = View(data).falconKeyHash
         /\ PreparedKey(data) = View(data).preparedKey /\ Nonce(data) = View(data).nonce
<1>1. data # <<>> /\ recovery_enabled(data) \in BOOLEAN
  BY ViewOfAccount DEF recovery_enabled, HasFlag
<1> QED
  BY <1>1 DEF View, Created, Policy, Threshold, RecoveryEnabled, Owner, FalconKeyHash,
     PreparedKey, Nonce

\* Accounts that agree in a field of the view agree in what is read there.
LEMMA SameReads ==
  ASSUME NEW d, NEW e, AccountOK(d), AccountOK(e)
  PROVE  /\ Created(d) = Created(e)
         /\ View(d).policy = View(e).policy => Policy(d) = Policy(e)
         /\ View(d).threshold = View(e).threshold => Threshold(d) = Threshold(e)
         /\ View(d).recoveryEnabled = View(e).recoveryEnabled =>
              RecoveryEnabled(d) = RecoveryEnabled(e)
         /\ View(d).owner = View(e).owner => Owner(d) = Owner(e)
         /\ View(d).falconKeyHash = View(e).falconKeyHash =>
              FalconKeyHash(d) = FalconKeyHash(e)
         /\ View(d).preparedKey = View(e).preparedKey => PreparedKey(d) = PreparedKey(e)
<1>1. /\ Created(d) = TRUE
      /\ Policy(d) = View(d).policy /\ Threshold(d) = View(d).threshold
      /\ RecoveryEnabled(d) = View(d).recoveryEnabled
      /\ Owner(d) = View(d).owner
      /\ FalconKeyHash(d) = View(d).falconKeyHash
      /\ PreparedKey(d) = View(d).preparedKey
  BY VaultReads, Zenon
<1>2. /\ Created(e) = TRUE
      /\ Policy(e) = View(e).policy /\ Threshold(e) = View(e).threshold
      /\ RecoveryEnabled(e) = View(e).recoveryEnabled
      /\ Owner(e) = View(e).owner
      /\ FalconKeyHash(e) = View(e).falconKeyHash
      /\ PreparedKey(e) = View(e).preparedKey
  BY VaultReads, Zenon
<1> QED
  BY <1>1, <1>2, Zenon

LEMMA ConfigReads ==
  ASSUME NEW data, ConfigOK(data)
  PROVE  /\ Created(data) = TRUE
         /\ Guardian(data) = ConfigView(data).guardian
         /\ DelaySlots(data) = ConfigView(data).delaySlots
         /\ PendingNew(data) = ConfigView(data).pendingNew
         /\ PendingReadySlot(data) = ConfigView(data).pendingReadySlot
<1>1. data # <<>>
  BY ViewOfConfig
<1> QED
  BY <1>1 DEF ConfigView, Created, Guardian, DelaySlots, PendingNew, PendingReadySlot

\* The fields of a signed intent, by the kind of its action.
LEMMA StoredIntentFields ==
  ASSUME NEW intent \in HV!Intents
  PROVE  /\ intent.action.kind = "RotateEd25519Key" => intent.action.new \in Ed25519Keys
         /\ intent.action.kind = "RotateFalconKey" => intent.action.new \in FalconKeys
         /\ intent.action.kind = "ChangePolicy" =>
              intent.action.policy \in Policies /\ intent.action.threshold \in Amounts
         /\ intent.action.kind = "RecoverAccount" => intent.action.new \in Ed25519Keys
         /\ intent.action.kind = "SetRecoveryConfig" =>
              intent.action.guardian \in Ed25519Keys /\ intent.action.delay \in Delays
BY DEF HV!Intents, HV!Actions, HV!SolTransfers, HV!SplTransfers, HV!Ed25519Rotations,
       HV!FalconRotations, HV!PolicyChanges, HV!Recoveries, HV!ConfigSettings,
       HV!Cancellations, HV!Policies, Policies

\* An instruction that passed authorize() runs over a well-formed account,
\* and its nonce has a successor.
LEMMA AuthorizedFacts ==
  ASSUME StoredInv, NEW intent, NEW sigs, NEW kind, Authorized(intent, sigs, kind)
  PROVE  /\ intent.action.kind = kind /\ HV!Authorize(intent, sigs)
         /\ AccountOK(account) /\ AccountOK(WithNextNonce)
         /\ View(WithNextNonce) = [View(account) EXCEPT !.nonce = Nonce(account) + 1]
<1>1. account # <<>> /\ Nonce(account) < MaxU64
  BY DEF Authorized, HV!Authorize, HV!NonceHasSuccessor, Created
<1>2. AccountOK(account)
  BY <1>1 DEF StoredInv
<1>3. Nonce(account) = nonce_of(account) /\ nonce_of(account) \in U64
  BY <1>1, <1>2, ViewOfAccount DEF Nonce, View
<1>4. nonce_of(account) + 1 \in U64
  BY <1>1, <1>3, SizesAssumption DEF U64
<1> QED
  BY <1>2, <1>3, <1>4, SetNonce DEF Authorized, WithNextNonce
-----------------------------------------------------------------------------
(* Each instruction over the bytes is HybridVault's.                       *)

\* What a step does to HybridVault's variables, by what it does to the view.
LEMMA OnlyNonceMoves ==
  ASSUME StoredInv, NEW intent, NEW sigs, NEW kind, Authorized(intent, sigs, kind),
         account' = WithNextNonce
  PROVE  /\ AccountOK(account') /\ Nonce(account)' = Nonce(account) + 1
         /\ Created(account)' = Created(account)
         /\ Policy(account)' = Policy(account) /\ Threshold(account)' = Threshold(account)
         /\ RecoveryEnabled(account)' = RecoveryEnabled(account)
         /\ Owner(account)' = Owner(account)
         /\ FalconKeyHash(account)' = FalconKeyHash(account)
         /\ PreparedKey(account)' = PreparedKey(account)
<1>1. /\ AccountOK(account) /\ AccountOK(account')
      /\ View(account') = [View(account) EXCEPT !.nonce = Nonce(account) + 1]
  BY AuthorizedFacts
<1>2. View(account) = [policy |-> View(account).policy, threshold |-> View(account).threshold,
                       recoveryEnabled |-> View(account).recoveryEnabled,
                       owner |-> View(account).owner,
                       falconKeyHash |-> View(account).falconKeyHash,
                       preparedKey |-> View(account).preparedKey,
                       nonce |-> View(account).nonce]
  BY DEF View
<1>3. /\ View(account').policy = View(account).policy
      /\ View(account').threshold = View(account).threshold
      /\ View(account').recoveryEnabled = View(account).recoveryEnabled
      /\ View(account').owner = View(account).owner
      /\ View(account').falconKeyHash = View(account).falconKeyHash
      /\ View(account').preparedKey = View(account).preparedKey
      /\ View(account').nonce = Nonce(account) + 1
  BY <1>1, <1>2
<1>4. Nonce(account') = Nonce(account) + 1
  BY <1>1, <1>3, VaultReads, Zenon
<1> QED
  BY <1>1, <1>3, <1>4, SameReads, Zenon

LEMMA TransferSolIsHV ==
  ASSUME StoredInv, NEW intent, NEW sigs, NEW recipient,
         TransferSol(intent, sigs, recipient)
  PROVE  StoredInv' /\ HV!TransferSol(intent, sigs, recipient)
<1>1. Authorized(intent, sigs, "TransferSol") /\ account' = WithNextNonce
  BY DEF TransferSol
<1>2. intent.action.kind = "TransferSol" /\ HV!Authorize(intent, sigs)
  BY <1>1, AuthorizedFacts
<1>3. StoredInv'
  BY <1>1, OnlyNonceMoves DEF TransferSol, StoredInv
<1> QED
  BY <1>1, <1>2, <1>3, OnlyNonceMoves
  DEF TransferSol, HV!TransferSol, HV!ConsumeNonce, HV!policyVars, HV!falconVars,
      HV!configVars

LEMMA TransferSplIsHV ==
  ASSUME StoredInv, NEW intent, NEW sigs, TransferSpl(intent, sigs)
  PROVE  StoredInv' /\ HV!TransferSpl(intent, sigs)
<1>1. Authorized(intent, sigs, "TransferSpl") /\ account' = WithNextNonce
  BY DEF TransferSpl
<1>2. intent.action.kind = "TransferSpl" /\ HV!Authorize(intent, sigs)
  BY <1>1, AuthorizedFacts
<1>3. StoredInv'
  BY <1>1, OnlyNonceMoves DEF TransferSpl, StoredInv
<1> QED
  BY <1>1, <1>2, <1>3, OnlyNonceMoves
  DEF TransferSpl, HV!TransferSpl, HV!ConsumeNonce, HV!policyVars, HV!falconVars,
      HV!configVars

\* A proposal that an owner change drops is dropped from the bytes, too.
LEMMA PendingIsCleared ==
  ASSUME StoredInv, config # <<>>, config' = clear_pending(config)
  PROVE  /\ ConfigOK(config') /\ Created(config)' = Created(config)
         /\ PendingNew(config)' = ZeroKey /\ PendingReadySlot(config)' = 0
         /\ Guardian(config)' = Guardian(config)
         /\ DelaySlots(config)' = DelaySlots(config)
<1>1. ConfigOK(config) /\ ZeroKey \in Ed25519Keys /\ 0 \in U64
  BY KeyBytesAssumption, SizesAssumption DEF StoredInv, U64
<1>2. /\ ConfigOK(config')
      /\ ConfigView(config') = [guardian |-> guardian_ed25519(config),
                                delaySlots |-> delay_slots(config),
                                pendingNew |-> ZeroKey, pendingReadySlot |-> 0]
  BY <1>1, SetPending DEF clear_pending
<1>3. /\ Created(config) = TRUE /\ Guardian(config) = guardian_ed25519(config)
      /\ DelaySlots(config) = delay_slots(config)
  BY <1>1, ConfigReads DEF ConfigView
<1>4. /\ Created(config') = TRUE /\ Guardian(config') = guardian_ed25519(config)
      /\ DelaySlots(config') = delay_slots(config)
      /\ PendingNew(config') = ZeroKey /\ PendingReadySlot(config') = 0
  <2>1. /\ ConfigView(config').guardian = guardian_ed25519(config)
        /\ ConfigView(config').delaySlots = delay_slots(config)
        /\ ConfigView(config').pendingNew = ZeroKey
        /\ ConfigView(config').pendingReadySlot = 0
    BY <1>2
  <2> QED
    BY <2>1, <1>2, ConfigReads
<1> QED
  BY <1>2, <1>3, <1>4

LEMMA ClearPendingIsHV ==
  ASSUME StoredInv, ClearPendingAfterOwnerChange
  PROVE  /\ config' # <<>> => ConfigOK(config')
         /\ HV!ClearPendingAfterOwnerChange
         /\ Created(config)' = Created(config) /\ Guardian(config)' = Guardian(config)
         /\ DelaySlots(config)' = DelaySlots(config)
<1>1. CASE config = <<>>
  <2>1. config' = config /\ ~Created(config)
    BY <1>1 DEF ClearPendingAfterOwnerChange, Created
  <2> QED
    BY <1>1, <2>1 DEF HV!ClearPendingAfterOwnerChange, HV!pendingVars
<1>2. CASE config # <<>>
  <2>1. config' = clear_pending(config) /\ Created(config)
    BY <1>2 DEF ClearPendingAfterOwnerChange, Created
  <2> QED
    BY <1>2, <2>1, PendingIsCleared DEF HV!ClearPendingAfterOwnerChange, HV!ClearPending
<1> QED
  BY <1>1, <1>2

LEMMA OwnerAndNonceMove ==
  ASSUME StoredInv, NEW intent, NEW sigs, NEW kind, Authorized(intent, sigs, kind),
         NEW k \in Ed25519Keys, account' = set_owner_ed25519(WithNextNonce, k)
  PROVE  /\ AccountOK(account') /\ Nonce(account)' = Nonce(account) + 1
         /\ Owner(account)' = k /\ Created(account)' = Created(account)
         /\ Policy(account)' = Policy(account) /\ Threshold(account)' = Threshold(account)
         /\ RecoveryEnabled(account)' = RecoveryEnabled(account)
         /\ FalconKeyHash(account)' = FalconKeyHash(account)
         /\ PreparedKey(account)' = PreparedKey(account)
<1>1. /\ AccountOK(account) /\ AccountOK(WithNextNonce)
      /\ View(WithNextNonce) = [View(account) EXCEPT !.nonce = Nonce(account) + 1]
  BY AuthorizedFacts
<1>2. /\ AccountOK(account')
      /\ View(account') = [View(WithNextNonce) EXCEPT !.owner = k]
  BY <1>1, SetOwner
<1>3. \A data : DOMAIN View(data) = {"policy", "threshold", "recoveryEnabled", "owner",
                                     "falconKeyHash", "preparedKey", "nonce"}
  BY DEF View
<1>4. /\ View(account').nonce = Nonce(account) + 1 /\ View(account').owner = k
      /\ View(account').policy = View(account).policy
      /\ View(account').threshold = View(account).threshold
      /\ View(account').recoveryEnabled = View(account).recoveryEnabled
      /\ View(account').falconKeyHash = View(account).falconKeyHash
      /\ View(account').preparedKey = View(account).preparedKey
  BY <1>1, <1>2, <1>3
<1>5. Nonce(account') = Nonce(account) + 1 /\ Owner(account') = k
  BY <1>2, <1>4, VaultReads, Zenon
<1>6. /\ Created(account') = Created(account)
      /\ Policy(account') = Policy(account) /\ Threshold(account') = Threshold(account)
      /\ RecoveryEnabled(account') = RecoveryEnabled(account)
      /\ FalconKeyHash(account') = FalconKeyHash(account)
      /\ PreparedKey(account') = PreparedKey(account)
  BY <1>1, <1>2, <1>4, SameReads, Zenon
<1> QED
  BY <1>2, <1>5, <1>6

LEMMA RotateEd25519IsHV ==
  ASSUME StoredInv, NEW intent \in HV!Intents, NEW sigs, RotateEd25519(intent, sigs)
  PROVE  StoredInv' /\ HV!RotateEd25519(intent, sigs)
<1>1. /\ Authorized(intent, sigs, "RotateEd25519Key")
      /\ account' = set_owner_ed25519(WithNextNonce, intent.action.new)
      /\ ClearPendingAfterOwnerChange
  BY DEF RotateEd25519
<1>2. /\ intent.action.kind = "RotateEd25519Key" /\ HV!Authorize(intent, sigs)
      /\ account # <<>>
  BY <1>1, AuthorizedFacts, ViewOfAccount
<1>3. intent.action.new \in Ed25519Keys /\ intent.action.new # Owner(account)
  BY <1>2, StoredIntentFields DEF RotateEd25519, Owner
<1>4. StoredInv'
  BY <1>1, <1>3, OwnerAndNonceMove, ClearPendingIsHV DEF RotateEd25519, StoredInv
<1> QED
  BY <1>1, <1>2, <1>3, <1>4, OwnerAndNonceMove, ClearPendingIsHV
  DEF RotateEd25519, HV!RotateEd25519, HV!ConsumeNonce, HV!policyVars, HV!falconVars,
      HV!guardianVars, HV!fundVars

LEMMA RecoverEd25519IsHV ==
  ASSUME StoredInv, NEW intent \in HV!Intents, NEW sigs, RecoverEd25519(intent, sigs)
  PROVE  StoredInv' /\ HV!RecoverEd25519(intent, sigs)
<1>1. /\ Authorized(intent, sigs, "RecoverAccount")
      /\ account' = set_owner_ed25519(WithNextNonce, intent.action.new)
      /\ ClearPendingAfterOwnerChange
  BY DEF RecoverEd25519
<1>2. /\ intent.action.kind = "RecoverAccount" /\ HV!Authorize(intent, sigs)
      /\ account # <<>>
  BY <1>1, AuthorizedFacts, ViewOfAccount
<1>3. intent.action.new \in Ed25519Keys /\ intent.action.new \notin {Owner(account), ZeroKey}
  BY <1>2, StoredIntentFields DEF RecoverEd25519, Owner
<1>4. StoredInv'
  BY <1>1, <1>3, OwnerAndNonceMove, ClearPendingIsHV DEF RecoverEd25519, StoredInv
<1> QED
  BY <1>1, <1>2, <1>3, <1>4, OwnerAndNonceMove, ClearPendingIsHV
  DEF RecoverEd25519, HV!RecoverEd25519, HV!ConsumeNonce, HV!policyVars, HV!falconVars,
      HV!guardianVars, HV!fundVars

LEMMA RotateFalconIsHV ==
  ASSUME StoredInv, NEW intent \in HV!Intents, NEW sigs, NEW newWireKey, NEW pop,
         RotateFalcon(intent, sigs, newWireKey, pop)
  PROVE  StoredInv' /\ HV!RotateFalcon(intent, sigs, newWireKey, pop)
<1> DEFINE f == intent.action.new
<1>0. HV!HashesTo(newWireKey, f) /\ newWireKey = f
  BY DEF RotateFalcon, HV!HashesTo
<1>1. /\ Authorized(intent, sigs, "RotateFalconKey")
      /\ account' = set_prepared(set_falcon_public_key_hash(WithNextNonce, f), f)
  BY <1>0 DEF RotateFalcon
<1>2. /\ intent.action.kind = "RotateFalconKey" /\ HV!Authorize(intent, sigs)
      /\ AccountOK(account) /\ account # <<>> /\ AccountOK(WithNextNonce)
      /\ View(WithNextNonce) = [View(account) EXCEPT !.nonce = Nonce(account) + 1]
  BY <1>1, AuthorizedFacts, ViewOfAccount
<1>3. f \in FalconKeys /\ f # FalconKeyHash(account)
  BY <1>2, StoredIntentFields DEF RotateFalcon, FalconKeyHash
<1> DEFINE hashed == set_falcon_public_key_hash(WithNextNonce, f)
<1>4. AccountOK(hashed) /\ View(hashed) = [View(WithNextNonce) EXCEPT !.falconKeyHash = f]
  BY <1>2, <1>3, SetFalconHash
<1>5. account' = set_prepared(hashed, f)
  BY <1>1
<1> HIDE DEF hashed
<1>6. AccountOK(account') /\ View(account') = [View(hashed) EXCEPT !.preparedKey = f]
  BY <1>3, <1>4, <1>5, SetPrepared
<1>7. \A data : DOMAIN View(data) = {"policy", "threshold", "recoveryEnabled", "owner",
                                     "falconKeyHash", "preparedKey", "nonce"}
  BY DEF View
<1>8. /\ Nonce(account)' = Nonce(account) + 1 /\ Created(account)' = Created(account)
      /\ FalconKeyHash(account)' = f /\ PreparedKey(account)' = f
      /\ Policy(account)' = Policy(account) /\ Threshold(account)' = Threshold(account)
      /\ RecoveryEnabled(account)' = RecoveryEnabled(account)
      /\ Owner(account)' = Owner(account)
  <2>1. /\ View(account').nonce = Nonce(account) + 1
        /\ View(account').falconKeyHash = f /\ View(account').preparedKey = f
        /\ View(account').policy = View(account).policy
        /\ View(account').threshold = View(account).threshold
        /\ View(account').recoveryEnabled = View(account).recoveryEnabled
        /\ View(account').owner = View(account).owner
    BY <1>2, <1>4, <1>6, <1>7
  <2> QED
    <3>1. /\ Nonce(account') = Nonce(account) + 1
          /\ FalconKeyHash(account') = f /\ PreparedKey(account') = f
      BY <1>6, <2>1, VaultReads, Zenon
    <3>2. /\ Created(account') = Created(account)
          /\ Policy(account') = Policy(account)
          /\ Threshold(account') = Threshold(account)
          /\ RecoveryEnabled(account') = RecoveryEnabled(account)
          /\ Owner(account') = Owner(account)
      BY <1>2, <1>6, <2>1, SameReads, Zenon
    <3> QED
      BY <3>1, <3>2
<1>9. StoredInv'
  BY <1>6 DEF RotateFalcon, StoredInv
<1> QED
  BY <1>0, <1>2, <1>3, <1>8, <1>9
  DEF RotateFalcon, HV!RotateFalcon, HV!StoreFalconKey, HV!ConsumeNonce, HV!policyVars,
      HV!configVars, HV!fundVars

LEMMA ChangePolicyIsHV ==
  ASSUME StoredInv, NEW intent \in HV!Intents, NEW sigs, ChangePolicy(intent, sigs)
  PROVE  StoredInv' /\ HV!ChangePolicy(intent, sigs)
<1> DEFINE p == intent.action.policy
           t == TargetThreshold(p, intent.action.threshold)
           changed == set_policy(WithNextNonce, p)
<1>1. /\ Authorized(intent, sigs, "ChangePolicy")
      /\ account' = set_falcon_required_above(changed, t)
      /\ ~(policy_of(account) = p /\ falcon_required_above(account) = t)
      /\ UNCHANGED <<config, balance, tokens, slot>>
  BY DEF ChangePolicy
<1>2. /\ intent.action.kind = "ChangePolicy" /\ HV!Authorize(intent, sigs)
      /\ AccountOK(account) /\ account # <<>> /\ AccountOK(WithNextNonce)
      /\ View(WithNextNonce) = [View(account) EXCEPT !.nonce = Nonce(account) + 1]
  BY <1>1, AuthorizedFacts, ViewOfAccount
<1>3. p \in Policies /\ intent.action.threshold \in Amounts
  BY <1>2, StoredIntentFields
<1>4. t \in {NoThreshold} \cup {SomeThreshold(n) : n \in U64}
  BY <1>3, SizesAssumption DEF TargetThreshold
<1>5. t = HV!TargetThreshold(p, intent.action.threshold)
  BY DEF TargetThreshold, SomeThreshold, NoThreshold,
         HV!TargetThreshold, HV!SomeThreshold, HV!NoThreshold
<1>6. ~(Policy(account) = p /\ Threshold(account) = t)
  BY <1>1, <1>2 DEF Policy, Threshold
<1> HIDE DEF t
<1>7. AccountOK(changed) /\ View(changed) = [View(WithNextNonce) EXCEPT !.policy = p]
  BY <1>2, <1>3, SetPolicy
<1> HIDE DEF changed
<1>8. AccountOK(account') /\ View(account') = [View(changed) EXCEPT !.threshold = t]
  BY <1>1, <1>4, <1>7, SetThreshold
<1>9. \A data : DOMAIN View(data) = {"policy", "threshold", "recoveryEnabled", "owner",
                                     "falconKeyHash", "preparedKey", "nonce"}
  BY DEF View
<1>10. /\ View(account').nonce = Nonce(account) + 1
       /\ View(account').policy = p /\ View(account').threshold = t
       /\ View(account').falconKeyHash = View(account).falconKeyHash
       /\ View(account').preparedKey = View(account).preparedKey
       /\ View(account').recoveryEnabled = View(account).recoveryEnabled
       /\ View(account').owner = View(account).owner
  BY <1>2, <1>7, <1>8, <1>9
<1>11. /\ Nonce(account)' = Nonce(account) + 1 /\ Created(account)' = Created(account)
       /\ Policy(account)' = p /\ Threshold(account)' = t
       /\ FalconKeyHash(account)' = FalconKeyHash(account)
       /\ PreparedKey(account)' = PreparedKey(account)
       /\ RecoveryEnabled(account)' = RecoveryEnabled(account)
       /\ Owner(account)' = Owner(account)
  <2>1. /\ Nonce(account') = Nonce(account) + 1
        /\ Policy(account') = p /\ Threshold(account') = t
    BY <1>8, <1>10, VaultReads, Zenon
  <2>2. /\ Created(account') = Created(account)
        /\ FalconKeyHash(account') = FalconKeyHash(account)
        /\ PreparedKey(account') = PreparedKey(account)
        /\ RecoveryEnabled(account') = RecoveryEnabled(account)
        /\ Owner(account') = Owner(account)
    BY <1>2, <1>8, <1>10, SameReads, Zenon
  <2> QED
    BY <2>1, <2>2
<1>12. StoredInv'
  BY <1>1, <1>8 DEF StoredInv
<1> QED
  BY <1>1, <1>2, <1>5, <1>6, <1>11, <1>12
  DEF HV!ChangePolicy, HV!StorePolicy, HV!ConsumeNonce, HV!falconVars,
      HV!configVars, HV!fundVars

LEMMA SwitchRecoveryIsHV ==
  ASSUME StoredInv, NEW intent, NEW sigs, NEW on \in BOOLEAN,
         SwitchRecovery(intent, sigs, on)
  PROVE  /\ StoredInv'
         /\ HV!EnableRecovery(intent, sigs) \/ HV!DisableRecovery(intent, sigs)
<1>1. /\ Authorized(intent, sigs, "RecoverAccount")
      /\ account' = set_recovery_enabled(WithNextNonce, on)
      /\ recovery_enabled(account) # on
      /\ UNCHANGED <<config, balance, tokens, slot>>
  BY DEF SwitchRecovery
<1>2. /\ intent.action.kind = "RecoverAccount" /\ HV!Authorize(intent, sigs)
      /\ AccountOK(account) /\ AccountOK(WithNextNonce)
      /\ View(WithNextNonce) = [View(account) EXCEPT !.nonce = Nonce(account) + 1]
  BY <1>1, AuthorizedFacts
<1>3. /\ AccountOK(account')
      /\ View(account') = [View(WithNextNonce) EXCEPT !.recoveryEnabled = on]
  BY <1>1, <1>2, SetRecovery
<1>4. \A data : DOMAIN View(data) = {"policy", "threshold", "recoveryEnabled", "owner",
                                     "falconKeyHash", "preparedKey", "nonce"}
  BY DEF View
<1>5. View(account').recoveryEnabled = on
  BY <1>2, <1>3, <1>4
<1>6. /\ Nonce(account)' = Nonce(account) + 1 /\ Created(account)' = Created(account)
      /\ RecoveryEnabled(account)' = on
      /\ Policy(account)' = Policy(account) /\ Threshold(account)' = Threshold(account)
      /\ FalconKeyHash(account)' = FalconKeyHash(account)
      /\ PreparedKey(account)' = PreparedKey(account)
      /\ Owner(account)' = Owner(account)
  <2>1. /\ View(account').nonce = Nonce(account) + 1
        /\ View(account').policy = View(account).policy
        /\ View(account').threshold = View(account).threshold
        /\ View(account').falconKeyHash = View(account).falconKeyHash
        /\ View(account').preparedKey = View(account).preparedKey
        /\ View(account').owner = View(account).owner
    BY <1>2, <1>3, <1>4
  <2>2. RecoveryEnabled(account') = on /\ Created(account') = TRUE /\ Created(account) = TRUE
    BY <1>2, <1>3, <1>5, VaultReads, Zenon
  <2>3. /\ Nonce(account') = Nonce(account) + 1
        /\ Policy(account') = Policy(account) /\ Threshold(account') = Threshold(account)
        /\ FalconKeyHash(account') = FalconKeyHash(account)
        /\ PreparedKey(account') = PreparedKey(account)
        /\ Owner(account') = Owner(account)
    <3>1. Nonce(account') = Nonce(account) + 1
      BY <1>3, <2>1, VaultReads, Zenon
    <3> QED
      BY <1>2, <1>3, <2>1, <3>1, SameReads, Zenon
  <2> QED
    BY <2>2, <2>3
<1>7. RecoveryEnabled(account) = recovery_enabled(account)
      /\ recovery_enabled(account) \in BOOLEAN
  BY <1>2, VaultReads, ViewOfAccount DEF View
<1>8. StoredInv'
  BY <1>1, <1>3 DEF StoredInv
<1>9. CASE on = TRUE
  <2>1. ~RecoveryEnabled(account) /\ RecoveryEnabled(account)' = TRUE
    BY <1>1, <1>6, <1>7, <1>9
  <2>2. intent.action.op = "Enable" /\ intent.action.new = ZeroKey
    BY <1>9 DEF SwitchRecovery
  <2>3. HV!EnableRecovery(intent, sigs)
    BY <2>1, <2>2, <1>1, <1>2, <1>6
    DEF HV!EnableRecovery, HV!ConsumeNonce, HV!policyVars, HV!falconVars,
        HV!configVars, HV!fundVars
  <2> QED
    BY <2>3, <1>8
<1>10. CASE on = FALSE
  <2>1. RecoveryEnabled(account) /\ RecoveryEnabled(account)' = FALSE
    BY <1>1, <1>6, <1>7, <1>10
  <2>2. intent.action.op = "Disable" /\ intent.action.new = ZeroKey
    BY <1>10 DEF SwitchRecovery
  <2>3. HV!DisableRecovery(intent, sigs)
    BY <2>1, <2>2, <1>1, <1>2, <1>6
    DEF HV!DisableRecovery, HV!ConsumeNonce, HV!policyVars, HV!falconVars,
        HV!configVars, HV!fundVars
  <2> QED
    BY <2>3, <1>8
<1> QED
  BY <1>9, <1>10

LEMMA SetRecoveryConfigIsHV ==
  ASSUME StoredInv, NEW intent \in HV!Intents, NEW sigs, SetRecoveryConfig(intent, sigs)
  PROVE  StoredInv' /\ HV!SetRecoveryConfig(intent, sigs)
<1> DEFINE k == intent.action.guardian
           n == intent.action.delay
<1>1. /\ Authorized(intent, sigs, "SetRecoveryConfig") /\ account' = WithNextNonce
      /\ k # ZeroKey /\ n >= 1 /\ UNCHANGED <<tokens, slot>>
  BY DEF SetRecoveryConfig
<1>2. intent.action.kind = "SetRecoveryConfig" /\ HV!Authorize(intent, sigs)
  BY <1>1, AuthorizedFacts
<1>3. k \in Ed25519Keys /\ n \in U64
  BY <1>2, StoredIntentFields, SizesAssumption
<1>4. /\ ConfigOK(config') /\ Created(config)' = TRUE
      /\ Guardian(config)' = k /\ DelaySlots(config)' = n
      /\ \/ /\ ~Created(config) /\ balance["Wallet"] >= ConfigRent
            /\ balance' = [balance EXCEPT !["Wallet"] = @ - ConfigRent,
                                          !["Config"] = @ + ConfigRent]
            /\ PendingNew(config)' = ZeroKey /\ PendingReadySlot(config)' = 0
         \/ /\ Created(config) /\ HV!MayReplaceConfig
            /\ UNCHANGED balance
            /\ PendingNew(config)' = PendingNew(config)
            /\ PendingReadySlot(config)' = PendingReadySlot(config)
  <2>1. CASE /\ config = <<>> /\ balance["Wallet"] >= ConfigRent
             /\ balance' = [balance EXCEPT !["Wallet"] = @ - ConfigRent,
                                           !["Config"] = @ + ConfigRent]
             /\ config' = initialize_config(k, n)
    <3>1. /\ ConfigOK(config') /\ ConfigView(config').guardian = k
          /\ ConfigView(config').delaySlots = n /\ ConfigView(config').pendingNew = ZeroKey
          /\ ConfigView(config').pendingReadySlot = 0
      BY <2>1, <1>3, ConfigInitialized
    <3>2. /\ Created(config') = TRUE /\ Guardian(config') = k /\ DelaySlots(config') = n
          /\ PendingNew(config') = ZeroKey /\ PendingReadySlot(config') = 0
      BY <3>1, ConfigReads
    <3> QED
      BY <2>1, <3>1, <3>2 DEF Created
  <2>2. CASE /\ config # <<>> /\ HV!MayReplaceConfig
             /\ config' = set_delay_slots(set_guardian_ed25519(config, k), n)
             /\ UNCHANGED balance
    <3>1. /\ ConfigOK(config) /\ ConfigOK(config')
          /\ ConfigView(config').guardian = k /\ ConfigView(config').delaySlots = n
          /\ ConfigView(config').pendingNew = pending_new_ed25519(config)
          /\ ConfigView(config').pendingReadySlot = pending_ready_slot(config)
      BY <2>2, <1>3, SetGuardianAndDelay DEF StoredInv
    <3>2. /\ Created(config') = TRUE /\ Guardian(config') = k /\ DelaySlots(config') = n
          /\ PendingNew(config') = pending_new_ed25519(config)
          /\ PendingReadySlot(config') = pending_ready_slot(config)
      BY <3>1, ConfigReads
    <3>3. /\ PendingNew(config) = pending_new_ed25519(config)
          /\ PendingReadySlot(config) = pending_ready_slot(config)
      BY <2>2 DEF PendingNew, PendingReadySlot
    <3> QED
      BY <2>2, <3>1, <3>2, <3>3 DEF Created
  <2> QED
    BY <2>1, <2>2 DEF SetRecoveryConfig
<1>5. StoredInv'
  BY <1>1, <1>4, OnlyNonceMoves DEF StoredInv
<1> QED
  BY <1>1, <1>2, <1>4, <1>5, OnlyNonceMoves
  DEF HV!SetRecoveryConfig, HV!ConsumeNonce, HV!policyVars, HV!falconVars, HV!pendingVars

LEMMA CancelIsHV ==
  ASSUME StoredInv, NEW intent, NEW sigs, CancelSocialRecovery(intent, sigs)
  PROVE  StoredInv' /\ HV!CancelSocialRecovery(intent, sigs)
<1>1. /\ Authorized(intent, sigs, "CancelSocialRecovery") /\ account' = WithNextNonce
      /\ config # <<>> /\ config' = clear_pending(config)
      /\ HV!SocialRecoveryOpen /\ HV!HasPending
      /\ UNCHANGED <<balance, tokens, slot>>
  BY DEF CancelSocialRecovery
<1>2. /\ intent.action.kind = "CancelSocialRecovery" /\ HV!Authorize(intent, sigs)
      /\ Created(config)
  BY <1>1, AuthorizedFacts DEF Created
<1>3. StoredInv'
  BY <1>1, OnlyNonceMoves, PendingIsCleared DEF StoredInv
<1> QED
  BY <1>1, <1>2, <1>3, OnlyNonceMoves, PendingIsCleared
  DEF HV!CancelSocialRecovery, HV!ClearPending, HV!ConsumeNonce, HV!policyVars,
      HV!falconVars, HV!guardianVars, HV!fundVars

LEMMA InitiateIsHV ==
  ASSUME StoredInv, NEW new \in Ed25519Keys, NEW signer, NEW signedNonce,
         InitiateSocialRecovery(new, signer, signedNonce)
  PROVE  StoredInv' /\ HV!InitiateSocialRecovery(new, signer, signedNonce)
<1>1. /\ account # <<>> /\ config # <<>> /\ HV!SocialRecoveryOpen
      /\ new \notin {ZeroKey, owner_ed25519(account)}
      /\ signer = guardian_ed25519(config) /\ signedNonce = nonce_of(account)
      /\ HV!MayInitiate /\ HV!ReadySlot <= MaxU64
      /\ config' = set_pending(config, new, HV!ReadySlot)
      /\ UNCHANGED <<account, balance, tokens, slot>>
  BY DEF InitiateSocialRecovery
<1>2. AccountOK(account) /\ ConfigOK(config) /\ slot \in Nat
  BY <1>1 DEF StoredInv
<1>3. /\ Created(account) /\ Created(config) /\ Owner(account) = owner_ed25519(account)
      /\ Nonce(account) = nonce_of(account)
      /\ Guardian(config) = guardian_ed25519(config)
      /\ DelaySlots(config) = delay_slots(config)
  BY <1>1 DEF Created, Owner, Nonce, Guardian, DelaySlots
<1>4. delay_slots(config) \in U64
  BY <1>2, ViewOfConfig DEF ConfigView
<1>5. HV!ReadySlot \in U64
  BY <1>1, <1>2, <1>3, <1>4 DEF U64, HV!ReadySlot
<1>6. /\ ConfigOK(config') /\ ConfigView(config').guardian = guardian_ed25519(config)
      /\ ConfigView(config').delaySlots = delay_slots(config)
      /\ ConfigView(config').pendingNew = new
      /\ ConfigView(config').pendingReadySlot = HV!ReadySlot
  BY <1>1, <1>2, <1>5, SetPending
<1>7. /\ Created(config') = TRUE /\ Guardian(config') = Guardian(config)
      /\ DelaySlots(config') = DelaySlots(config)
      /\ PendingNew(config') = new /\ PendingReadySlot(config') = HV!ReadySlot
  BY <1>3, <1>6, ConfigReads
<1>8. Created(config) = TRUE
  BY <1>2, ConfigReads
<1>9. StoredInv'
  BY <1>1, <1>2, <1>6 DEF StoredInv
<1> QED
  BY <1>1, <1>3, <1>7, <1>8, <1>9
  DEF HV!InitiateSocialRecovery, HV!accountVars, HV!policyVars, HV!falconVars,
      HV!guardianVars, HV!fundVars

LEMMA FinalizeIsHV ==
  ASSUME StoredInv, FinalizeSocialRecovery
  PROVE  StoredInv' /\ HV!FinalizeSocialRecovery
<1> DEFINE k == pending_new_ed25519(config)
           moved == set_owner_ed25519(account, k)
           n == nonce_of(account) + 1
<1>1. /\ account # <<>> /\ config # <<>> /\ HV!SocialRecoveryOpen
      /\ HV!HasPending /\ HV!TimelockElapsed /\ HV!NonceHasSuccessor
      /\ config' = clear_pending(config) /\ account' = set_nonce(moved, n)
      /\ UNCHANGED <<balance, tokens, slot>>
  BY DEF FinalizeSocialRecovery
<1>2. AccountOK(account) /\ ConfigOK(config) /\ slot \in Nat
  BY <1>1 DEF StoredInv
<1>3. /\ Created(account) = TRUE /\ Created(config) = TRUE
      /\ Nonce(account) = nonce_of(account) /\ PendingNew(config) = k
  BY <1>1 DEF Created, Nonce, PendingNew
<1>4. k \in Ed25519Keys /\ nonce_of(account) \in U64
  BY <1>2, ViewOfConfig, ViewOfAccount DEF ConfigView, View
<1>5. n \in U64
  BY <1>1, <1>3, <1>4, SizesAssumption DEF U64, HV!NonceHasSuccessor
<1>6. AccountOK(moved) /\ View(moved) = [View(account) EXCEPT !.owner = k]
  BY <1>2, <1>4, SetOwner
<1> HIDE DEF moved, n, k
<1>7. AccountOK(account') /\ View(account') = [View(moved) EXCEPT !.nonce = n]
  BY <1>1, <1>5, <1>6, SetNonce
<1>8. \A data : DOMAIN View(data) = {"policy", "threshold", "recoveryEnabled", "owner",
                                     "falconKeyHash", "preparedKey", "nonce"}
  BY DEF View
<1>9. /\ View(account').nonce = n /\ View(account').owner = k
      /\ View(account').policy = View(account).policy
      /\ View(account').threshold = View(account).threshold
      /\ View(account').recoveryEnabled = View(account).recoveryEnabled
      /\ View(account').falconKeyHash = View(account).falconKeyHash
      /\ View(account').preparedKey = View(account).preparedKey
  BY <1>6, <1>7, <1>8
<1>10. /\ Nonce(account') = n /\ Owner(account') = k /\ Created(account') = TRUE
       /\ Policy(account') = Policy(account) /\ Threshold(account') = Threshold(account)
       /\ RecoveryEnabled(account') = RecoveryEnabled(account)
       /\ FalconKeyHash(account') = FalconKeyHash(account)
       /\ PreparedKey(account') = PreparedKey(account)
  <2>1. Nonce(account') = n /\ Owner(account') = k /\ Created(account') = TRUE
    BY <1>7, <1>9, VaultReads, Zenon
  <2> QED
    BY <1>2, <1>7, <1>9, <2>1, SameReads, Zenon
<1>11. n = Nonce(account) + 1
  BY <1>3 DEF n
<1>12. StoredInv'
  BY <1>1, <1>2, <1>7, PendingIsCleared DEF StoredInv
<1> QED
  BY <1>1, <1>3, <1>10, <1>11, <1>12, PendingIsCleared
  DEF HV!FinalizeSocialRecovery, HV!ClearPending, HV!ConsumeNonce, HV!policyVars,
      HV!falconVars, HV!guardianVars, HV!fundVars

LEMMA InitializeIsHV ==
  ASSUME StoredInv, NEW k \in Ed25519Keys, NEW f \in FalconKeys, NEW p \in Policies,
         Initialize(k, f, p)
  PROVE  StoredInv' /\ HV!Initialize(k, f, p)
<1>1. /\ account = <<>> /\ UNCHANGED <<config, tokens, slot>>
      /\ account' = set_prepared(initialize_without_falcon_key(k, f, p), f)
  BY DEF Initialize
<1>2. /\ AccountOK(account')
      /\ View(account') = [policy |-> p, threshold |-> NoThreshold,
                           recoveryEnabled |-> FALSE, owner |-> k,
                           falconKeyHash |-> f, preparedKey |-> f, nonce |-> 0]
  BY <1>1, Initialized
<1>3. /\ Created(account') = TRUE /\ Policy(account') = p /\ Threshold(account') = NoThreshold
      /\ Owner(account') = k /\ FalconKeyHash(account') = f /\ PreparedKey(account') = f
      /\ Nonce(account') = 0
  <2>1. /\ View(account').policy = p /\ View(account').threshold = NoThreshold
        /\ View(account').owner = k /\ View(account').falconKeyHash = f
        /\ View(account').preparedKey = f /\ View(account').nonce = 0
    BY <1>2
  <2> QED
    BY <1>2, <2>1, VaultReads
<1>4. RecoveryEnabled(account') = FALSE
  <2>1. View(account').recoveryEnabled = FALSE
    BY <1>2
  <2> QED
    BY <1>2, <2>1, VaultReads
<1>5. ~Created(account)
  BY <1>1 DEF Created
<1>6. NoThreshold = HV!NoThreshold
  BY DEF NoThreshold, HV!NoThreshold
<1>7. StoredInv'
  BY <1>1, <1>2 DEF StoredInv
<1> QED
  BY <1>1, <1>3, <1>4, <1>5, <1>6, <1>7 DEF Initialize, HV!Initialize, HV!configVars
-----------------------------------------------------------------------------
(* The theorems.                                                           *)

LEMMA SubmitIsHV ==
  ASSUME StoredInv, NEW intent \in HV!Intents, NEW sigs \in HV!Signatures,
         Submit(intent, sigs)
  PROVE  StoredInv' /\ HV!Submit(intent, sigs)
<1>1. CASE \E recipient \in HV!Accounts : TransferSol(intent, sigs, recipient)
  BY <1>1, TransferSolIsHV DEF HV!Submit
<1>2. CASE TransferSpl(intent, sigs)
  BY <1>2, TransferSplIsHV DEF HV!Submit
<1>3. CASE RotateEd25519(intent, sigs)
  BY <1>3, RotateEd25519IsHV DEF HV!Submit
<1>4. CASE \E newWireKey \in FalconKeys, pop \in FalconSigners :
             RotateFalcon(intent, sigs, newWireKey, pop)
  BY <1>4, RotateFalconIsHV DEF HV!Submit
<1>5. CASE ChangePolicy(intent, sigs)
  BY <1>5, ChangePolicyIsHV DEF HV!Submit
<1>6. CASE \E on \in BOOLEAN : SwitchRecovery(intent, sigs, on)
  BY <1>6, SwitchRecoveryIsHV DEF HV!Submit
<1>7. CASE RecoverEd25519(intent, sigs)
  BY <1>7, RecoverEd25519IsHV DEF HV!Submit
<1>8. CASE SetRecoveryConfig(intent, sigs)
  BY <1>8, SetRecoveryConfigIsHV DEF HV!Submit
<1>9. CASE CancelSocialRecovery(intent, sigs)
  BY <1>9, CancelIsHV DEF HV!Submit
<1> QED
  BY <1>1, <1>2, <1>3, <1>4, <1>5, <1>6, <1>7, <1>8, <1>9 DEF Submit

LEMMA InitIsHV == Init => StoredInv /\ HV!Init
<1> SUFFICES ASSUME Init PROVE StoredInv /\ HV!Init
  OBVIOUS
<1>1. account = <<>> /\ config = <<>> /\ slot = 0 /\ tokens = InitialTokens
      /\ balance = [a \in HV!Accounts |-> IF a = "Wallet" THEN Supply ELSE 0]
  BY DEF Init
<1>2. /\ Created(account) = FALSE /\ Policy(account) = "Ed25519Only"
      /\ Threshold(account) = NoThreshold /\ Owner(account) = ZeroKey
      /\ FalconKeyHash(account) \in FalconKeys
      /\ PreparedKey(account) = FalconKeyHash(account) /\ Nonce(account) = 0
  BY <1>1, KeyBytesAssumption
  DEF Created, Policy, Threshold, Owner, FalconKeyHash, PreparedKey, Nonce
<1>3. RecoveryEnabled(account) = FALSE
  BY <1>1 DEF RecoveryEnabled
<1>4. /\ Created(config) = FALSE /\ Guardian(config) = ZeroKey /\ DelaySlots(config) = 0
      /\ PendingNew(config) = ZeroKey /\ PendingReadySlot(config) = 0
  BY <1>1 DEF Created, Guardian, DelaySlots, PendingNew, PendingReadySlot
<1>5. NoThreshold = HV!NoThreshold
  BY DEF NoThreshold, HV!NoThreshold
<1> QED
  BY <1>1, <1>2, <1>3, <1>4, <1>5 DEF HV!Init, StoredInv

LEMMA StepIsHV == StoredInv /\ [Next]_svars => StoredInv' /\ [HV!Next]_HV!vars
<1> SUFFICES ASSUME StoredInv, [Next]_svars PROVE StoredInv' /\ [HV!Next]_HV!vars
  OBVIOUS
<1>1. CASE Tick
  <2>1. StoredInv'
    BY <1>1 DEF Tick, StoredInv
  <2>2. HV!Tick
    BY <1>1 DEF Tick, HV!Tick, HV!accountVars, HV!configVars, HV!fundVars
  <2> QED
    BY <2>1, <2>2 DEF HV!Next, HV!Environment
<1>2. CASE \E to \in {"Vault", "Config"}, amount \in HV!U64 : Deposit(to, amount)
  <2>1. PICK to \in {"Vault", "Config"}, amount \in HV!U64 : Deposit(to, amount)
    BY <1>2
  <2>2. StoredInv'
    BY <2>1 DEF Deposit, StoredInv
  <2>3. HV!Deposit(to, amount)
    BY <2>1 DEF Deposit, U64, HV!U64, HV!Deposit, HV!accountVars, HV!configVars
  <2> QED
    BY <2>2, <2>3 DEF HV!Next, HV!Environment
<1>3. CASE \E k \in Ed25519Keys, f \in FalconKeys, p \in Policies : Initialize(k, f, p)
  <2>1. PICK k \in Ed25519Keys, f \in FalconKeys, p \in Policies : Initialize(k, f, p)
    BY <1>3
  <2>2. StoredInv' /\ HV!Initialize(k, f, p)
    BY <2>1, InitializeIsHV
  <2>3. p \in HV!Policies
    BY DEF Policies, HV!Policies
  <2> QED
    BY <2>2, <2>3 DEF HV!Next, HV!Create
<1>4. CASE \E intent \in HV!Intents, sigs \in HV!Signatures : Submit(intent, sigs)
  BY <1>4, SubmitIsHV DEF HV!Next
<1>5. CASE \E new \in Ed25519Keys, signer \in Ed25519Signers, signedNonce \in HV!U64 :
             InitiateSocialRecovery(new, signer, signedNonce)
  BY <1>5, InitiateIsHV DEF HV!Next, HV!Propose
<1>6. CASE FinalizeSocialRecovery
  BY <1>6, FinalizeIsHV DEF HV!Next
<1>7. CASE UNCHANGED svars
  BY <1>7 DEF svars, StoredInv, HV!vars, HV!accountVars, HV!configVars, HV!fundVars,
     HV!policyVars, HV!falconVars
<1> QED
  BY <1>1, <1>2, <1>3, <1>4, <1>5, <1>6, <1>7 DEF Next

LEMMA StoredInvHolds == Spec => []StoredInv
<1>1. Init => StoredInv
  BY InitIsHV
<1>2. StoredInv /\ [Next]_svars => StoredInv'
  BY StepIsHV
<1> QED
  BY <1>1, <1>2, PTL DEF Spec

\* No setter writes beside its field: version, bump, index and the reserved
\* bytes of both accounts are as initialization left them
\* (core/src/state.rs, core/src/recovery.rs).
THEOREM NoSetterWritesBeside == Spec => []HeadersAreKept
<1>1. StoredInv => HeadersAreKept
  <2> SUFFICES ASSUME StoredInv PROVE HeadersAreKept
    OBVIOUS
  <2>1. ASSUME account # <<>>
        PROVE  /\ Len(account) = ACCOUNT_DATA_LEN
               /\ flags(account) <= FLAG_RECOVERY_ENABLED + FLAG_FALCON_THRESHOLD_SET
    <3>1. AccountOK(account)
      BY <2>1 DEF StoredInv
    <3>2. account \in Array(ACCOUNT_DATA_LEN) /\ ACCOUNT_DATA_LEN \in Nat
      BY <3>1, FieldFits DEF AccountOK, AccountData, Fields
    <3>3. Len(account) = ACCOUNT_DATA_LEN
      BY <3>2 DEF Array
    <3>4. flags(account) \in 0..3
      BY <3>1, Accessors DEF AccountOK
    <3> QED
      BY <3>3, <3>4 DEF FLAG_RECOVERY_ENABLED, FLAG_FALCON_THRESHOLD_SET
  <2>2. ASSUME config # <<>>
        PROVE  Len(config) = RECOVERY_CONFIG_LEN
    <3>1. config \in Array(RECOVERY_CONFIG_LEN) /\ RECOVERY_CONFIG_LEN \in Nat
      BY <2>2, ConfigFieldFits DEF StoredInv, ConfigOK, ConfigData, ConfigFields
    <3> QED
      BY <3>1 DEF Array
  <2> QED
    BY <2>1, <2>2 DEF HeadersAreKept, StoredInv, AccountOK, ConfigOK
<1> QED
  BY <1>1, StoredInvHolds, PTL

\* The instructions over the bytes are a behaviour of HybridVault: what holds of
\* its fields holds of the accounts as they are stored (the handlers of execute.rs,
\* rotate.rs, policy_change.rs, recover.rs and social_recovery.rs).
THEOREM BytesImplementVault == Spec => ImplementsVault
<1>1. Init => HV!Init
  BY InitIsHV
<1>2. StoredInv /\ [Next]_svars => [HV!Next]_HV!vars
  BY StepIsHV
<1> QED
  BY <1>1, <1>2, StoredInvHolds, PTL DEF Spec, ImplementsVault, HV!Spec
============================================================================
