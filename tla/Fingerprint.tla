----------------------------- MODULE Fingerprint ----------------------------
(***************************************************************************)
(* The codes by which clients report the configuration they resolved       *)
(* (lib/fingerprint.ts).  A byte is its 8 bits, most significant first,    *)
(* and a hexadecimal digit its 4 bits.                                     *)
(***************************************************************************)
EXTENDS Evaluation

FingerprintFormat == 1

\* value >> n
Shifted(value, n) ==
  LET shifted[k \in 0 .. n] == IF k = 0 THEN value ELSE shifted[k - 1] \div 2
  IN  shifted[n]

\* Slip: one bit too few for a count that is no power of two.
FloorWidth(count) == IF count <= 1 THEN 0 ELSE Min({w \in 1 .. count : Shifted(count, w) = 1})

\* As many bits as count - 1 has.
BitWidth(count) == IF count <= 1 THEN 0 ELSE Min({w \in 1 .. count : Shifted(count - 1, w) = 0})

Write(value, width) == [i \in 1 .. width |-> Shifted(value, width - i) % 2]

Read(bits) ==
  LET read[n \in 0 .. Len(bits)] == IF n = 0 THEN 0 ELSE 2 * read[n - 1] + bits[n]
  IN  read[Len(bits)]

Zeros(n) == [i \in 1 .. n |-> 0]

\* Consecutive pieces of n bits, the last one padded with zeros.
Pieces(bits, n) ==
  LET count == (Len(bits) + n - 1) \div n
      padded == bits \o Zeros(n * count - Len(bits))
  IN  [i \in 1 .. count |-> SubSeq(padded, n * (i - 1) + 1, n * i)]

\* The bits of pieces of n bits.
Bits(pieces, n) ==
  [i \in 1 .. n * Len(pieces) |-> pieces[(i - 1) \div n + 1][((i - 1) % n) + 1]]

Xor(a, b) == [i \in DOMAIN a |-> (a[i] + b[i]) % 2]

Shift(crc) == Append(Tail(crc), 0)

\* Slip: the bits shifted out are dropped.
ShiftOut == [byte \in [1 .. 8 -> {0, 1}] |-> Zeros(8)]

\* Shifting and reducing by the polynomial 0x07.
Round(crc) == IF crc[1] = 1 THEN Xor(Shift(crc), Write(7, 8)) ELSE Shift(crc)

\* What eight rounds make of a byte.
Reduce ==
  [byte \in [1 .. 8 -> {0, 1}] |->
     LET crc[i \in 0 .. 8] == IF i = 0 THEN byte ELSE Round(crc[i - 1])
     IN  crc[8]]

Crc8(bytes) ==
  LET crc[i \in 0 .. Len(bytes)] ==
        IF i = 0 THEN Zeros(8) ELSE Reduce[Xor(crc[i - 1], bytes[i])]
  IN  crc[Len(bytes)]

\* The paths of a variant.
Paths(config, v) ==
  CASE v.type = "conditional" -> <<[value |-> v.value, reason |-> <<"conditional", v.order>>]>>
    [] v.type = "rollout" -> <<[value |-> v.value, reason |-> <<"rollout", v.rollout>>]>>
    [] v.type = "test" ->
         LET groups == config.tests[v.test].groups
         IN  [i \in DOMAIN groups |->
                [value |-> IF groups[i].name \in DOMAIN v.values
                           THEN v.values[groups[i].name] ELSE Null,
                 reason |-> <<"test", v.test, groups[i].name>>]]

EnumeratePaths(config, flag, env) ==
  LET variants == SortByOrder(flag.envs[env].variants)
  IN  <<[value |-> flag.envs[env].default, reason |-> <<"default">>]>>
      \o FlattenSeq([i \in DOMAIN variants |-> Paths(config, variants[i])])

SortedFlagKeys(config) == InOrder(FlagOrder, DOMAIN config.flags)

SelectorWidth(config, f, env) ==
  BitWidth(Len(EnumeratePaths(config, config.flags[f], env)))

EncodeFingerprint(version, config, env, selections) ==
  LET keys == SortedFlagKeys(config)
      selectors == [i \in DOMAIN keys |->
                      Write(selections[keys[i]], SelectorWidth(config, keys[i], env))]
      header == Write(FingerprintFormat, 4)
                \o Write((CHOOSE i \in 1 .. 3 : EnvNames[i] = env) - 1, 2)
      payload == Pieces(header \o FlattenSeq(selectors), 8)
  IN  [version |-> version,
       hex |-> Pieces(Bits(payload, 8) \o Crc8(payload), 4)]

\* Why a code is rejected.
Errors == {"malformed", "too short", "checksum", "format", "environment", "shorter",
           "selector", "longer"}

ASSUME ErrorsAssumption == Null \notin Errors

DecodeFingerprint(config, hex) ==
  LET bytes == Pieces(Bits(hex, 4), 8)
      payload == Front(bytes)
      bits == Bits(payload, 8)
      env == EnvNames[Read(SubSeq(bits, 5, 6)) + 1]
      keys == SortedFlagKeys(config)
      \* Where the selector of the i-th flag starts, less one.
      widths == [i \in DOMAIN keys |-> SelectorWidth(config, keys[i], env)]
      start(i) == 6 + Sums(widths)[i - 1]
      end == start(Len(keys) + 1)
      path(i) == Read(SubSeq(bits, start(i) + 1, start(i + 1))) + 1
      paths(i) == EnumeratePaths(config, config.flags[keys[i]], env)
      Rejected(error) == [error |-> error, env |-> Null, flags |-> <<>>]
  IN  CASE Len(hex) % 2 # 0 -> Rejected("malformed")
        [] Len(hex) % 2 = 0 /\ Len(bytes) < 2 -> Rejected("too short")
        [] OTHER ->
             IF Crc8(payload) # Last(bytes) THEN Rejected("checksum")
             ELSE IF Read(SubSeq(bits, 1, 4)) # FingerprintFormat THEN Rejected("format")
             ELSE IF Read(SubSeq(bits, 5, 6)) > 2 THEN Rejected("environment")
             ELSE IF end > Len(bits) THEN Rejected("shorter")
             ELSE IF \E i \in DOMAIN keys : path(i) > Len(paths(i)) THEN Rejected("selector")
             ELSE IF Len(bits) - end >= 8 THEN Rejected("longer")
             ELSE [error |-> Null, env |-> env,
                   flags |-> [f \in DOMAIN config.flags |->
                                LET i == CHOOSE j \in DOMAIN keys : keys[j] = f
                                IN  paths(i)[path(i)]]]

=============================================================================
