--------------------------- MODULE ChainSpecConvert --------------------------
(***************************************************************************)
(* puppeth's conversion of a go-btpereum genesis configuration into the    *)
(* chain specs of Parity (newParityChainSpec) and Aleth                    *)
(* (newAlbtpGenesisSpec), restricted to what decides consensus: the block  *)
(* at which each rule change takes effect, the block reward schedule and   *)
(* the precompiled contracts. Each conversion is an operator; the module's *)
(* one step converts a configuration into both specs.                      *)
(*                                                                         *)
(* A go-btpereum fork block is Nil (never) or a number. A spec transition  *)
(* is a hexutil.Uint64 field: it has no nil, and a field the converter     *)
(* does not set is written as its zero value "0x0", i.e. block 0.          *)
(***************************************************************************)
EXTENDS Naturals, SequencesExt, TLC

CONSTANTS
    Nil,        \* a fork the configuration leaves unset
    Configs,    \* the genesis configurations converted
    Nonces,     \* genesis nonces (uint64)
    MaxNum      \* the blocks 0..MaxNum are compared

Forks == {"homestead", "eip150", "eip155", "eip158", "byzantium",
          "constantinople", "petersburg"}

\* The Parity transition fields newParityChainSpec and its setters assign.
TransFields == {"homestead", "eip150", "eip155", "eip160", "eip161abc",
                "eip161d", "maxCodeSize", "eip98", "eip100b", "eip140",
                "eip211", "eip214", "eip658", "eip145", "eip1014", "eip1052",
                "eip1283", "eip1283Disable"}

\* The Aleth fork-block fields newAlbtpGenesisSpec assigns.
AlethFields == {"homestead", "eip150", "eip158", "byzantium", "constantinople"}

\* math.MaxInt64, the EIP-98 transition: beyond every compared block.
Never == MaxNum + 1

Blocks == 0..MaxNum

\* The block rewards (btpash.FrontierBlockReward, ByzantiumBlockReward,
\* ConstantinopleBlockReward) in whole coins.
FrontierReward == 5
ByzantiumReward == 3
ConstantinopleReward == 2

\* The difficulty bomb delays Parity's setters write, in millions of
\* blocks; go-btpereum delays the bomb by 3M from Byzantium and by 5M in
\* all from Constantinople.
ByzantiumDelay == 3
ConstantinopleDelay == 2

-----------------------------------------------------------------------------
(* Encodings *)

\* The (hexutil.Uint64)(x.Uint64()) conversion of a fork block that is set.
U(x) == x

\* The n least significant bytes of x, least significant first.
RECURSIVE BytesLE(_, _)
BytesLE(x, n) == IF n = 0 THEN <<>> ELSE <<x % 256>> \o BytesLE(x \div 256, n - 1)

\* binary.LittleEndian.PutUint64 into the 8-byte nonce field.
PutUint64LE(x) == BytesLE(x, 8)

\* A setter writing key hexutil.EncodeBig(num) of a map: a later write to
\* the same block replaces an earlier one.
SetKey(m, k, v) == (k :> v) @@ m

\* setPrecompile: the account at the address gets the builtin, activated
\* at block `at` (0 when ActivateAt/StartingBlock is omitted); a later call
\* for the same address replaces it. Aleth's setPrecompile is the same.
SetPrecompile(b, a, at) == (a :> at) @@ b

-----------------------------------------------------------------------------
(* newParityChainSpec *)

\* setByzantium: block reward and difficulty bomb delay at the fork block,
\* and the Byzantium transitions.
ParitySetByzantium(spec, n) ==
    [spec EXCEPT !.reward = SetKey(@, n, ByzantiumReward),
                 !.delays = SetKey(@, n, ByzantiumDelay),
                 !.trans = [@ EXCEPT !["eip100b"] = n, !["eip140"] = n,
                                     !["eip211"] = n, !["eip214"] = n,
                                     !["eip658"] = n]]

ParitySetConstantinople(spec, n) ==
    [spec EXCEPT !.reward = SetKey(@, n, ConstantinopleReward),
                 !.delays = SetKey(@, n, ConstantinopleDelay),
                 !.trans = [@ EXCEPT !["eip145"] = n, !["eip1014"] = n,
                                     !["eip1052"] = n, !["eip1283"] = n]]

ParitySetConstantinopleFix(spec, n) ==
    [spec EXCEPT !.trans = [@ EXCEPT !["eip1283Disable"] = n]]

\* The fields set before the forks: every transition has its zero value,
\* Homestead .. Spurious Dragon are converted, "0x0" pays the Frontier
\* reward; MaxCodeSizeTransition and EIP98Transition are set after.
ParityBase(cfg) ==
    [trans |-> [[f \in TransFields |-> 0] EXCEPT
                  !["homestead"] = U(cfg["homestead"]),
                  !["eip150"] = U(cfg["eip150"]),
                  !["eip155"] = U(cfg["eip155"]),
                  !["eip160"] = U(cfg["eip155"]),
                  !["eip161abc"] = U(cfg["eip158"]),
                  !["eip161d"] = U(cfg["eip158"])],
     reward |-> 0 :> FrontierReward,
     delays |-> <<>>, builtin |-> <<>>, nonce |-> <<>>]

\* The builtins 1..4 from genesis, 5..8 from Byzantium when it is set.
BuiltinsUnguarded(cfg) ==
    LET early == [a \in 1..4 |-> 0]
        at == IF cfg["byzantium"] = Nil THEN 0 ELSE cfg["byzantium"]
    IN SetPrecompile(SetPrecompile(SetPrecompile(SetPrecompile(early, 5, at), 6, at), 7, at), 8, at)

Builtins(cfg) ==
    LET early == [a \in 1..4 |-> 0]
        n == cfg["byzantium"]
    IN IF n = Nil THEN early
       ELSE SetPrecompile(SetPrecompile(SetPrecompile(SetPrecompile(early, 5, n), 6, n), 7, n), 8, n)

newParityChainSpecConstFirst(cfg, nonce) ==
    LET s0 == ParityBase(cfg)
        s1 == IF cfg["constantinople"] = Nil THEN s0
              ELSE ParitySetConstantinople(s0, cfg["constantinople"])
        s2 == IF cfg["byzantium"] = Nil THEN s1
              ELSE ParitySetByzantium(s1, cfg["byzantium"])
        s3 == IF cfg["petersburg"] = Nil THEN s2
              ELSE ParitySetConstantinopleFix(s2, cfg["petersburg"])
    IN [s3 EXCEPT !.trans = [@ EXCEPT !["maxCodeSize"] = 0, !["eip98"] = Never],
                  !.builtin = Builtins(cfg), !.nonce = PutUint64LE(nonce)]

newParityChainSpec(cfg, nonce) ==
    LET s0 == ParityBase(cfg)
        s1 == IF cfg["byzantium"] = Nil THEN s0
              ELSE ParitySetByzantium(s0, cfg["byzantium"])
        s2 == IF cfg["constantinople"] = Nil THEN s1
              ELSE ParitySetConstantinople(s1, cfg["constantinople"])
        s3 == IF cfg["petersburg"] = Nil THEN s2
              ELSE ParitySetConstantinopleFix(s2, cfg["petersburg"])
    IN [s3 EXCEPT !.trans = [@ EXCEPT !["maxCodeSize"] = 0, !["eip98"] = Never],
                  !.builtin = Builtins(cfg), !.nonce = PutUint64LE(nonce)]

-----------------------------------------------------------------------------
(* newAlbtpGenesisSpec and newPybtpereumGenesisSpec *)

AlethSetByzantium(forks, n) == [forks EXCEPT !["byzantium"] = n]

AlethSetConstantinople(forks, n) == [forks EXCEPT !["constantinople"] = n]

\* spec.Params fork blocks: zero values, Homestead, EIP150 and EIP158
\* converted, then setByzantium and setConstantinople for the forks set.
AlethForkBlocks(cfg) ==
    LET f0 == [[f \in AlethFields |-> 0] EXCEPT
                 !["homestead"] = U(cfg["homestead"]),
                 !["eip150"] = U(cfg["eip150"]),
                 !["eip158"] = U(cfg["eip158"])]
        f1 == IF cfg["byzantium"] = Nil THEN f0
              ELSE AlethSetByzantium(f0, cfg["byzantium"])
    IN IF cfg["constantinople"] = Nil THEN f1
       ELSE AlethSetConstantinople(f1, cfg["constantinople"])

newAlbtpGenesisSpec(cfg, nonce) ==
    [forks |-> AlethForkBlocks(cfg), builtin |-> Builtins(cfg),
     nonce |-> PutUint64LE(nonce)]

\* pyethereum has no fork or builtin fields: only the genesis block.
newPybtpereumGenesisSpec(cfg, nonce) == [nonce |-> PutUint64LE(nonce)]

-----------------------------------------------------------------------------
(* go-btpereum's own rules (params.ChainConfig.IsX, the btpash reward and *)
(* bomb delay), and how the target clients read the converted specs.     *)

\* isForked: a fork that is set is active from its block on.
IsForked(cfg, f, n) == cfg[f] # Nil /\ cfg[f] <= n

GethReward(cfg, n) ==
    IF IsForked(cfg, "constantinople", n) THEN ConstantinopleReward
    ELSE IF IsForked(cfg, "byzantium", n) THEN ByzantiumReward
    ELSE FrontierReward

GethPrecompile(cfg, a, n) == a <= 4 \/ IsForked(cfg, "byzantium", n)

\* The bomb delay btpash's difficulty calculator applies at block n.
GethDelay(cfg, n) ==
    IF IsForked(cfg, "constantinople", n) THEN ByzantiumDelay + ConstantinopleDelay
    ELSE IF IsForked(cfg, "byzantium", n) THEN ByzantiumDelay
    ELSE 0

\* The reward of the greatest BlockReward key at or below n.
RewardAt(r, n) == r[Max({k \in DOMAIN r : k <= n})]

BuiltinActive(b, a, n) == a \in DOMAIN b /\ b[a] <= n

\* Parity subtracts every difficultyBombDelays entry at or below n.
ParityDelayAt(d, n) == SumFunctionOnSet(d, {k \in DOMAIN d : k <= n})

-----------------------------------------------------------------------------
VARIABLES
    config,     \* the genesis configuration being exported
    nonce,      \* the genesis block's nonce
    out         \* the specs exported so far, by format

vars == <<config, nonce, out>>

Init ==
    /\ config \in Configs
    /\ nonce \in Nonces
    /\ out = <<>>

\* puppeth's "export Parity chain spec".
ConvertParity ==
    /\ "parity" \notin DOMAIN out
    /\ out' = ("parity" :> newParityChainSpec(config, nonce)) @@ out
    /\ UNCHANGED <<config, nonce>>

\* puppeth's "export Aleth chain spec".
ConvertAleth ==
    /\ "aleth" \notin DOMAIN out
    /\ out' = ("aleth" :> newAlbtpGenesisSpec(config, nonce)) @@ out
    /\ UNCHANGED <<config, nonce>>

\* puppeth's "export pyethereum genesis".
ConvertPy ==
    /\ "py" \notin DOMAIN out
    /\ out' = ("py" :> newPybtpereumGenesisSpec(config, nonce)) @@ out
    /\ UNCHANGED <<config, nonce>>

Next == ConvertParity \/ ConvertAleth \/ ConvertPy

Spec == Init /\ [][Next]_vars

-----------------------------------------------------------------------------
(* Properties *)

\* The Parity block reward schedule pays, at every block, what btpash pays
\* under the original configuration, also when Byzantium and Constantinople
\* share a block and write the same BlockReward key.
RewardFaithful ==
    "parity" \in DOMAIN out =>
        \A n \in Blocks : RewardAt(out["parity"].reward, n) = GethReward(config, n)

\* Both converted specs make each precompiled contract available from
\* exactly the block go-btpereum does.
PrecompilesFaithful ==
    \A f \in DOMAIN out \ {"py"}, a \in 1..8, n \in Blocks :
        BuiltinActive(out[f].builtin, a, n) <=> GethPrecompile(config, a, n)

\* The go-btpereum fork each Parity transition stands for, as the
\* converter's comments group them: EIP-170's code size limit is part of
\* Spurious Dragon, and the EIP-1283 disable is Petersburg. EIP-98 is left
\* out: neither client ever enables it.
TransFork ==
    [f \in {"homestead", "eip150", "eip155"} |-> f] @@
    [eip160 |-> "eip155", eip161abc |-> "eip158", eip161d |-> "eip158",
     maxCodeSize |-> "eip158", eip1283Disable |-> "petersburg"] @@
    [f \in {"eip100b", "eip140", "eip211", "eip214", "eip658"} |-> "byzantium"] @@
    [f \in {"eip145", "eip1014", "eip1052", "eip1283"} |-> "constantinople"]

\* The fork schedule of both converted specs is go-btpereum's at every
\* block: each Parity transition and Aleth fork block enables its rules
\* from exactly the block go-btpereum does, a fork the configuration leaves
\* unset included, and the difficulty bomb the Parity spec delays is
\* go-btpereum's, also when Byzantium and Constantinople share a block and
\* their setters write the same difficultyBombDelays key.
ForkRulesFaithful ==
    \A n \in Blocks :
        /\ "parity" \in DOMAIN out =>
               /\ \A t \in DOMAIN TransFork :
                      out["parity"].trans[t] <= n <=> IsForked(config, TransFork[t], n)
               /\ ParityDelayAt(out["parity"].delays, n) = GethDelay(config, n)
        /\ "aleth" \in DOMAIN out =>
               \A f \in AlethFields : out["aleth"].forks[f] <= n <=> IsForked(config, f, n)
==============================================================================
