------------------------------- MODULE Keyring -------------------------------
(***************************************************************************)
(* src/keyring.rs: which two keys the service signs every response with.   *)
(* A key pair is determined by its suite and the bytes it is derived from, *)
(* so a public key is the pair of them.  Bytes are sequences of texts.     *)
(***************************************************************************)
CONSTANTS
  GoodSeeds,   \* operator seeds that decode to at least MIN_SEED_BYTES
  Unset        \* a variable that is not in the environment

\* The process environment: UNIDPP_TRUST_SIGN_SEED, ..._SIGN_SEED_P256 and the
\* development seed, trimmed, where "" stands for none.
Env(ed, p256, dev) == [ed |-> ed, p256 |-> p256, dev |-> dev]

\* What the two development keys are derived from.
DevSeed(seed) == IF seed = "" THEN "DEFAULT_DEV_SEED" ELSE seed
EdMaterial(seed)   == <<"unidpp-trust/sign-ed25519|", DevSeed(seed)>>
P256Material(seed) == <<"unidpp-trust/sign-ecdsa-p256|", DevSeed(seed)>>

\* Keyring::dev.
Dev(seed) ==
  [mode |-> "seeded-dev", ed |-> <<"ed25519", EdMaterial(seed)>>,
   p256 |-> <<"ecdsa-p256", P256Material(seed)>>]

\* Keyring::from_env_seeds, for two seeds that decode.
EnvKey(ed, p256) ==
  [mode |-> "env-key", ed |-> <<"ed25519", ed>>, p256 |-> <<"ecdsa-p256", p256>>]

\* Mutant: a role whose seed is missing or rejected, and only that role, falls
\* back to its development key.
FromEnvEach(env) ==
  [mode |-> IF {env.ed, env.p256} \subseteq GoodSeeds THEN "env-key"
            ELSE "seeded-dev",
   ed   |-> IF env.ed \in GoodSeeds THEN EnvKey(env.ed, Unset).ed
            ELSE Dev(env.dev).ed,
   p256 |-> IF env.p256 \in GoodSeeds THEN EnvKey(Unset, env.p256).p256
            ELSE Dev(env.dev).p256]

\* Keyring::from_env: both operator seeds, or development keys for both roles.
FromEnv(env) ==
  IF /\ Unset \notin {env.ed, env.p256}
     /\ {env.ed, env.p256} \subseteq GoodSeeds
  THEN EnvKey(env.ed, env.p256) ELSE Dev(env.dev)

\* Keyring::to_json: the anchors, and the warning of a development keyring.
KeyringView(k) ==
  [mode |-> k.mode, ed |-> k.ed, p256 |-> k.p256,
   warning |-> k.mode = "seeded-dev"]
=============================================================================
