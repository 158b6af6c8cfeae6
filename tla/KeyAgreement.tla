----------------------------- MODULE KeyAgreement -----------------------------
(***************************************************************************)
(* The handshakes of torpy/keyagreement.py, with torpy/crypto.py's kdf_tor  *)
(* and the keys a CircuitNode takes from them.                              *)
(*                                                                         *)
(* Terms stand for bytes: a Diffie-Hellman key pair is one name, used for   *)
(* its private and its public half; a hash is a tagged tuple, so two hashes *)
(* are equal only if what was hashed is.  What a relay answers (Reply) is   *)
(* taken from what the client checks.                                       *)
(***************************************************************************)
EXTENDS Naturals, Sequences

(* g^xy, which either side computes from its own half and the other's.      *)
Shared(x, y) == {x, y}

KeyAgreementError == <<"KeyAgreementError">>

(* kdf_tor: the hash that authenticates the answer, and the key material.   *)
KdfTor(secret) == [auth |-> <<"sha1", secret>>, material |-> <<"kdf", secret>>]

(* Mutant: the hash is not compared. *)
CheckedNot(auth, computed, material) == material

(* complete_handshake: the keys, or the error when the hashes differ.       *)
Checked(auth, computed, material) ==
  IF auth = computed THEN material ELSE KeyAgreementError

-----------------------------------------------------------------------------
(* TAP, of an introduction *)

TapComplete(x, answer) ==
  LET kdf == KdfTor(Shared(x, answer.key))
  IN Checked(answer.auth, kdf.auth, kdf.material)

(* What the other side answers to g^x with its own g^y.                      *)
TapReply(x, y) == [key |-> y, auth |-> KdfTor(Shared(x, y)).auth]

-----------------------------------------------------------------------------
(* ntor, of every other hop: relay is [id, onion] *)

(***************************************************************************)
(* secret_input and the two hashes of it; x and y are the temporary keys.   *)
(* The client computes g^xy and g^xB with x, the relay with y and b: the    *)
(* terms are the same if they are about the same keys.                      *)
(***************************************************************************)
NtorSecret(x, y, id, onion) ==
  <<Shared(x, y), Shared(x, onion), id, onion, x, y>>

NtorAuth(x, y, id, onion) ==
  <<"mac", <<"verify", NtorSecret(x, y, id, onion)>>, id, onion, y, x>>

(* handshake: NODEID, KEYID and X. *)
NtorSkin(router, x) == [id |-> router.id, onion |-> router.onion, key |-> x]

NtorComplete(router, x, answer) ==
  Checked(answer.auth, NtorAuth(x, answer.key, router.id, router.onion),
          <<"hkdf", NtorSecret(x, answer.key, router.id, router.onion)>>)

(* What the relay answers to a skin, with the onion key it has now. *)
NtorReply(skin, y, onion) ==
  [key |-> y, auth |-> NtorAuth(skin.key, y, skin.id, onion)]
=============================================================================
