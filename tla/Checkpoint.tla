------------------------------ MODULE Checkpoint ------------------------------
(***************************************************************************)
(* Signed checkpoints as tlogsearch.py and verify_receipt.py judge them.   *)
(*                                                                         *)
(* A signature line carries a name, a key id and a signature; whether the  *)
(* signature verifies under the key of that name and id, over this very    *)
(* checkpoint, is the line's field "valid" (ed25519.checkvalid).  A key id *)
(* is derived from the key, so a name and an id determine the public key.  *)
(***************************************************************************)
EXTENDS Integers, FiniteSets, Sequences

CONSTANTS Witnesses, KeyIds,
          LogName, LogKeyId,    \* origin of the log and the id of its key
          NotStated             \* the quorum of a trust root that states none

ASSUME CheckpointAssumption == NotStated \notin Int /\ LogName \notin Witnesses

Vkey == [name : Witnesses, kid : KeyIds]

\* parse_checkpoint keeps lines of every length; 68 bytes make a log signature
\* and 76 a cosignature.
Line == [kind : {"log", "cosignature"}, name : Witnesses \cup {LogName},
         kid : KeyIds \cup {LogKeyId}, valid : BOOLEAN]

\* A trust root that cannot be read states no quorum and names no key.
TrustRoot == [quorum : Nat \cup {NotStated}, vkeys : SUBSET Vkey]

\* log_kid is the key id log_vkey.txt gives; a name in it is not looked at.
LogSigned(sigs, log_kid) ==
  \E i \in DOMAIN sigs :
    /\ sigs[i].kind = "log" /\ sigs[i].valid
    /\ sigs[i].name = LogName /\ sigs[i].kid = log_kid

KeyOfLine(line) == [name |-> line.name, kid |-> line.kid]

\* The lines that verify under one of the keys pinned.
Verified(sigs, pinned) ==
  {i \in DOMAIN sigs : /\ sigs[i].kind = "cosignature" /\ sigs[i].valid
                       /\ KeyOfLine(sigs[i]) \in pinned}

\* tlogsearch.verify_checkpoint: a key is pinned by witness_keys.json and its
\* name looked up in the trust root.
Rooted(tr) == {vk.name : vk \in tr.vkeys}

Counted(sigs, pinned, tr) == {i \in Verified(sigs, pinned) : sigs[i].name \in Rooted(tr)}

\* verify_receipt.main: the trust root both names and pins.
CountedByTrustRoot(sigs, tr) == Verified(sigs, tr.vkeys)
=============================================================================
