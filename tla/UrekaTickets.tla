---------------------------- MODULE UrekaTickets ----------------------------
(***************************************************************************)
(* The messages of UREKA and the pure checks on them: u-tickets (what a    *)
(* holder may ask of a device), r-tickets (what a device answers), session *)
(* keys and ciphertexts, the generators that fill a ticket in and the      *)
(* verifiers that accept or refuse one.                                    *)
(*                                                                         *)
(* Data abstractions:                                                      *)
(*   - a key pair is its owner: a person is the agent that holds her keys, *)
(*     a device id is the device, a signature is the signer;               *)
(*   - u_ticket_id is a hash of the ticket without its id and signature,   *)
(*     so the id IS that content (operator Id);                            *)
(*   - random salts and initialisation vectors are nonces; 0 is "" ;       *)
(*   - the session key is what ECDH derives it from, a ciphertext is the   *)
(*     key, iv and plaintext it was made from;                             *)
(*   - a task scope is the set of command texts it allows.                 *)
(***************************************************************************)
EXTENDS Naturals

CONSTANTS
  Devices,    \* controllers of type IOT_DEVICE
  Agents,     \* controllers of type USER_AGENT_OR_CLOUD_SERVER
  NoOne,      \* the empty person key ""
  NoId,       \* the device id "no_id" of a device that has no key yet
  Commands,   \* application commands a scope can name (HELLO-1, ...)
  NoCmd,      \* the empty command "", default argument of an application
  EndCmd,     \* the text "ACCESS_END"
  MaxNonce    \* bound on nonces in use at the same time

ASSUME PartiesAssumption ==
  /\ Devices \cap Agents = {}
  /\ NoOne \notin Devices \cup Agents
  /\ NoId \notin Devices \cup Agents
ASSUME TextsAssumption ==
  /\ NoCmd \notin Commands /\ EndCmd \notin Commands /\ NoCmd # EndCmd
ASSUME NonceAssumption == MaxNonce \in Nat

Controllers == Devices \cup Agents
Persons     == Agents \cup {NoOne}
DeviceIds   == Devices \cup {NoId}
Texts       == Commands \cup {NoCmd, EndCmd}
AllScope    == Texts            \* {"ALL": "allow"}
Nonces      == 1 .. MaxNonce

(***************************************************************************)
(* Types. A record stands for the C++ object; the default-constructed      *)
(* object, whose type string is empty, is NoUT or NoRT.                    *)
(***************************************************************************)
StoredUTypes == {"INITIALIZATION", "OWNERSHIP", "SELFACCESS", "ACCESS"}
TokenTypes   == {"CMD_UTOKEN", "ACCESS_END"}
UTypes       == StoredUTypes \cup TokenTypes
ReceiptTypes == {"INITIALIZATION", "OWNERSHIP", "ACCESS_END"}
CrKeTypes    == {"CR-KE-1", "CR-KE-2", "CR-KE-3"}
RTypes       == ReceiptTypes \cup CrKeTypes \cup {"DATA_RTOKEN"}

Key == [n1 : Nat, n2 : Nat, dev : Controllers \cup {NoId}, holder : Persons]
NoKey == [n1 |-> 0, n2 |-> 0, dev |-> NoId, holder |-> NoOne]

Cipher == [key : Key, iv : Nat, text : Texts]
NoCipher == [key |-> NoKey, iv |-> 0, text |-> NoCmd]

UTicket == [type : UTypes \cup {""}, dev : DeviceIds, order : Nat,
            holder : Persons, scope : SUBSET Texts, signer : Persons,
            cipher : Cipher, ivData : Nat]
NoUT == [type |-> "", dev |-> NoId, order |-> 0, holder |-> NoOne,
         scope |-> {}, signer |-> NoOne, cipher |-> NoCipher, ivData |-> 0]

RTicket == [type : RTypes \cup {""}, dev : Controllers \cup {NoId}, ok : BOOLEAN,
            order : Nat, start : UTicket, n1 : Nat, n2 : Nat,
            cipher : Cipher, iv : Nat, ivData : Nat, signer : Persons]
NoRT == [type |-> "", dev |-> NoId, ok |-> FALSE, order |-> 0, start |-> NoUT,
         n1 |-> 0, n2 |-> 0, cipher |-> NoCipher, iv |-> 0, ivData |-> 0,
         signer |-> NoOne]

(* The id of a u-ticket: its content without id and issuer signature. *)
Id(u) == [u EXCEPT !.signer = NoOne]

(***************************************************************************)
(* Cryptography.                                                           *)
(***************************************************************************)
(* Both salts (their bitwise and, taken to differ when a salt does) and    *)
(* both parties go into the key: the device side uses its private key and  *)
(* the holder's public one, the holder side the reverse.                   *)
SessionKey(salt1, salt2, dev, holder) ==
  [n1 |-> salt1, n2 |-> salt2, dev |-> dev, holder |-> holder]

Encrypt(text, key, iv) == [key |-> key, iv |-> iv, text |-> text]

(* Mutant: any ciphertext decrypts. *)
DecryptsUnauthenticated(c, key, iv) == c.text \in Texts /\ key # NoKey /\ iv # 0

(* GCM authenticates: another key or another iv makes decryption throw. *)
Decrypts(c, key, iv) == c.key = key /\ c.iv = iv

(***************************************************************************)
(* Generators (UTicketGenerator, RTicketGenerator). `ord' is the order the *)
(* generator looks up.                                                     *)
(***************************************************************************)
GenInitTicket(a) ==
  [NoUT EXCEPT !.type = "INITIALIZATION", !.holder = a]

GenTicket(type, d, ord, h, scope, a) ==
  [NoUT EXCEPT !.type = type, !.dev = d, !.order = ord, !.holder = h, !.scope = scope,
               !.signer = IF type \in {"OWNERSHIP", "ACCESS"} THEN a ELSE NoOne]

GenToken(type, d, ord, cipher, ivData) ==
  [NoUT EXCEPT !.type = type, !.dev = d, !.order = ord,
               !.cipher = cipher, !.ivData = ivData]

(* The answer of controller c that could not verify what it received. *)
GenFailure(type, c, ord) ==
  [NoRT EXCEPT !.type = type, !.dev = c, !.order = ord]

(* The receipt for an executed u-ticket. *)
GenReceipt(type, d, ord, start) ==
  [NoRT EXCEPT !.type = type, !.dev = d, !.ok = TRUE, !.order = ord, !.start = start]

(***************************************************************************)
(* UTicketVerifier: can the device d, with ticket order ord and owner own, *)
(* execute u? A device of order 0 has no key, so no ticket names it.       *)
(***************************************************************************)
VerifyUDeviceId(d, ord, u) ==
  IF u.type = "INITIALIZATION" THEN u.dev = NoId
                               ELSE u.type # "" /\ ord > 0 /\ u.dev = d

(* Mutant: older tickets stay valid. *)
VerifyUOrderAtMost(ord, u) ==
  IF u.type = "INITIALIZATION" THEN ord = 0 /\ u.order = 0 ELSE u.order =< ord

VerifyUOrder(ord, u) ==
  IF u.type = "INITIALIZATION" THEN ord = 0 /\ u.order = 0 ELSE u.order = ord

(* Mutant: an empty holder is not refused. *)
VerifyUHolderMaybeEmpty(own, u) == u.type = "SELFACCESS" => u.holder = own

VerifyUHolder(own, u) ==
  /\ u.type \in {"INITIALIZATION", "OWNERSHIP", "ACCESS"} => u.holder # NoOne
  /\ u.type = "SELFACCESS" => u.holder = own

VerifyUScope(u) == u.type = "SELFACCESS" => u.scope = AllScope

(* An empty plaintext encrypts to an empty ciphertext, which is refused. *)
VerifyUPs(u) == u.type \in TokenTypes => u.cipher.text # NoCmd

(* Mutant: a signature is as good as the owner's whoever made it. *)
VerifyUSignatureOfAnyone(own, u) == u.type \in {"OWNERSHIP", "ACCESS"} => u.signer # NoOne

VerifyUSignature(own, u) == u.type \in {"OWNERSHIP", "ACCESS"} => u.signer = own

VerifyCanExecute(d, ord, own, u) ==
  /\ VerifyUDeviceId(d, ord, u)
  /\ VerifyUOrder(ord, u)
  /\ VerifyUHolder(own, u)
  /\ VerifyUScope(u)
  /\ VerifyUPs(u)
  /\ VerifyUSignature(own, u)

(***************************************************************************)
(* RTicketVerifier: does r show that the ticket was executed? `start' is   *)
(* the audit-start ticket (NoUT if the caller passes an empty one), `ut'   *)
(* the ticket of the current session, `ord' the order of device r.dev in   *)
(* the verifier's table and `self' the verifier's own ticket order.        *)
(***************************************************************************)
VerifyRDeviceId(start, ut, r) ==
  /\ r.type # ""
  /\ r.type \in {"OWNERSHIP", "DATA_RTOKEN", "ACCESS_END"} => r.dev = start.dev
  /\ r.type \in CrKeTypes => r.dev = ut.dev

VerifyROrder(ord, self, r) ==
  CASE r.type = "INITIALIZATION"             -> r.order = 1
    [] r.type \in {"OWNERSHIP", "ACCESS_END"} -> r.order = ord + 1
    [] r.type = "CR-KE-2"                    -> r.order = self
    [] OTHER                                 -> r.order = ord

VerifyRAuditStart(start, ut, r) ==
  r.start = IF r.type \in CrKeTypes THEN ut ELSE Id(start)

(* The other emptiness checks of verify_cr_key and verify_ps hold of every *)
(* r-ticket whose result is a success.                                     *)
VerifyRPs(r) == r.type = "CR-KE-2" => r.cipher.text # NoCmd

(* Device signatures are genuine; a CR-KE-2 is signed by its holder. *)
VerifyRSignature(ut, r) == r.type = "CR-KE-2" => r.signer = ut.holder

VerifyHasExecuted(start, ut, ord, self, r) ==
  /\ VerifyRDeviceId(start, ut, r)
  /\ r.ok
  /\ VerifyROrder(ord, self, r)
  /\ VerifyRAuditStart(start, ut, r)
  /\ VerifyRPs(r)
  /\ VerifyRSignature(ut, r)
=============================================================================
