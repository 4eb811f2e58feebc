------------------------------ MODULE UrekaWire ------------------------------
(***************************************************************************)
(* The texts of messages, and of what a controller would store. A message  *)
(* is written field by field into a JSON object, the empty fields left     *)
(* out, and read back into a new object; what is hashed into an id and what*)
(* is signed is that text too. The modules of the protocol hold messages as*)
(* records and take the id of a ticket for its content: the theorems say   *)
(* why they may.                                                           *)
(*                                                                         *)
(* An object is a function from the names of its fields; a JSON object is  *)
(* one from the names that occur in it.                                    *)
(***************************************************************************)
EXTENDS Integers, TLAPS

Unset == ""
Version == "UREKA-1.0"

(***************************************************************************)
(* The fields. The order is a number, which is never left out.             *)
(***************************************************************************)
UTicketFields ==
  {"protocol_version", "u_ticket_id", "u_ticket_type", "device_id", "ticket_order", "holder_id",
   "task_scope", "issuer_signature", "associated_plaintext_cmd", "ciphertext_cmd",
   "gcm_authentication_tag_cmd", "iv_data"}

RTicketFields ==
  {"protocol_version", "r_ticket_id", "r_ticket_type", "device_id", "result", "ticket_order",
   "audit_start", "audit_end", "challenge_1", "challenge_2", "key_exchange_salt_1",
   "key_exchange_salt_2", "associated_plaintext_cmd", "ciphertext_cmd", "iv_cmd",
   "gcm_authentication_tag_cmd", "associated_plaintext_data", "ciphertext_data", "iv_data",
   "gcm_authentication_tag_data", "device_signature"}

SessionFields ==
  {"current_u_ticket_id", "current_device_id", "current_holder_id", "current_task_scope",
   "challenge_1", "challenge_2", "key_exchange_salt_1", "key_exchange_salt_2",
   "current_session_key_str", "plaintext_cmd", "associated_plaintext_cmd", "iv_cmd",
   "ciphertext_cmd", "gcm_authentication_tag_cmd", "plaintext_data", "associated_plaintext_data",
   "iv_data", "ciphertext_data", "gcm_authentication_tag_data"}

RowTicketFields ==
  {"device_u_ticket_for_owner", "device_ownership_u_ticket_for_others",
   "device_access_u_ticket_for_others", "device_r_ticket_for_owner",
   "device_ownership_r_ticket_for_others", "device_access_end_r_ticket_for_others"}
RowFields == {"device_id", "ticket_order"} \cup RowTicketFields

MessageFields == {"message_operation", "message_type", "message_str"}

(***************************************************************************)
(* Writing and reading.                                                    *)
(***************************************************************************)
(* Of the fields in "written" those that are numbers or not empty.         *)
Dump(o, written) ==
  [f \in {g \in written : g = "ticket_order" \/ o[g] # Unset} |-> o[f]]

(* What occurs replaces what a new object holds. *)
Load(j, new) == [f \in DOMAIN new |-> IF f \in DOMAIN j THEN j[f] ELSE new[f]]

(* A new object holds what happened to be in memory for the order n. *)
New(fields, n) ==
  [f \in fields |-> CASE f = "ticket_order"     -> n
                      [] f = "protocol_version" -> Version
                      [] OTHER                  -> Unset]

UTicketText(u) == Dump(u, UTicketFields)
UTicketOfText(j, n) == Load(j, New(UTicketFields, n))

RTicketText(r) == Dump(r, RTicketFields)
RTicketOfText(j, n) == Load(j, New(RTicketFields, n))

MessageText(m) == Dump(m, MessageFields)
MessageOfText(j) == Load(j, New(MessageFields, 0))

(* The text of the id of a u-ticket. *)
IdText(u) == UTicketText([u EXCEPT !["u_ticket_id"] = Unset, !["issuer_signature"] = Unset])

(* The tag of the data is read, but not written. *)
SessionText(s) == Dump(s, SessionFields \ {"gcm_authentication_tag_data"})
SessionOfText(j) == Load(j, New(SessionFields, 0))

(* Rows of the device table are written without their tickets, and read    *)
(* with all of them: a name that does not occur makes the reader throw.    *)
RowText(row) == [f \in RowFields \ RowTicketFields |-> row[f]]
RowCanBeRead(j) == RowFields \subseteq DOMAIN j

(***************************************************************************)
(* What reading makes of what was written.                                 *)
(***************************************************************************)
LEMMA LoadsWhatWasDumped ==
  ASSUME NEW fields, NEW written \in SUBSET fields, NEW o, DOMAIN o = fields,
         NEW n, NEW f \in fields
  PROVE  Load(Dump(o, written), New(fields, n))[f] =
           IF f \in written /\ (f = "ticket_order" \/ o[f] # Unset)
           THEN o[f] ELSE New(fields, n)[f]
BY DEF Load, Dump, New

LEMMA Survives ==
  ASSUME NEW fields, NEW Values, NEW o \in [fields -> Values], NEW n,
         "protocol_version" \in fields => o["protocol_version"] # Unset
  PROVE  Load(Dump(o, fields), New(fields, n)) = o
<1> DEFINE v == Load(Dump(o, fields), New(fields, n))
<1>1. ASSUME NEW f \in fields
      PROVE  v[f] = o[f]
  <2>1. v[f] = IF f = "ticket_order" \/ o[f] # Unset THEN o[f] ELSE New(fields, n)[f]
    BY LoadsWhatWasDumped
  <2>2. f \notin {"ticket_order", "protocol_version"} => New(fields, n)[f] = Unset
    BY DEF New
  <2> QED
    BY <2>1, <2>2
<1>2. v = [f \in fields |-> v[f]]
  BY DEF Load, New
<1> HIDE DEF v
<1> QED
  BY <1>1, <1>2 DEF v

(* A ticket comes back as it was sent, whatever was in the receiver's      *)
(* memory, provided that it names a protocol version, as all that the      *)
(* generators make do: the records of UrekaTickets stand for such tickets. *)
THEOREM UTicketSurvives ==
  ASSUME NEW Values, NEW u \in [UTicketFields -> Values], u["protocol_version"] # Unset, NEW n
  PROVE  UTicketOfText(UTicketText(u), n) = u
BY Survives DEF UTicketOfText, UTicketText

(* The same of r-tickets.                                                  *)
THEOREM RTicketSurvives ==
  ASSUME NEW Values, NEW r \in [RTicketFields -> Values], r["protocol_version"] # Unset, NEW n
  PROVE  RTicketOfText(RTicketText(r), n) = r
BY Survives DEF RTicketOfText, RTicketText

(* And of the message around a ticket, which needs no version.             *)
THEOREM MessageSurvives ==
  ASSUME NEW Values, NEW m \in [MessageFields -> Values]
  PROVE  MessageOfText(MessageText(m)) = m
BY Survives DEF MessageOfText, MessageText, MessageFields

(* Two u-tickets with the same text of their ids agree in every field but  *)
(* the id and the signature: an id that is the hash of that text stands for*)
(* the content of one ticket, which is what audit_start of a receipt is    *)
(* compared for.                                                           *)
THEOREM IdIsContent ==
  ASSUME NEW Values, NEW u \in [UTicketFields -> Values], NEW v \in [UTicketFields -> Values],
         u["protocol_version"] # Unset, v["protocol_version"] # Unset, IdText(u) = IdText(v)
  PROVE  \A f \in UTicketFields \ {"u_ticket_id", "issuer_signature"} : u[f] = v[f]
<1> DEFINE Bare(w) == [w EXCEPT !["u_ticket_id"] = Unset, !["issuer_signature"] = Unset]
<1>1. \A w \in [UTicketFields -> Values] :
        /\ Bare(w) \in [UTicketFields -> Values \cup {Unset}]
        /\ \A f \in UTicketFields \ {"u_ticket_id", "issuer_signature"} : Bare(w)[f] = w[f]
  OBVIOUS
<1>2. Bare(u)["protocol_version"] # Unset /\ Bare(v)["protocol_version"] # Unset
  BY <1>1 DEF UTicketFields
<1>3. UTicketText(Bare(u)) = UTicketText(Bare(v))
  BY DEF IdText
<1> HIDE DEF Bare
<1>4. \A w \in [UTicketFields -> Values \cup {Unset}] :
        w["protocol_version"] # Unset => UTicketOfText(UTicketText(w), 0) = w
  BY UTicketSurvives
<1>5. Bare(u) = Bare(v)
  BY <1>1, <1>2, <1>3, <1>4
<1> QED
  BY <1>1, <1>5

(* A session that is written and read back has all but the tag of the data.*)
THEOREM SessionLosesTag ==
  ASSUME NEW Values, NEW s \in [SessionFields -> Values]
  PROVE  SessionOfText(SessionText(s)) = [s EXCEPT !["gcm_authentication_tag_data"] = Unset]
<1> DEFINE t == SessionOfText(SessionText(s))
<1> DEFINE e == [s EXCEPT !["gcm_authentication_tag_data"] = Unset]
<1>1. ASSUME NEW f \in SessionFields
      PROVE  t[f] = e[f]
  <2>1. t[f] = IF f # "gcm_authentication_tag_data" /\ (f = "ticket_order" \/ s[f] # Unset)
               THEN s[f] ELSE New(SessionFields, 0)[f]
    BY LoadsWhatWasDumped DEF SessionOfText, SessionText
  <2>2. f # "ticket_order" /\ New(SessionFields, 0)[f] = Unset
    BY DEF New, SessionFields
  <2>3. e[f] = IF f = "gcm_authentication_tag_data" THEN Unset ELSE s[f]
    OBVIOUS
  <2> HIDE DEF t, e
  <2> QED
    BY <2>1, <2>2, <2>3
<1>2. t = [f \in SessionFields |-> t[f]] /\ e = [f \in SessionFields |-> e[f]]
  BY DEF SessionOfText, Load, New
<1> HIDE DEF t, e
<1> QED
  BY <1>1, <1>2 DEF t, e

(* No row that was written can be read.                                    *)
THEOREM RowsCannotBeRead ==
  ASSUME NEW row
  PROVE  ~ RowCanBeRead(RowText(row))
BY DEF RowCanBeRead, RowText, RowFields, RowTicketFields
=============================================================================
