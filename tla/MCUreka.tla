------------------------------- MODULE MCUreka -------------------------------
(***************************************************************************)
(* Small instances of Ureka for TLC.                                       *)
(***************************************************************************)
EXTENDS Ureka, TLC, SequencesExt

OnlyAll      == {AllScope}
AllOrNarrow  == {AllScope, {}}
CmdAndEnd    == Commands \cup {EndCmd}
OnlyNarrow   == {Commands}
AnyText      == Texts
OnlyEnd      == {EndCmd}
OnlyCommands == Commands

OwnershipTypes == {"INITIALIZATION", "OWNERSHIP"}
SelfTypes      == {"INITIALIZATION", "SELFACCESS"}
DelegateTypes  == {"INITIALIZATION", "ACCESS"}
SelfOwnTypes   == {"INITIALIZATION", "OWNERSHIP", "SELFACCESS"}

NoToken  == {}
CmdOnly  == {"CMD_UTOKEN"}
AnyToken == TokenTypes

AnyStored == StoredUTypes
AnyAgent  == Agents
NoDevice  == {}
AnyDevice == Devices

(* Agents that may all do the same are alike. *)
AgentSymmetry == Permutations(Agents)

(***************************************************************************)
(* Nonces are only compared for equality, so two states that differ in the *)
(* names of their nonces behave alike. The view is the state without its   *)
(* nonces, and for each place of a nonce the first place that has the same.*)
(***************************************************************************)
Parties == CHOOSE p \in [1 .. Cardinality(Controllers) -> Controllers] :
             \A i, j \in DOMAIN p : p[i] = p[j] => i = j

CipherPlaces(c) == <<c.key.n1, c.key.n2, c.iv>>
SessionPlaces(s) == <<s.n1, s.key.n1, s.key.n2, s.ivCmd, s.ivData>> \o CipherPlaces(s.cipher)
ChannelPlaces ==
  CipherPlaces(channel.u.cipher) \o CipherPlaces(channel.r.cipher)
    \o <<channel.u.ivData, channel.r.n1, channel.r.n2, channel.r.iv, channel.r.ivData>>

PlacesOf(i) == IF i \in DOMAIN Parties THEN SessionPlaces(session[Parties[i]]) ELSE <<>>

Pattern ==
  LET p == ChannelPlaces \o PlacesOf(1) \o PlacesOf(2) \o PlacesOf(3) \o PlacesOf(4)
  IN [i \in 1 .. Len(p) |-> IF p[i] = 0 THEN 0 ELSE CHOOSE j \in 1 .. i : p[j] = p[i]]

CipherRest(c)  == <<c.key.dev, c.key.holder, c.text>>
SessionRest(s) == <<s.ut, s.key.dev, s.key.holder, s.cmd, s.data, CipherRest(s.cipher)>>
ChannelRest ==
  LET u == channel.u
      r == channel.r
  IN <<channel.from, u.type, u.dev, u.order, u.holder, u.scope, u.signer, CipherRest(u.cipher),
       r.type, r.dev, r.ok, r.order, r.start, r.signer, CipherRest(r.cipher)>>

View == <<state, order, owner, initTicket, table,
          [c \in Controllers |-> SessionRest(session[c])], ChannelRest, Pattern>>
=============================================================================
