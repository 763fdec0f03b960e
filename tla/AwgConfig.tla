----------------------------- MODULE AwgConfig ------------------------------
(***************************************************************************)
(* The loader of the configuration (awg_config.c) and the templates it     *)
(* allocates on the way: line by line, until a line is refused or the file *)
(* ends.                                                                   *)
(*                                                                         *)
(* A line is what the loader makes of it: a heading, a key that decodes or *)
(* does not (AwgObf), a list of addresses that are addresses or not, a     *)
(* template, or a line it only counts: of the settings that are a number   *)
(* the value is left out, every text is one to atoi.  A line longer than   *)
(* the buffer comes as two.                                                *)
(***************************************************************************)
EXTENDS Naturals, Sequences, FiniteSets

CONSTANTS
  AWG_MAX_I,           \* 5
  AWG_MAX_DNS,         \* 4
  Chains,              \* addresses the allocator has for a template
  MaxLines             \* bound on the lines of a file

ASSUME ConfigAssumption == AWG_MAX_I \in Nat /\ AWG_MAX_DNS \in Nat /\ 0 \notin Chains

VARIABLES
  loader,              \* "closed", "reading", "loaded", "refused", "freed"
  in_peer, lineno,
  have,                \* the keys that were read, and "Endpoint" for a host that is not empty
  dns_n,
  i,                   \* the templates: an address, or 0
  chains,              \* what is allocated
  leaked               \* history: displaced by a line that came twice, and never freed

configVars == <<loader, in_peer, lineno, have, dns_n, i, chains, leaked>>

Slots == 1..AWG_MAX_I

InterfaceKeys == {"PrivateKey", "HeaderProtectionKey"}
PeerKeys      == {"PublicKey", "PresharedKey"}
Needed        == {"PrivateKey", "PublicKey", "Endpoint"}

NoTemplates == [k \in Slots |-> 0]

\* A struct on the stack of main; the loader clears it before it fills it.
ConfigInit ==
  /\ loader = "closed" /\ in_peer = FALSE /\ lineno = 0
  /\ have = {} /\ dns_n = 0 /\ i = NoTemplates /\ chains = {} /\ leaked = {}

Pointed == {i[k] : k \in Slots} \ {0}

\* awg_config_free, with the templates t.
FreeTemplatesKeepsFirst(t) ==
  /\ chains' = chains \ {t[k] : k \in Slots \ {1}}
  /\ i' = NoTemplates

FreeTemplates(t) ==
  /\ chains' = chains \ {t[k] : k \in Slots}
  /\ i' = NoTemplates

Refuse(t) == loader' = "refused" /\ FreeTemplates(t)

\* The file is opened and the line buffer allocated, or the loader returns.
Open ==
  /\ loader = "closed" /\ loader' \in {"reading", "refused"}
  /\ UNCHANGED <<in_peer, lineno, have, dns_n, i, chains, leaked>>

NextLine == loader = "reading" /\ lineno < MaxLines /\ lineno' = lineno + 1

Heading ==
  /\ NextLine /\ in_peer' \in BOOLEAN
  /\ UNCHANGED <<loader, have, dns_n, i, chains, leaked>>

\* An empty line, a comment, a key that is not known, a number or a range.
OtherLine == NextLine /\ UNCHANGED <<loader, in_peer, have, dns_n, i, chains, leaked>>

\* PrivateKey, HeaderProtectionKey, PublicKey, PresharedKey.
Key(k) ==
  /\ NextLine /\ k \in (IF in_peer THEN PeerKeys ELSE InterfaceKeys)
  /\ \/ have' = have \cup {k} /\ UNCHANGED <<loader, i, chains>>
     \/ Refuse(i) /\ UNCHANGED have
  /\ UNCHANGED <<in_peer, dns_n, leaked>>

\* Address is the one value besides keys that an interface line is refused for.
Address ==
  /\ NextLine /\ ~ in_peer
  /\ (Refuse(i) \/ UNCHANGED <<loader, i, chains>>)
  /\ UNCHANGED <<in_peer, have, dns_n, leaked>>

\* Another server for every address in the list, as long as there is room.
DnsServers(good) == IF dns_n + good < AWG_MAX_DNS THEN dns_n + good ELSE AWG_MAX_DNS

Dns(good) ==
  /\ NextLine /\ ~ in_peer
  /\ dns_n' = DnsServers(good)
  /\ UNCHANGED <<loader, in_peer, have, i, chains, leaked>>

\* I1 to I5: awg_obf_parse returns a chain; or none and a reason; or none and no reason,
\* for a value without tags.  What the slot pointed to before is not freed.
Template(k) ==
  /\ NextLine /\ ~ in_peer
  /\ leaked' = leaked \cup ({i[k]} \ {0})
  /\ \/ \E c \in Chains \ chains :
          i' = [i EXCEPT ![k] = c] /\ chains' = chains \cup {c} /\ UNCHANGED loader
     \/ Refuse([i EXCEPT ![k] = 0])
     \/ i' = [i EXCEPT ![k] = 0] /\ UNCHANGED <<loader, chains>>
  /\ UNCHANGED <<in_peer, have, dns_n>>

\* Without a colon it is refused; the host before the colon may be empty.
Endpoint ==
  /\ NextLine /\ in_peer
  /\ \/ have' \in {have \cup {"Endpoint"}, have \ {"Endpoint"}} /\ UNCHANGED <<loader, i, chains>>
     \/ Refuse(i) /\ UNCHANGED have
  /\ UNCHANGED <<in_peer, dns_n, leaked>>

EndOfFile ==
  /\ loader = "reading"
  /\ IF Needed \subseteq have THEN loader' = "loaded" /\ UNCHANGED <<i, chains>> ELSE Refuse(i)
  /\ UNCHANGED <<in_peer, lineno, have, dns_n, leaked>>

\* awg_config_free, at the end of main.
ConfigFree ==
  /\ loader = "loaded" /\ loader' = "freed"
  /\ FreeTemplates(i)
  /\ UNCHANGED <<in_peer, lineno, have, dns_n, leaked>>

ConfigNext ==
  \/ Open \/ Heading \/ OtherLine \/ Address \/ Endpoint \/ EndOfFile \/ ConfigFree
  \/ \E k \in InterfaceKeys \cup PeerKeys : Key(k)
  \/ \E good \in 0..AWG_MAX_DNS + 1 : Dns(good)
  \/ \E k \in Slots : Template(k)

ConfigSpec == ConfigInit /\ [][ConfigNext]_configVars

-----------------------------------------------------------------------------
\* Every variable is in its range; there are never more servers than cfg->dns has room for.
ConfigTypeOK ==
  /\ loader \in {"closed", "reading", "loaded", "refused", "freed"}
  /\ in_peer \in BOOLEAN /\ lineno \in Nat
  /\ have \subseteq InterfaceKeys \cup PeerKeys \cup {"Endpoint"}
  /\ dns_n \in 0..AWG_MAX_DNS
  /\ i \in [Slots -> Chains \cup {0}] /\ chains \subseteq Chains /\ leaked \subseteq chains

\* What is allocated is pointed to by one slot, or leaked; no slot points to what was freed
\* or leaked.
TemplatesOwned ==
  /\ chains = Pointed \cup leaked /\ Pointed \cap leaked = {}
  /\ \A j, k \in Slots : i[j] = i[k] /\ i[j] # 0 => j = k

\* A configuration that was refused, at whatever line, or given back holds no template: all
\* that is still allocated has leaked.
NothingHeld ==
  loader \in {"closed", "refused", "freed"} => i = NoTemplates /\ chains = leaked

\* A template leaks exactly when a second line with its key displaces it: awg_config_load
\* overwrites the slot without freeing what it holds (awg_config.c:179).  Whatever the lines
\* and wherever one is refused, every other template has one owner while there is a
\* configuration and is freed with it, none is freed twice or used after it was freed, and
\* nothing is written beyond cfg's tables.
OnlyRepeatsLeak == ConfigTypeOK /\ TemplatesOwned /\ NothingHeld
=============================================================================
