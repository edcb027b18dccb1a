------------------------------- MODULE HostName -------------------------------
(***************************************************************************)
(* Which certificate names which host (util/ssl_match_hostname.py).        *)
(*                                                                         *)
(* A DNS name is the sequence of its labels, already in lower case, and an *)
(* IP address is a value of its own: a name is a record with its kind.     *)
(* What the regular expression of the code says of one label of a          *)
(* certificate against one label of a host is the function Fits.           *)
(***************************************************************************)
EXTENDS Naturals, Sequences, FiniteSets

CONSTANTS
  Label,    \* the labels of names, those of certificates and those of hosts
  Stars,    \* the asterisks of each label
  Whole,    \* the label that is one asterisk and nothing else
  Idna,     \* the labels that start with xn--
  Fits      \* for a label with an asterisk: the labels its pattern fits

ASSUME LabelAssumption ==
  /\ Whole \in Label
  /\ Stars \in [Label -> 0 .. 2]
  /\ Idna \subseteq Label
  /\ Fits \in [Label -> SUBSET Label]

Names == [kind : {"dns", "ip"}, name : Seq(Label)]
Dns(labels) == [kind |-> "dns", name |-> labels]
Ip(address) == [kind |-> "ip", name |-> <<address>>]

(* The leftmost label of a certificate's name against the one of a host.   *)
LeftmostFits(pattern, label) ==
  IF pattern # Whole /\ {pattern, label} \cap Idna # {}
    THEN pattern = label                \* re.escape: the asterisk is literal
    ELSE label \in Fits[pattern]

(* _dnsname_match: "yes", "no", or "error" for a name it refuses to read.  *)
DnsNameMatch(dn, hostname) ==
  IF dn = <<>> THEN "no"
  ELSE IF Stars[dn[1]] > 1 THEN "error"
  ELSE IF \/ Stars[dn[1]] = 0 /\ dn = hostname
          \/ /\ Stars[dn[1]] = 1
             /\ Len(dn) = Len(hostname) /\ Tail(dn) = Tail(hostname)
             /\ LeftmostFits(dn[1], hostname[1])
    THEN "yes" ELSE "no"

(* One entry of subjectAltName; entries of other kinds are passed over.    *)
EntryMatch(entry, host) ==
  IF entry.kind = "dns" /\ host.kind = "dns" THEN DnsNameMatch(entry.name, host.name)
  ELSE IF entry = host THEN "yes" ELSE "no"

(* The common names, looked at only if the certificate has no alternative  *)
(* name and the host is not an address.                                    *)
Candidates(cert, host, checksCommonName) ==
  IF cert.san = <<>> /\ checksCommonName /\ host.kind = "dns"
    THEN cert.cn ELSE cert.san

(* match_hostname returns iff some entry matches and none before it is     *)
(* refused: the first error ends the loop.                                 *)
MatchHostname(cert, host, checksCommonName) ==
  LET names == Candidates(cert, host, checksCommonName)
  IN  \E i \in DOMAIN names :
        /\ EntryMatch(names[i], host) = "yes"
        /\ \A j \in 1 .. i - 1 : EntryMatch(names[j], host) # "error"

(***************************************************************************)
(* RFC 6125: the certificate names the host itself, or all its labels but  *)
(* the leftmost, for which it has an asterisk.                             *)
(***************************************************************************)
Covers(entry, host) ==
  \/ entry = host
  \/ /\ entry.kind = "dns" /\ host.kind = "dns"
     /\ Len(entry.name) = Len(host.name)
     /\ Stars[entry.name[1]] = 1
     /\ \A i \in 2 .. Len(host.name) : entry.name[i] = host.name[i]

Identifies(cert, host) ==
  \E i \in DOMAIN (cert.san \o cert.cn) : Covers((cert.san \o cert.cn)[i], host)

================================================================================
