------------------------------- MODULE Socks5 -------------------------------
(***************************************************************************)
(* connect_socks5 (net/socks5.rs): a tunnel to the database through a      *)
(* proxy.  The proxy sends a stream of bytes, any it likes, that arrives   *)
(* piecewise and may stop; the client reads exactly the bytes of each      *)
(* answer, because what follows the last one belongs to the database.      *)
(***************************************************************************)
EXTENDS Naturals, Sequences, SequencesExt

CONSTANTS
  Scripts   \* what a proxy may send: records of the fields of Stream

(* An address has the length its type says.                                 *)
AddressesAsTyped ==
  \A s \in Scripts : /\ s.head[4] = 1 => Len(s.bound) = 4
                     /\ s.head[4] = 4 => Len(s.bound) = 16

(* What a proxy sends is made of bytes, and the fixed parts of its answers  *)
(* have their lengths; nothing is said of what the bytes say.               *)
ScriptsTyped ==
  \A s \in Scripts :
    /\ s.version \in Nat /\ s.method \in Nat
    /\ s.login \in Seq(Nat) /\ Len(s.login) = 2
    /\ s.head \in Seq(Nat) /\ Len(s.head) = 4
    /\ s.bound \in Seq(Nat)

ASSUME ScriptsAssumption == ScriptsTyped /\ AddressesAsTyped

VARIABLES
  script,     \* [version, method, login, head, bound]: see Stream
  secured,    \* credentials are configured for the proxy
  arrived,    \* how many bytes have arrived
  consumed,   \* how many of them were read
  phase,      \* the await the client is at
  address,    \* the length of the address it expects
  sent        \* what the client has written, in order

tunnelVars == <<script, secured, arrived, consumed, phase, address, sent>>

(* The first byte of the database's own protocol.                           *)
Database == 82

(* The method answer, the answer to the credentials when the method asks    *)
(* for them, and the answer to CONNECT with the bound address and the port. *)
Stream ==
  <<script.version, script.method>>
  \o (IF script.method = 2 THEN script.login ELSE <<>>)
  \o script.head
  \o (IF script.head[4] = 3 THEN <<Len(script.bound)>> ELSE <<>>)
  \o script.bound \o <<0, 0>> \o <<Database>>

Offer ==
  /\ phase = "start"
  /\ sent' = <<IF secured THEN "offer password" ELSE "offer none">>
  /\ phase' = "method"
  /\ UNCHANGED <<script, secured, arrived, consumed, address>>

(* External: bytes of the proxy arrive in pieces.                           *)
Arrive ==
  /\ phase \notin {"open", "failed"} /\ arrived < Len(Stream)
  /\ arrived' \in arrived + 1 .. Len(Stream)
  /\ UNCHANGED <<script, secured, consumed, phase, address, sent>>

(* read_exact: the next n bytes, once all of them are there.                *)
Available(n) == arrived - consumed >= n
Bytes(n) == SubSeq(Stream, consumed + 1, consumed + n)
Took(n) == consumed' = consumed + n /\ UNCHANGED <<script, secured, arrived>>

Fail == phase' = "failed" /\ UNCHANGED sent

(* Mutant: a proxy that asks for no credentials is taken at its word.       *)
MethodReadTrusting ==
  /\ phase = "method" /\ Available(2) /\ Took(2) /\ UNCHANGED address
  /\ CASE Bytes(2) = <<5, 0>> -> phase' = "reply" /\ sent' = Append(sent, "connect")
       [] Bytes(2) = <<5, 2>> /\ secured ->
            phase' = "login" /\ sent' = Append(sent, "credentials")
       [] OTHER -> Fail

(* Offering only the method the configuration asks for, the client takes no *)
(* other; the credentials go out when the proxy selected them.              *)
MethodRead ==
  /\ phase = "method" /\ Available(2) /\ Took(2) /\ UNCHANGED address
  /\ CASE Bytes(2) = <<5, 0>> /\ ~secured ->
            phase' = "reply" /\ sent' = Append(sent, "connect")
       [] Bytes(2) = <<5, 2>> /\ secured ->
            phase' = "login" /\ sent' = Append(sent, "credentials")
       [] OTHER -> Fail

LoginRead ==
  /\ phase = "login" /\ Available(2) /\ Took(2) /\ UNCHANGED address
  /\ IF Bytes(2) = <<1, 0>>
     THEN phase' = "reply" /\ sent' = Append(sent, "connect")
     ELSE Fail

(* The fixed part of the answer to CONNECT, and how its address goes on.    *)
ReplyRead ==
  /\ phase = "reply" /\ Available(4) /\ Took(4)
  /\ LET head == Bytes(4)
     IN IF head[1] # 5 \/ head[2] # 0 \/ head[3] # 0 \/ head[4] \notin {1, 3, 4}
        THEN Fail /\ UNCHANGED address
        ELSE /\ phase' = IF head[4] = 3 THEN "length" ELSE "address"
             /\ address' = CASE head[4] = 1 -> 4 [] head[4] = 4 -> 16 [] OTHER -> 0
             /\ UNCHANGED sent

(* A named address carries its length.                                      *)
LengthRead ==
  /\ phase = "length" /\ Available(1) /\ Took(1)
  /\ address' = Bytes(1)[1] /\ phase' = "address"
  /\ UNCHANGED sent

(* The address and the port are read together, and nothing after them.      *)
AddressRead ==
  /\ phase = "address" /\ Available(address + 2) /\ Took(address + 2)
  /\ phase' = "open"
  /\ UNCHANGED <<address, sent>>

(* The proxy closes the connection, or the time limit over the whole        *)
(* negotiation passes.                                                      *)
Timeout ==
  /\ phase \notin {"open", "failed"}
  /\ Fail
  /\ UNCHANGED <<script, secured, arrived, consumed, address>>

TunnelInit ==
  /\ script \in Scripts /\ secured \in BOOLEAN
  /\ arrived = 0 /\ consumed = 0 /\ phase = "start" /\ address = 0 /\ sent = <<>>

TunnelNext ==
  \/ Offer \/ Arrive \/ MethodRead \/ LoginRead \/ ReplyRead \/ LengthRead
  \/ AddressRead \/ Timeout

TunnelSpec == TunnelInit /\ [][TunnelNext]_tunnelVars /\ WF_tunnelVars(Timeout)

-----------------------------------------------------------------------------
(* An open tunnel has read the proxy's answers and not a byte of the        *)
(* database's; the proxy accepted the credentials wherever some are         *)
(* configured, and saw them only after it asked for them.                   *)
TunnelIsClean ==
  /\ phase = "open" =>
       /\ SubSeq(Stream, consumed + 1, Len(Stream)) = <<Database>>
       /\ script.head[2] = 0
       /\ secured => "credentials" \in ToSet(sent) /\ script.login = <<1, 0>>
  /\ "credentials" \in ToSet(sent) => secured /\ script.method = 2
=============================================================================
