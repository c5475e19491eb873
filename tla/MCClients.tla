------------------------------ MODULE MCClients ------------------------------
(* Model values for the clients of a session: the console over a session of *)
(* either provider, the blocking driver, and the SOCKS5 negotiation that    *)
(* comes before a session.  A behaviour is a behaviour of one of them.      *)
EXTENDS Console, BlockingDriver, Socks5

VARIABLES client

ASSUME RefreshesAssumption == MaxRefreshes \in Nat

loop   == <<provider, interactive, mode, console, footer, handler, unheard>>
driver == <<runtime, held, thread, result, released>>
vars   == <<client, session, loop, driver, tunnelVars>>

(* What a proxy may send: for each answer the accepted one and one of every *)
(* kind that is refused; addresses of every type and of several lengths.    *)
Filler(n) == [i \in 1 .. n |-> 7]

Replies ==
  {<<<<5, r, 0, 1>>, Filler(4)>> : r \in {0, 5}}
    \cup {<<<<5, 0, 0, 4>>, Filler(16)>>, <<<<5, 0, 0, 2>>, Filler(4)>>,
          <<<<5, 0, 1, 1>>, Filler(4)>>, <<<<4, 0, 0, 1>>, Filler(4)>>}
    \cup {<<<<5, 0, 0, 3>>, Filler(n)>> : n \in {0, 1, 3}}

MCScripts ==
  {[version |-> v, method |-> m, login |-> l, head |-> r[1], bound |-> r[2]] :
     v \in {4, 5}, m \in {0, 2, 255}, l \in {<<1, 0>>, <<1, 1>>, <<5, 0>>},
     r \in Replies}

(* The variables of the other clients, at rest.                             *)
NoConsole ==
  /\ provider = "postgres" /\ interactive = FALSE /\ mode = "ended"
  /\ statement = "empty" /\ snapshot = 0 /\ plans = <<>> /\ tables = {}
  /\ compiled = Nothing /\ footer = FALSE /\ handler = FALSE /\ unheard = FALSE
NoDriver ==
  /\ runtime = "none" /\ held = FALSE /\ thread = "sync" /\ result = "none"
  /\ released = "nowhere"
NoTunnel ==
  /\ script = CHOOSE s \in Scripts : TRUE
  /\ secured = FALSE /\ arrived = 0 /\ consumed = 0 /\ phase = "failed"
  /\ address = 0 /\ sent = <<>>

Init ==
  \/ client = "console" /\ ConsoleInit /\ NoDriver /\ NoTunnel
  \/ client = "driver" /\ DriverInit /\ NoConsole /\ NoTunnel
  \/ client = "tunnel" /\ TunnelInit /\ Session!Init /\ NoConsole /\ NoDriver

Next ==
  /\ UNCHANGED client
  /\ \/ client = "console" /\ ConsoleNext /\ UNCHANGED <<driver, tunnelVars>>
     \/ client = "driver" /\ DriverNext /\ UNCHANGED <<loop, tunnelVars>>
     \/ client = "tunnel" /\ TunnelNext /\ UNCHANGED <<session, loop, driver>>

(* The fairness of each client; no step of one is a step of another.        *)
Fairness ==
  /\ WF_vars(client = "console" /\ Cancel /\ UNCHANGED <<client, driver, tunnelVars>>)
  /\ WF_vars(client = "console" /\ Cancelled /\ UNCHANGED <<client, driver, tunnelVars>>)
  /\ WF_vars(client = "console" /\ Close /\ UNCHANGED <<client, driver, tunnelVars>>)

Spec == Init /\ [][Next]_vars /\ Fairness

(* What Console says of a session that dies, while the console is the one   *)
(* that uses it.                                                            *)
DeathEndsConsole == [][client = "console" => DeathEnds]_vars
=============================================================================
