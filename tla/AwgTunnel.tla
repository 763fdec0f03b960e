----------------------------- MODULE AwgTunnel -----------------------------
(***************************************************************************)
(* The main loop of main_switch.c around the session: when it drops the    *)
(* tunnel, when it rebuilds it, what it does with the answers of sendto()  *)
(* and poll(), and which descriptor lwIP writes to (awg_netif.c).          *)
(*                                                                         *)
(* One pass of the loop is PowerCheck, RebuildCheck, Send, BringUp, Wait   *)
(* and Drain, in this order; pc is the step that comes next.  Time passes, *)
(* sockets die, the link comes and goes and the console sleeps while the   *)
(* loop waits.  lwIP runs, and may send, while the loop drains the socket  *)
(* and ticks the stack.  Every step that touches the session is one of     *)
(* AwgSession's.                                                           *)
(*                                                                         *)
(* Left out: the self-test fetch, the heartbeat file and the status lines, *)
(* which decide nothing about the tunnel.                                  *)
(***************************************************************************)
EXTENDS AwgSession

CONSTANTS
  REBUILD_SPACING,     \* 3000 ms
  UNREACHABLE_LIMIT,   \* 30000 ms
  POWER_EVERY,         \* 1000 ms
  MaxOutput,           \* bound on what lwIP sends under one keypair
  MaxFaults            \* bound on what goes wrong outside

ASSUME TunnelAssumption ==
  /\ REBUILD_SPACING \in Nat /\ UNREACHABLE_LIMIT \in Nat /\ POWER_EVERY \in Nat
  /\ MaxOutput \in Nat /\ MaxFaults \in Nat

VARIABLES
  pc,
  fd,                  \* number of the socket, 0 when there is none
  sockets,             \* how many were opened
  g_fd,                \* the one lwIP's interface writes to
  dead, link,          \* the socket was torn down by the system; there is a network
  tunnel_lost, next_rebuild, unreachable_since, next_power, netif_up, listening,
  transition,          \* the play-event log holds a transition not read yet
  faults

\* When nothing was refused yet.  The code writes 0, which now_ms() never is.
Never == -1

(* History *)
VARIABLES
  last_attempt,        \* when a rebuild was last attempted
  quiet_since,         \* when the wait for a network last had reason to restart
  slept                \* keypairs that were current before a transition was read

loop == <<pc, fd, sockets, g_fd, dead, link, tunnel_lost, next_rebuild,
          unreachable_since, next_power, netif_up, listening, transition, faults,
          last_attempt, quiet_since, slept>>

tunnelVars == <<vars, loop>>

TunnelInit ==
  /\ Init
  /\ pc = "power"
  /\ fd = 1 /\ sockets = 1 /\ g_fd = 0
  /\ dead = FALSE /\ link \in BOOLEAN
  /\ tunnel_lost = FALSE /\ next_rebuild = 0
  /\ unreachable_since = Never /\ next_power = 0
  /\ netif_up = FALSE /\ listening = FALSE
  /\ transition = FALSE /\ faults = 0
  /\ last_attempt = Never /\ quiet_since = 0 /\ slept = {}

-----------------------------------------------------------------------------
(* The pass *)

\* The wait for a network is not restarted.
OnTransition_KeepWait ==
  /\ transition' = FALSE
  /\ UNCHANGED unreachable_since
  /\ quiet_since' = now
  /\ slept' = promoted
  /\ IF established /\ ~tunnel_lost
     THEN /\ PowerTransition
          /\ fd' = 0 /\ g_fd' = 0 /\ listening' = FALSE
          /\ tunnel_lost' = TRUE
     ELSE UNCHANGED <<vars, fd, g_fd, listening, tunnel_lost>>

\* The tunnel is left to notice by itself that its socket has died.
OnTransition_KeepTunnel ==
  /\ transition' = FALSE
  /\ unreachable_since' = Never
  /\ quiet_since' = now
  /\ slept' = promoted
  /\ UNCHANGED <<vars, fd, g_fd, listening, tunnel_lost>>

\* The log reports a transition: a running tunnel is dropped, keys and all.
OnTransition ==
  /\ transition' = FALSE
  /\ unreachable_since' = Never
  /\ quiet_since' = now
  /\ slept' = promoted
  /\ IF established /\ ~tunnel_lost
     THEN /\ PowerTransition
          /\ fd' = 0 /\ g_fd' = 0 /\ listening' = FALSE
          /\ tunnel_lost' = TRUE
     ELSE UNCHANGED <<vars, fd, g_fd, listening, tunnel_lost>>

\* Once a second the log is asked; a query that fails is made again.
PowerCheck ==
  /\ pc = "power" /\ pc' = "rebuild"
  /\ next_power' = IF now >= next_power THEN now + POWER_EVERY ELSE next_power
  /\ \/ now >= next_power /\ transition /\ OnTransition
     \/ UNCHANGED <<vars, fd, g_fd, listening, tunnel_lost, transition,
                    unreachable_since, quiet_since, slept>>
  /\ UNCHANGED <<sockets, dead, link, next_rebuild, netif_up, faults, last_attempt>>

\* A failed rebuild forgets that the tunnel is lost.
SocketFails_Forgets ==
  /\ RebuildFails
  /\ fd' = 0 /\ listening' = FALSE
  /\ tunnel_lost' = FALSE
  /\ UNCHANGED <<sockets, g_fd, dead, unreachable_since, quiet_since>>

\* The old socket is closed and there is no new one.
SocketFails ==
  /\ RebuildFails
  /\ fd' = 0 /\ listening' = FALSE
  /\ UNCHANGED <<sockets, g_fd, dead, tunnel_lost, unreachable_since, quiet_since>>

\* lwIP is not told about the new descriptor.
SocketOpens_OldFd ==
  /\ Rebuild
  /\ sockets' = sockets + 1 /\ fd' = sockets' /\ UNCHANGED g_fd
  /\ dead' = FALSE /\ tunnel_lost' = FALSE
  /\ unreachable_since' = Never /\ quiet_since' = now
  /\ listening' \in {FALSE, netif_up}

\* The new socket goes on with the old session.
SocketOpens_KeepSession ==
  /\ socket' = TRUE /\ UNCHANGED <<now, session, history>>
  /\ sockets' = sockets + 1 /\ fd' = sockets' /\ g_fd' = fd'
  /\ dead' = FALSE /\ tunnel_lost' = FALSE
  /\ unreachable_since' = Never /\ quiet_since' = now
  /\ listening' \in {FALSE, netif_up}

\* A new socket, a new session, and the proxy back if there is a stack for it;
\* it stays down when bind() fails.
SocketOpens ==
  /\ Rebuild
  /\ sockets' = sockets + 1 /\ fd' = sockets' /\ g_fd' = fd'
  /\ dead' = FALSE /\ tunnel_lost' = FALSE
  /\ unreachable_since' = Never /\ quiet_since' = now
  /\ listening' \in {FALSE, netif_up}

\* A lost tunnel is rebuilt once its time has come; the time of the next attempt
\* is set before anything can fail.
RebuildCheck ==
  /\ pc = "rebuild" /\ pc' = "send"
  /\ IF tunnel_lost /\ now >= next_rebuild
     THEN /\ next_rebuild' = now + REBUILD_SPACING
          /\ last_attempt' = now
          /\ SocketFails \/ SocketOpens
     ELSE UNCHANGED <<vars, fd, sockets, g_fd, dead, tunnel_lost, listening,
                      unreachable_since, quiet_since, next_rebuild, last_attempt>>
  /\ UNCHANGED <<link, next_power, netif_up, transition, faults, slept>>

\* ENETUNREACH or ENETDOWN: wait for the link, but not for ever.
Refused ==
  /\ IF unreachable_since = Never
     THEN unreachable_since' = now /\ UNCHANGED tunnel_lost
     ELSE IF now - unreachable_since > UNREACHABLE_LIMIT /\ ~tunnel_lost
     THEN unreachable_since' = Never /\ tunnel_lost' = TRUE
     ELSE UNCHANGED <<unreachable_since, tunnel_lost>>
  /\ UNCHANGED quiet_since

\* What sendto() answers to an initiation: sent, the socket is finished
\* (sock_is_dead), there is no network, or an error that says nothing.
SendAnswer ==
  \/ /\ link /\ ~dead
     /\ unreachable_since' = Never /\ quiet_since' = now
     /\ UNCHANGED tunnel_lost
  \/ /\ dead
     /\ tunnel_lost' = TRUE
     /\ UNCHANGED <<unreachable_since, quiet_since>>
  \/ ~link /\ Refused
  \/ UNCHANGED <<tunnel_lost, unreachable_since, quiet_since>>

\* A handshake when one is due, or else a keepalive when one is due.
Send ==
  /\ pc = "send" /\ pc' = "bringup"
  /\ \/ /\ fd # 0 /\ NeedsHandshake
        /\ BuildInitiation
        /\ SendAnswer
     \/ /\ fd # 0 /\ ~NeedsHandshake /\ NeedsKeepalive
        /\ BuildKeepalive
        /\ UNCHANGED <<tunnel_lost, unreachable_since, quiet_since>>
     \/ /\ fd = 0 \/ (~NeedsHandshake /\ ~NeedsKeepalive)
        /\ UNCHANGED <<vars, tunnel_lost, unreachable_since, quiet_since>>
  /\ UNCHANGED <<fd, sockets, g_fd, dead, link, next_rebuild, next_power, netif_up,
                 listening, transition, faults, last_attempt, slept>>

\* The stack comes up on the first session, with whatever descriptor there is,
\* and the proxy with it unless bind() fails.
BringUp ==
  /\ pc = "bringup" /\ pc' = "wait"
  /\ IF established /\ ~netif_up
     THEN \/ netif_up' = TRUE /\ g_fd' = fd /\ listening' \in BOOLEAN
          \/ g_fd' = fd /\ UNCHANGED <<netif_up, listening>>     \* netif_add() failed
     ELSE UNCHANGED <<netif_up, g_fd, listening>>
  /\ UNCHANGED <<vars, fd, sockets, dead, link, tunnel_lost, next_rebuild,
                 unreachable_since, next_power, transition, faults,
                 last_attempt, quiet_since, slept>>

\* A dead socket is rebuilt at once.
Detect_NoSpacing ==
  \/ UNCHANGED <<tunnel_lost, next_rebuild>>
  \/ fd # 0 /\ dead /\ tunnel_lost' = TRUE /\ next_rebuild' = now

\* POLLERR, POLLHUP or POLLNVAL on the tunnel's socket, unless it is left to
\* sendto() to find that it is dead; next_rebuild is left alone on purpose.
Detect ==
  /\ \/ UNCHANGED tunnel_lost
     \/ fd # 0 /\ dead /\ tunnel_lost' = TRUE
  /\ UNCHANGED next_rebuild

\* The wait ends: something happened, or the time is over.
Wait ==
  /\ pc = "wait" /\ pc' = "drain"
  /\ Detect
  /\ UNCHANGED <<vars, fd, sockets, g_fd, dead, link, unreachable_since, next_power,
                 netif_up, listening, transition, faults, last_attempt,
                 quiet_since, slept>>

\* A datagram from the peer.
Drain ==
  /\ pc = "drain" /\ fd # 0
  /\ \E m \in Datagrams : OnDatagram(m)
  /\ UNCHANGED loop

\* lwIP sends, from a callback or a timer.
Output ==
  /\ pc = "drain" /\ netif_up
  /\ tx_counter < MaxOutput
  /\ TunnelOutput
  /\ UNCHANGED loop

PassOver ==
  /\ pc = "drain" /\ pc' = "power"
  /\ UNCHANGED <<vars, fd, sockets, g_fd, dead, link, tunnel_lost, next_rebuild,
                 unreachable_since, next_power, netif_up, listening, transition,
                 faults, last_attempt, quiet_since, slept>>

-----------------------------------------------------------------------------
(* Meanwhile *)

Elapse == pc = "wait" /\ Tick /\ UNCHANGED loop

\* The system tears the socket down; the link comes or goes; the console sleeps
\* and the log gets an entry.
Fault ==
  /\ pc = "wait" /\ faults < MaxFaults
  /\ faults' = faults + 1
  /\ \/ fd # 0 /\ dead' = TRUE /\ UNCHANGED <<link, transition>>
     \/ link' = ~link /\ UNCHANGED <<dead, transition>>
     \/ transition' = TRUE /\ UNCHANGED <<dead, link>>
  /\ UNCHANGED <<vars, pc, fd, sockets, g_fd, tunnel_lost, next_rebuild,
                 unreachable_since, next_power, netif_up, listening,
                 last_attempt, quiet_since, slept>>

TunnelNext ==
  \/ PowerCheck \/ RebuildCheck \/ Send \/ BringUp \/ Wait
  \/ Drain \/ Output \/ PassOver
  \/ Elapse \/ Fault

TunnelSpec == TunnelInit /\ [][TunnelNext]_tunnelVars

-----------------------------------------------------------------------------
(* Properties *)

\* Every variable of the loop stays in its range.
TunnelTypeOK ==
  /\ pc \in {"power", "rebuild", "send", "bringup", "wait", "drain"}
  /\ sockets \in Nat /\ fd \in 0 .. sockets /\ g_fd \in 0 .. sockets
  /\ dead \in BOOLEAN /\ link \in BOOLEAN /\ tunnel_lost \in BOOLEAN
  /\ netif_up \in BOOLEAN /\ listening \in BOOLEAN /\ transition \in BOOLEAN
  /\ next_rebuild \in Nat /\ next_power \in Nat /\ faults \in Nat /\ quiet_since \in Nat
  /\ unreachable_since \in Nat \cup {Never} /\ last_attempt \in Nat \cup {Never}
  /\ slept \subseteq Nat

\* The loop never sits without a socket and without a plan: when there is none
\* the tunnel is marked lost, and the next attempt is at most REBUILD_SPACING
\* away, whichever of the failures of a rebuild came before.
NeverStranded ==
  /\ fd = 0 => tunnel_lost
  /\ next_rebuild <= now + REBUILD_SPACING
  /\ socket <=> fd # 0

\* Attempts to rebuild are at least REBUILD_SPACING apart, however the loss was
\* detected ("so a failure cannot spin").
RebuildsSpaced ==
  [][last_attempt' # last_attempt /\ last_attempt # Never
       => last_attempt' - last_attempt >= REBUILD_SPACING]_tunnelVars

\* Once the stack is up it writes to the socket the loop reads from, but for one
\* case: a rebuild that gets no socket has closed the old one and does not tell
\* lwIP (main_switch.c:544-549), which goes on writing to a closed descriptor,
\* as main_switch.c:510 says it must not.  That lasts no longer than the loop is
\* without a socket and due to rebuild.
StaleOnlyUntilRebuilt == netif_up /\ g_fd # fd => fd = 0 /\ tunnel_lost

\* Patience: want of a network costs a rebuild only after it was wanting for
\* UNREACHABLE_LIMIT without a break; a send that worked, a rebuild or a sleep
\* restarts the wait.
Patience ==
  [][pc = "send" /\ unreachable_since # Never /\ tunnel_lost' /\ ~tunnel_lost /\ ~dead
       => now - quiet_since > UNREACHABLE_LIMIT]_tunnelVars

\* No session survives a sleep: a keypair that was current when a transition was
\* read is in use no more, but for a tunnel that is already lost and waits for
\* its rebuild.
NoSessionSurvivesSleep == established /\ cur.id \in slept => tunnel_lost

(***************************************************************************)
(* The inductive invariant: the times of the attempts, the wait for a      *)
(* network and its last restart go together, and what slept had been       *)
(* current.  With AwgSession's IInv, a keypair that becomes current later  *)
(* is none of those.  A loop that has a socket shares it with lwIP, which  *)
(* with NeverStranded is StaleOnlyUntilRebuilt.                            *)
(***************************************************************************)
StackUsesTheSocket == netif_up /\ fd # 0 => g_fd = fd

TimesInv ==
  /\ next_rebuild = IF last_attempt = Never THEN 0 ELSE last_attempt + REBUILD_SPACING
  /\ quiet_since <= now
  /\ unreachable_since # Never => unreachable_since \in quiet_since .. now

TunnelInv ==
  /\ TunnelTypeOK /\ NeverStranded /\ StackUsesTheSocket
  /\ NoSessionSurvivesSleep /\ slept \subseteq promoted
  /\ TimesInv

\* The loop makes of the session what AwgSession says: its steps, in an order it
\* allows.  All that is shown of a session there holds in the loop.
SessionSpec == Spec
=============================================================================
