----------------------------- MODULE SwitchPro -----------------------------
(***************************************************************************)
(* Bringing a Switch Pro controller into operation: run sends it the       *)
(* handshake and the command that disables its timeout, with pauses in     *)
(* between and again when the endpoint was busy; a report that arrives     *)
(* after enough others sends the command that lights the first LED.        *)
(*                                                                         *)
(* The USB stack accepts a command when the one before is transferred.     *)
(***************************************************************************)
EXTENDS Integers

CONSTANTS kPauseBetweenCommands,  \* in ticks of board_millis (80)
          LedReports,             \* reports before the LED is set (20)
          ClockMod                \* board_millis counts modulo this (2^32)

ASSUME SwitchProAssumption ==
    /\ LedReports \in Nat
    /\ kPauseBetweenCommands \in Nat /\ ClockMod \in Nat
    /\ kPauseBetweenCommands + 1 < ClockMod

VARIABLES
    handshake_sent, timeout_disabled, led_set,
    reports_collected,    \* up to LedReports + 1
    last_command_sent,    \* when run last tried to send a command
    busy,                 \* the endpoint transfers a command
    now,                  \* board_millis
    due,                  \* run has not been called since now advanced
    since_handshake       \* time since the handshake was accepted, up to the pause + 1

proVars == <<handshake_sent, timeout_disabled, led_set, reports_collected, last_command_sent,
             busy, now, due, since_handshake>>

ProTypeOK ==
    /\ handshake_sent \in BOOLEAN /\ timeout_disabled \in BOOLEAN /\ led_set \in BOOLEAN
    /\ reports_collected \in 0 .. LedReports + 1
    /\ last_command_sent \in 0 .. ClockMod - 1 /\ now \in 0 .. ClockMod - 1
    /\ busy \in BOOLEAN /\ due \in BOOLEAN
    /\ since_handshake \in 0 .. kPauseBetweenCommands + 1

\* The members of a new handler, before the constructor has looked at the clock.
ProFresh ==
    /\ handshake_sent = FALSE /\ timeout_disabled = FALSE /\ led_set = FALSE
    /\ reports_collected = 0
    /\ last_command_sent = 0 /\ now = 0
    /\ busy = FALSE /\ due = FALSE
    /\ since_handshake = kPauseBetweenCommands + 1

\* The constructor and setup_reception, at any time of the clock.
MountPro ==
    /\ handshake_sent' = FALSE /\ timeout_disabled' = FALSE /\ led_set' = FALSE
    /\ reports_collected' = 0
    /\ now' \in 0 .. ClockMod - 1 /\ last_command_sent' = now'
    /\ busy' = FALSE /\ due' = FALSE
    /\ since_handshake' = kPauseBetweenCommands + 1
-----------------------------------------------------------------------------
\* tuh_hid_send_report fails while the endpoint is busy; flag is set if it did not.
Send(flag) == flag' = ~busy /\ busy' = TRUE

\* Mutant of PauseOver: compares with a deadline, which the clock may never pass.
PauseOverAbsolute == now > last_command_sent + kPauseBetweenCommands

\* Mutant of PauseOver: a failure is retried and the next command sent at once.
PauseOverAlways == TRUE

PauseOver == (now - last_command_sent) % ClockMod > kPauseBetweenCommands

\* What run stores before it tries to send a command.
Stamp == now

SendHandshake ==
    /\ ~handshake_sent
    /\ Send(handshake_sent)
    /\ since_handshake' = IF busy THEN since_handshake ELSE 0
    /\ UNCHANGED timeout_disabled

DisableTimeout ==
    /\ handshake_sent /\ ~timeout_disabled
    /\ Send(timeout_disabled)
    /\ UNCHANGED <<handshake_sent, since_handshake>>

UnchangedCommands == UNCHANGED <<handshake_sent, timeout_disabled, busy, since_handshake>>

\* SwitchProHandler::run
Run == /\ due
       /\ due' = FALSE
       /\ IF PauseOver
          THEN /\ last_command_sent' = Stamp
               /\ \/ SendHandshake
                  \/ DisableTimeout
                  \/ timeout_disabled /\ UnchangedCommands
          ELSE UnchangedCommands /\ UNCHANGED last_command_sent
       /\ UNCHANGED <<led_set, reports_collected, now>>

\* The counting of SwitchProHandler::process_report, after it has handed on the report
CountReport ==
    LET n == IF reports_collected > LedReports THEN reports_collected ELSE reports_collected + 1
    IN  /\ reports_collected' = n
        /\ IF ~led_set /\ n > LedReports THEN Send(led_set)
           ELSE UNCHANGED <<led_set, busy>>
        /\ UNCHANGED <<handshake_sent, timeout_disabled, last_command_sent, now, due,
                       since_handshake>>

\* The controller took the command from the endpoint.
Transferred == /\ busy
               /\ busy' = FALSE
               /\ UNCHANGED <<handshake_sent, timeout_disabled, led_set, reports_collected,
                              last_command_sent, now, due, since_handshake>>

\* A tick of board_millis; the main loop runs between any two.
Tick == /\ ~due
        /\ due' = TRUE
        /\ now' = (now + 1) % ClockMod
        /\ since_handshake' = IF since_handshake > kPauseBetweenCommands THEN since_handshake
                              ELSE since_handshake + 1
        /\ UNCHANGED <<handshake_sent, timeout_disabled, led_set, reports_collected,
                       last_command_sent, busy>>
-----------------------------------------------------------------------------
\* HandshakeSpaced: the handshake has its pause before the timeout is disabled,
\* however often either fails (run, "seems to ignore commands without any pauses").
HandshakeSpaced ==
    [][~timeout_disabled /\ timeout_disabled' => since_handshake > kPauseBetweenCommands]_proVars

Started == handshake_sent /\ timeout_disabled /\ led_set
=============================================================================
