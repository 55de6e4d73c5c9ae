------------------------------- MODULE MCHooks -------------------------------
EXTENDS Hooks

\* A web server that is reloaded, a mail server that is restarted, and a command for
\* the first.
MCHookList ==
    <<[kind |-> "reload", unit |-> "web"], [kind |-> "restart", unit |-> "mail"],
      [kind |-> "command", unit |-> "web"]>>
==============================================================================
