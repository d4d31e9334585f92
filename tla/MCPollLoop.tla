------------------------------ MODULE MCPollLoop ------------------------------
EXTENDS PollLoop

\* A button is tapped, and the bot joins a group, is asked for its panel there
\* and is removed.  A second tap would be no more than the first sent again.
Taps == <<[kind |-> "press", token |-> "create"],
          [kind |-> "membership", status |-> "member"],
          [kind |-> "ephemeral"],
          [kind |-> "membership", status |-> "left"]>>
=============================================================================
