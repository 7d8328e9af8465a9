------------------------------- MODULE MCInit -------------------------------
(***************************************************************************)
(* Instances of ServerInit for TLC: every supported baud rate, every word  *)
(* length and both stop bits, each with and without parity, wrong values   *)
(* of each; every speed of the I2C bus, a wrong one, and clocks from one   *)
(* period to more than the shortest time.                                  *)
(***************************************************************************)
EXTENDS ServerInit

UartConfig(data_bits, stop_bits, parity, baudrate) ==
    [data_bits |-> data_bits, stop_bits |-> stop_bits, parity |-> parity, baudrate |-> baudrate]

MCUartConfigs ==
    {UartConfig(8, 1, FALSE, rate) : rate \in BAUDRATE_VALUES \cup {0, 9601}}
    \cup {UartConfig(bits, stop, parity, 115200) :
              bits \in 4..9, stop \in {1, 2}, parity \in BOOLEAN}
    \cup {UartConfig(8, stop, FALSE, 115200) : stop \in {0, 3}}

MCI2CConfigs ==
    [speed : DOMAIN DefaultTimes \cup {"I2C_SPEED_UNKNOWN"},
     clock_period_nanos : {1, 10, 41, 50, 100, 300}]

MCGarbage == {0, 65535}
============================================================================
