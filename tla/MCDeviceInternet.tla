-------------------------- MODULE MCDeviceInternet --------------------------
(* An instance of DeviceInternet for TLC.                                   *)
EXTENDS DeviceInternet

Window(days, from, to) == [days |-> days, from |-> from, to |-> to]

\* Within a day, up to midnight, and across midnight from the last day of the
\* week into the first.
MCOffered == {Window({1}, 0, 2), Window({0, 1}, 1, 0), Window({2}, 2, 1)}
=============================================================================
