\* Two processes, so that one may start while another ends, and two clients.
\* kTimeoutInSeconds is two polling periods.
SPECIFICATION Spec
CONSTANTS
    Server = {s1, s2}
    Client = {c1, c2}
    Timeout = 2
    NoServer = NoServer
INVARIANT TypeOK
PROPERTIES WatchdogIsPatient UnusedServersEnd
