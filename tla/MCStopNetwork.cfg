CONSTANTS
    s1 = s1  s2 = s2  s3 = s3  s4 = s4  s5 = s5
    c1 = c1  c2 = c2  c3 = c3  c4 = c4
    Senders = {s1, s2, s3, s4, s5}
    CertOf <- MCCertOf
    Parsable <- MCParsable
    StopNetworkCertBundle <- MCBundle
    UsedStopNetworkCerts <- MCUsed
    MaxAttempts = 2
    Faults = {"FirstBlockData", "CallContract", "Hash", "Enqueue", "Write"}
    MaxFaults = 2
SPECIFICATION Spec
INVARIANT TypeOK 
CHECK_DEADLOCK FALSE
