SPECIFICATION Spec
CONSTANTS
    ip = ip
    email = email
    r1 = r1
    r2 = r2
    r3 = r3
    Ips = {ip}
    Emails = {email}
    Logins = {r1, r2, r3}
    IpOf <- MCIpOf
    EmailOf <- MCEmailOf
    Right = {r3}
    Burst = 2
    Rate = 1
    Stale = 2
    MaxAttempts = 1
    Window = 2
    MaxTime = 4
    MaxFaults = 1
    None = None
INVARIANTS AdmissionsBounded GuessesBounded CountersExpire
CHECK_DEADLOCK FALSE
