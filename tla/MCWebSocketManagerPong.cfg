CONSTANTS
    s1 = s1
    s2 = s2
    s3 = s3
    a = a
    Status = Status
    Pong = Pong
    Sockets <- MCSockets
    IPs = {a}
    ws_max_clients = 2
    ws_max_clients_per_ip = 2
    ws_client_queue_size = 2
    MaxCritical = 2

SPECIFICATION Spec
CHECK_DEADLOCK FALSE
PROPERTIES
    ClientsAreIsolated
