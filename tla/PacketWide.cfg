CONSTANTS
  tcp = tcp
  udp = udp
  sender = sender
  again = again
  Proto = {tcp, udp}
  Caller = {sender, again}
  Wide = TRUE
  Wanted = {"Ack", "Fail", "timeout"}
  Reply = {"Ack", "Fail"}
  OtherHost = {tcp}
  MaxReplies = 2
SPECIFICATION FairSpec
INVARIANTS TypeOK OneStatus PoppedItem
PROPERTIES Delivers Finishes
CHECK_DEADLOCK FALSE
