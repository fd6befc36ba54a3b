SPECIFICATION FairSpec
CONSTANTS
    op = op  guest = guest  chat = chat  nobody = nobody  nohour = nohour
    User = {op, guest}  Operator = {op}  Chat = {chat}
    Hour = {8}  Minute = {0, 30}  Time <- Times  Batch = {1, 5}  Lang = {1, 2}  DefaultLang = 1  Website = {1}
    Places = 2  Msg = {1, 2}  Starts <- Started
    NoUser = nobody  NoHour = nohour
    MaxRestarts = 1
INVARIANTS TypeOK EveryPressAnswered
PROPERTIES SavedAsAsked TenantsApart UpdatesEnd
