CONSTANTS
  r1 = r1
  r2 = r2
  Requests = {r1, r2}
  Accounts = {a1}
  NoPayer = noPayer
  Wallets = {w1}
  ValidWallets = {w1}
  Amounts = {2}
  InexactAmounts = {}
  AskedChains = {"linea"}
  Micro = 2
  MaxFee = 1
  Approval = 4
  InitialBalance <- AmpleBalance
  RpcFaults = FALSE
  MaxPayments = 1
SPECIFICATION FairSpec
PROPERTIES
  BurnedIsMinted
\* The service idles when no request is left.
CHECK_DEADLOCK FALSE
