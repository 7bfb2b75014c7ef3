CONSTANTS
  r1 = r1
  r2 = r2
  Requests = {r1, r2}
  Accounts = {a1}
  NoPayer = noPayer
  Wallets = {w1, notAddress}
  ValidWallets = {w1}
  Amounts = {1, 2, 3}
  InexactAmounts = {3}
  AskedChains = {"sepolia", "base", "linea", "other"}
  Micro = 2
  MaxFee = 1
  Approval = 4
  InitialBalance <- TightBalance
  RpcFaults = TRUE
  MaxPayments = 2
SPECIFICATION Spec
SYMMETRY RequestSymmetry
INVARIANTS
  PayoutBacked
  Conservation

  
\* The service idles when no request is left.
CHECK_DEADLOCK FALSE
