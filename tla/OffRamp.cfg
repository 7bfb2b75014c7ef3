SPECIFICATION FairSpec
\* A unit of USDC has 4 parts: 7 are rounded up to 2 units, 6 half up,
\* 5 down to 1, and 3 are less than a unit.
CONSTANTS
  Requests = {r1}
  Wallets = {seller, service, notAddress}
  ValidWallets = {seller, service}
  Service = service
  Amounts = {3, 5, 6, 7}
  Values = {1, 2}
  Fine = 4
  Window = 1
  RpcFaults = TRUE
  MaxBlock = 3
INVARIANTS
  FiatBacked
  

  
\* The service idles when no request is left.
CHECK_DEADLOCK FALSE
