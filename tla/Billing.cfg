SPECIFICATION BillingSpec
CONSTANTS
  Orders = {o1, o2}
  Slots = {s1, s2}
  Methods = {"card", "account"}
  Disturbances = {"lost", "crash", "nosecret", "mismatch"}
  Months = 2
INVARIANTS ApprovedIsPaid PaidIsHonoured TossInv
PROPERTIES OutcomeFinal EachPaymentAddsAMonth
