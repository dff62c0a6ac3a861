SPECIFICATION Spec
CONSTANTS
    PaidPlans <- PaidPlansMC
    CompanyLimits <- CompanyLimitsMC
    CatalogLimits <- CatalogLimitsMC
    Unlimited = Unlimited
    MaxCompanies = 3
    Items = {i1, i2}
    Reports = {r1, r2}
    Clients = {c1}
    Requests = {q1, q2}
    Nothing = Nothing
SYMMETRY Symmetry
INVARIANT SupplierCompaniesWithinPlans
INVARIANT NoSanctionWithoutOpenReport
INVARIANT PublicWasReviewed
PROPERTY DecisionIsFinal
